----------------------------- MODULE DecisionTree -----------------------------
(***************************************************************************)
(* DecTree::read_from_file_pack: a decision tree read line by line into    *)
(* the table that travelTree walks down.                                   *)
(*                                                                         *)
(* The walk takes as many steps as the tree is deep, whatever branch it is *)
(* on, so add_edge_pack gives every leaf successors: a leaf at an even     *)
(* level is its own, one at an odd level goes back to its parent.          *)
(*                                                                         *)
(* The file holds any binary tree in preorder, as it is exported: a line   *)
(* for a node and, except for the root, a line for the edge to it.  What a *)
(* node compares is left out: a walk is given by its turn at each node.    *)
(***************************************************************************)
EXTENDS Integers, SequencesExt

CONSTANTS MaxNodes,     \* bound on the size of the tree
          Samples       \* the sets of classes that a leaf may have samples of

ASSUME MaxNodesAssumption == MaxNodes \in Nat
ASSUME SamplesAssumption == \A cs \in Samples : cs # {} /\ cs \subseteq Nat \ {0}

None == -1
Id   == 0..(MaxNodes - 1)

VARIABLES
    size,               \* the length of node_vec
    leaf,               \* node_vec[n]->leaf
    lptr, rptr,         \* node_vec[n]->left, ->right
    level,              \* node_vec[n]->level
    left, right,        \* the table: the successors of each row
    label,              \* the labels, one after the other
    depth,
    line,               \* what the next line of the file is
    class               \* history: the classes of each leaf

table == <<left, right>>
vars  == <<size, leaf, lptr, rptr, level, table, label, depth, line, class>>

Nodes == 0..(size - 1)

\* Decision nodes that miss a child; in preorder the last one gets the next.
Open == {n \in Nodes : ~leaf[n] /\ rptr[n] = None}

Init == /\ size = 0
        /\ leaf = [n \in Id |-> FALSE]
        /\ lptr = [n \in Id |-> None]
        /\ rptr = [n \in Id |-> None]
        /\ level = [n \in Id |-> 0]
        /\ left = [n \in Id |-> 0]
        /\ right = [n \in Id |-> 0]
        /\ label = <<>>
        /\ depth = 0
        /\ line = "node"
        /\ class = [n \in Id |-> {}]

NodeLine ==
    /\ line = "node"
    /\ size = 0 \/ Open # {}
    /\ size < MaxNodes
    /\ size' = size + 1
    /\ line' = IF size = 0 THEN "node" ELSE "edge"
    /\ UNCHANGED <<lptr, rptr, level, table, depth>>

\* Slip: only leaves get a label.
DecisionLineNoLabel == NodeLine /\ UNCHANGED <<leaf, label, class>>

\* label="X[...] <= ...
DecisionLine ==
    /\ NodeLine
    /\ label' = Append(label, 0)
    /\ UNCHANGED <<leaf, class>>

\* The classes in ascending order, as the loop over the counts meets them.
InOrder(classes) ==
    {order \in SetToSeqs(classes) :
        \A m, n \in DOMAIN order : m < n => order[m] < order[n]}

\* label="gini = ...: a label for every class that is not empty.
LeafLine(classes) ==
    /\ NodeLine
    /\ leaf' = [leaf EXCEPT ![size] = TRUE]
    /\ \E order \in InOrder(classes) : label' = label \o order
    /\ class' = [class EXCEPT ![size] = classes]

\* Slips: the parity of the parent's level; a new row leads to the next one.
AddEdgeOtherParity(n1, n2) ==
    /\ level' = [level EXCEPT ![n2] = level[n1] + 1]
    /\ LET loop == IF level[n1] % 2 = 1 THEN n1 ELSE n2
       IN IF lptr[n1] = None
          THEN /\ lptr' = [lptr EXCEPT ![n1] = n2]
               /\ left' = [left EXCEPT ![n2] = loop, ![n1] = n2]
               /\ right' = [right EXCEPT ![n2] = loop]
               /\ UNCHANGED rptr
          ELSE /\ rptr' = [rptr EXCEPT ![n1] = n2]
               /\ left' = [left EXCEPT ![n2] = loop]
               /\ right' = [right EXCEPT ![n2] = loop, ![n1] = n2]
               /\ UNCHANGED lptr

AddEdgeToNext(n1, n2) ==
    /\ level' = [level EXCEPT ![n2] = level[n1] + 1]
    /\ IF lptr[n1] = None
       THEN /\ lptr' = [lptr EXCEPT ![n1] = n2]
            /\ left' = [left EXCEPT ![n2] = n2 + 1, ![n1] = n2]
            /\ right' = [right EXCEPT ![n2] = n2 + 1]
            /\ UNCHANGED rptr
       ELSE /\ rptr' = [rptr EXCEPT ![n1] = n2]
            /\ left' = [left EXCEPT ![n2] = n2 + 1]
            /\ right' = [right EXCEPT ![n2] = n2 + 1, ![n1] = n2]
            /\ UNCHANGED lptr

add_edge_pack(n1, n2) ==
    /\ level' = [level EXCEPT ![n2] = level[n1] + 1]
    /\ LET loop == IF level'[n2] % 2 = 1 THEN n1 ELSE n2
       IN IF lptr[n1] = None
          THEN /\ lptr' = [lptr EXCEPT ![n1] = n2]
               /\ left' = [left EXCEPT ![n2] = loop, ![n1] = n2]
               /\ right' = [right EXCEPT ![n2] = loop]
               /\ UNCHANGED rptr
          ELSE /\ rptr' = [rptr EXCEPT ![n1] = n2]
               /\ left' = [left EXCEPT ![n2] = loop]
               /\ right' = [right EXCEPT ![n2] = loop, ![n1] = n2]
               /\ UNCHANGED lptr

\* parent -> child
EdgeLine ==
    /\ line = "edge"
    /\ add_edge_pack(Max(Open \ {size - 1}), size - 1)
    /\ line' = "node"
    /\ UNCHANGED <<size, leaf, label, depth, class>>

\* Slip: the level of the last leaf.
DepthOfLast == level[size - 1]

DepthOfTree == Max({level[n] : n \in {m \in Nodes : leaf[m]}})

EndOfFile ==
    /\ line = "node" /\ size > 0 /\ Open = {}
    /\ depth' = DepthOfTree
    /\ line' = "eof"
    /\ UNCHANGED <<size, leaf, lptr, rptr, level, table, label, class>>

Next == \/ DecisionLine
        \/ \E classes \in Samples : LeafLine(classes)
        \/ EdgeLine
        \/ EndOfFile

Spec == Init /\ [][Next]_vars

-------------------------------------------------------------------------------

\* The decision nodes at which a walk turns left.  At a leaf, whose threshold is
\* 0, it always turns right.
Turns == SUBSET {n \in Nodes : ~leaf[n]}

\* The row at which the walk of travelTree ends.
Walk(turns) ==
    LET at[k \in 0..depth] ==
            IF k = 0 THEN 0
            ELSE LET n == at[k - 1] IN IF n \in turns THEN left[n] ELSE right[n]
    IN at[depth]

\* The leaf that DecTree::evaluate stops at.
evaluate(turns) ==
    LET at[k \in 0..MaxNodes] ==
            IF k = 0 THEN 0
            ELSE LET n == at[k - 1] IN
                 IF leaf[n] THEN n ELSE IF n \in turns THEN lptr[n] ELSE rptr[n]
    IN at[MaxNodes]

\* The walk ends at the leaf of evaluate, or, when this leaf is at an odd level
\* of a tree of even depth, at its parent.
WalkEndsAtLeafOrParent ==
    line = "eof" => \A turns \in Turns :
        LET l == evaluate(turns)
        IN IF level[l] % 2 = 0 \/ depth % 2 = 1
           THEN Walk(turns) = l
           ELSE l \in {lptr[Walk(turns)], rptr[Walk(turns)]}

\* Row n of the table has the class of node n, the parts of the table having
\* been filled by different lines.
LabelIsClassification ==
    line = "eof" => \A n \in Nodes :
        IF leaf[n] THEN label[n + 1] \in class[n] ELSE label[n + 1] = 0

\* No row leads out of the rows that were read.
RowsLeadToRows == line = "eof" => \A n \in Nodes : left[n] \in Nodes /\ right[n] \in Nodes

\* DtreeModel.cpp:66 calls the tree "padded as a complete tree", in which every
\* walk of full length would end at a leaf.
WalkEndsAtLeaf == line = "eof" => \A turns \in Turns : leaf[Walk(turns)]
===============================================================================
