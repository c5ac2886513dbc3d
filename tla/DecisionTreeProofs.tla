--------------------------- MODULE DecisionTreeProofs --------------------------
(***************************************************************************)
(* Proofs about DecisionTree for trees of any size: the table that is      *)
(* filled line by line is the padded tree, and a walk of fixed length down *)
(* the table ends where the plain evaluation does.                         *)
(***************************************************************************)
EXTENDS DecisionTree, FiniteSetTheorems, SequenceTheorems, WellFoundedInduction, TLAPS

Numbers == INSTANCE CommonLemmas WITH Bits <- {}

-------------------------------------------------------------------------------
(* The table while the file is read. *)

Child(n, c) == c # None /\ (c = lptr[n] \/ c = rptr[n])

\* The last node is read and the edge to it is not.
Loose(n) == line = "edge" /\ n = size - 1

Types ==
    /\ size \in 0..MaxNodes
    /\ leaf \in [Id -> BOOLEAN]
    /\ lptr \in [Id -> Id \cup {None}] /\ rptr \in [Id -> Id \cup {None}]
    /\ level \in [Id -> Nat] /\ left \in [Id -> Nat] /\ right \in [Id -> Nat]
    /\ line \in {"node", "edge", "eof"}

\* What a node is before anything is read about it.
Blank(n) == /\ lptr[n] = None /\ rptr[n] = None
            /\ left[n] = 0 /\ right[n] = 0 /\ level[n] = 0

Reading ==
    /\ \A n \in Id : n >= size => Blank(n) /\ ~leaf[n]
    /\ line = "edge" => size > 1 /\ Open \ {size - 1} # {} /\ Blank(size - 1)
    /\ line = "eof" => size > 0 /\ Open = {} /\ depth = DepthOfTree
    /\ size > 0 => level[0] = 0

\* The pointers of a node and its row of the table.
Links ==
    \A n \in Nodes :
        /\ leaf[n] => lptr[n] = None
        /\ lptr[n] = None => rptr[n] = None
        /\ lptr[n] # None => left[n] = lptr[n] /\ lptr[n] # rptr[n]
        /\ rptr[n] # None => right[n] = rptr[n]
        /\ level[n] <= n

\* Edges lead to later nodes, one level down, and only one to each.
Below ==
    \A n \in Nodes : \A c : Child(n, c) =>
        c \in Nodes /\ n < c /\ level[c] = level[n] + 1 /\ ~Loose(c)

OneParent ==
    \A m, n \in Nodes : \A c : Child(m, c) /\ Child(n, c) => m = n

\* The successor of a leaf's row: itself, or its parent.
LeafRows ==
    \A n \in Nodes : leaf[n] /\ ~Loose(n) =>
        /\ level[n] % 2 = 0 => right[n] = n
        /\ level[n] % 2 = 1 => right[n] \in Nodes /\ Child(right[n], n)

Rows ==
    \A n \in Nodes : left[n] \in Nodes /\ right[n] \in Nodes

TreeInv == Types /\ Reading /\ Links /\ Below /\ OneParent /\ LeafRows /\ Rows

LEMMA TreeInit ==
    ASSUME Init
    PROVE  TreeInv
<1>1. Nodes = {} /\ size = 0 /\ line = "node"
  BY DEF Init, Nodes
<1>2. Types
  BY MaxNodesAssumption DEF Init, Types
<1>3. Reading
  BY <1>1 DEF Init, Reading, Blank
<1> QED BY <1>1, <1>2, <1>3 DEF TreeInv, Links, Below, OneParent, LeafRows, Rows

LEMMA MaxOfNodes ==
    ASSUME NEW n \in Nat, NEW S, S \subseteq 0..n, S # {}
    PROVE  Max(S) \in S /\ \A x \in S : x <= Max(S)
<1> DEFINE T == {n - x : x \in S}
<1>1. T \subseteq Nat /\ T # {}
  <2>1. \A x \in S : x \in 0..n /\ n - x \in Nat
    OBVIOUS
  <2> QED BY <2>1
<1>2. PICK t \in T : \A y \in T : t <= y
  BY <1>1, Numbers!LeastElement
<1>3. PICK m \in S : t = n - m
  BY <1>2
<1>4. \A x \in S : m >= x
  <2> TAKE x \in S
  <2>1. n - m <= n - x /\ m \in 0..n /\ x \in 0..n
    BY <1>2, <1>3
  <2> QED BY <2>1
<1>5. Max(S) \in S /\ \A x \in S : Max(S) >= x
  BY <1>4 DEF Max
<1>6. \A x \in S : x \in Nat
  OBVIOUS
<1> QED BY <1>5, <1>6

\* A line for a node.
LEMMA NodeLineHolds ==
    ASSUME TreeInv, NodeLine, leaf' = leaf \/ leaf' = [leaf EXCEPT ![size] = TRUE]
    PROVE  TreeInv'
<1>1. Types /\ Reading /\ Links /\ Below /\ OneParent /\ LeafRows /\ Rows
  BY DEF TreeInv
<1>2. /\ line = "node" /\ (size = 0 \/ Open # {}) /\ size < MaxNodes /\ size' = size + 1
      /\ line' = IF size = 0 THEN "node" ELSE "edge"
      /\ UNCHANGED <<lptr, rptr, level, left, right, depth>>
  BY DEF NodeLine, table
<1>3. /\ size \in Nat /\ size \in Id /\ size \in Nodes' /\ size \notin Nodes
      /\ \A n : n \in Nodes' <=> n \in Nodes \/ n = size
      /\ \A n \in Nodes : n \in Id /\ n \in Nat /\ n # size /\ leaf'[n] = leaf[n]
      /\ \A n \in Nodes : ~Loose(n) /\ ~Loose(n)'
      /\ Nodes = {} <=> size = 0
  <2>1. size \in Nat /\ MaxNodes \in Nat /\ size \in Id
    BY <1>1, <1>2, MaxNodesAssumption DEF Types, Id
  <2>2. /\ size \in Nodes' /\ size \notin Nodes
        /\ \A n : n \in Nodes' <=> n \in Nodes \/ n = size
        /\ Nodes = {} <=> size = 0
    BY <1>2, <2>1 DEF Nodes
  <2>3. \A n \in Nodes : n \in Id /\ n \in Nat /\ n # size
    BY <1>2, <2>1 DEF Nodes, Id
  <2>4. \A n \in Nodes : leaf'[n] = leaf[n]
    BY <1>1, <2>3 DEF Types
  <2>5. \A n \in Nodes : ~Loose(n) /\ ~Loose(n)'
    BY <1>2, <2>1, <2>3 DEF Loose
  <2> QED BY <2>1, <2>2, <2>3, <2>4, <2>5
<1>4. Blank(size) /\ ~leaf[size]
  BY <1>1, <1>3 DEF Reading
<1>5. \A n, c : Child(n, c)' <=> Child(n, c)
  BY <1>2 DEF Child
<1>6. \A c : ~Child(size, c)
  BY <1>4 DEF Child, Blank
<1>7. Types'
  <2>1. leaf' \in [Id -> BOOLEAN]
    BY <1>1 DEF Types
  <2>2. size' \in 0..MaxNodes /\ line' \in {"node", "edge", "eof"}
    BY <1>2, <1>3, MaxNodesAssumption
  <2> QED BY <1>1, <1>2, <2>1, <2>2 DEF Types
<1>8. Reading'
  <2>1. \A n \in Id : n >= size + 1 => Blank(n)' /\ ~leaf'[n]
    BY <1>1, <1>2, <1>3 DEF Reading, Blank, Types
  <2>2. ASSUME size # 0 PROVE Open' \ {size} # {}
    <3>1. PICK n : n \in Open
      BY <1>2, <2>2
    <3>2. n \in Nodes /\ ~leaf[n] /\ rptr[n] = None
      BY <3>1 DEF Open
    <3>3. n \in Open' \ {size}
      BY <1>2, <1>3, <3>2 DEF Open
    <3> QED BY <3>3
  <2>3. level'[0] = 0
    BY <1>1, <1>2, <1>3, <1>4 DEF Reading, Blank
  <2>4. size' - 1 = size /\ Blank(size - 1)'
    BY <1>2, <1>3, <1>4 DEF Blank
  <2>5. line' = "edge" => size' > 1 /\ Open' \ {size' - 1} # {}
    BY <1>2, <1>3, <2>2, <2>4
  <2> QED BY <1>2, <2>1, <2>3, <2>4, <2>5 DEF Reading
<1>9. Links'
  BY <1>1, <1>2, <1>3, <1>4 DEF Links, Blank
<1>10. Below' /\ OneParent'
  BY <1>1, <1>2, <1>3, <1>5, <1>6 DEF Below, OneParent
<1>11. LeafRows'
  <2> SUFFICES ASSUME NEW n \in Nodes', leaf'[n], ~Loose(n)'
               PROVE  /\ level'[n] % 2 = 0 => right'[n] = n
                      /\ level'[n] % 2 = 1 => right'[n] \in Nodes' /\ Child(right[n], n)'
    BY DEF LeafRows
  <2>1. CASE n \in Nodes
    BY <1>1, <1>2, <1>3, <1>5, <2>1 DEF LeafRows
  <2>2. CASE n = size
    <3>1. size = 0
      BY <1>2, <1>3, <2>2 DEF Loose
    <3> QED BY <1>2, <1>4, <2>2, <3>1 DEF Blank
  <2> QED BY <1>3, <2>1, <2>2
<1>12. Rows'
  <2> SUFFICES ASSUME NEW n \in Nodes' PROVE left'[n] \in Nodes' /\ right'[n] \in Nodes'
    BY DEF Rows
  <2>1. CASE n \in Nodes
    BY <1>1, <1>2, <1>3, <2>1 DEF Rows
  <2>2. CASE n = size
    <3>1. 0 \in Nodes'
      BY <1>2, <1>3 DEF Nodes
    <3> QED BY <1>2, <1>4, <2>2, <3>1 DEF Blank
  <2> QED BY <1>3, <2>1, <2>2
<1> QED BY <1>7, <1>8, <1>9, <1>10, <1>11, <1>12 DEF TreeInv

\* A line for an edge: the node joins the tree below the last open node.
LEMMA EdgeLineHolds ==
    ASSUME TreeInv, EdgeLine
    PROVE  TreeInv'
<1> DEFINE n2 == size - 1
           n1 == Max(Open \ {size - 1})
           loop == IF (level[n1] + 1) % 2 = 1 THEN n1 ELSE n2
<1>1. Types /\ Reading /\ Links /\ Below /\ OneParent /\ LeafRows /\ Rows
  BY DEF TreeInv
<1>2. /\ line = "edge" /\ line' = "node"
      /\ UNCHANGED <<size, leaf, label, depth, class>> /\ add_edge_pack(n1, n2)
  BY DEF EdgeLine
<1>3. /\ size \in Nat /\ size > 1 /\ n2 \in Nodes /\ n2 \in Nat /\ Nodes' = Nodes
      /\ \A n \in Nodes : n \in Id /\ n \in Nat /\ n <= n2
      /\ 0 \in Nodes
  BY <1>1, <1>2, MaxNodesAssumption DEF Types, Reading, Nodes, Id
<1>4. n1 \in Nodes /\ n1 # n2 /\ ~leaf[n1] /\ rptr[n1] = None
  <2>1. Open \ {size - 1} # {}
    BY <1>1, <1>2 DEF Reading
  <2>2. Open \ {size - 1} \subseteq 0..size
    BY <1>3 DEF Open, Nodes
  <2>3. Max(Open \ {size - 1}) \in Open \ {size - 1}
    BY <1>3, <2>1, <2>2, MaxOfNodes
  <2> QED BY <2>3 DEF Open
<1> HIDE DEF n1
<1>5. Blank(n2)
  BY <1>1, <1>2 DEF Reading
<1>6. level[n1] \in Nat /\ level[n1] <= n1 /\ n1 < n2
  BY <1>1, <1>3, <1>4 DEF Types, Links
<1>7. /\ level' = [level EXCEPT ![n2] = level[n1] + 1]
      /\ level'[n2] = level[n1] + 1 /\ \A n \in Nodes : n # n2 => level'[n] = level[n]
  <2>1. level' = [level EXCEPT ![n2] = level[n1] + 1]
    BY <1>2 DEF add_edge_pack
  <2> QED BY <1>1, <1>3, <2>1 DEF Types
\* The two ways in which the edge is added.
<1>8. \/ /\ lptr[n1] = None
         /\ lptr' = [lptr EXCEPT ![n1] = n2] /\ rptr' = rptr
         /\ left' = [left EXCEPT ![n2] = loop, ![n1] = n2]
         /\ right' = [right EXCEPT ![n2] = loop]
      \/ /\ lptr[n1] # None
         /\ rptr' = [rptr EXCEPT ![n1] = n2] /\ lptr' = lptr
         /\ left' = [left EXCEPT ![n2] = loop]
         /\ right' = [right EXCEPT ![n2] = loop, ![n1] = n2]
  BY <1>2, <1>7 DEF add_edge_pack
<1>9. loop \in Nodes /\ loop \in Nat
  BY <1>3, <1>4
<1> HIDE DEF loop
<1>10. /\ lptr \in [Id -> Id \cup {None}] /\ rptr \in [Id -> Id \cup {None}]
       /\ left \in [Id -> Nat] /\ right \in [Id -> Nat] /\ level \in [Id -> Nat]
       /\ n1 \in Id /\ n2 \in Id /\ n1 # n2 /\ n1 \in Nat /\ n2 \in Nat /\ None \notin Nat
       /\ lptr[n2] = None /\ rptr[n2] = None
  BY <1>1, <1>3, <1>4, <1>5 DEF Types, Blank, None
<1>11. /\ \A n \in Nodes : n # n1 => lptr'[n] = lptr[n] /\ rptr'[n] = rptr[n]
       /\ \A n \in Nodes : n # n1 /\ n # n2 => left'[n] = left[n] /\ right'[n] = right[n]
       /\ left'[n2] = loop /\ right'[n2] = loop
       /\ \/ /\ lptr[n1] = None /\ lptr'[n1] = n2 /\ rptr'[n1] = None
             /\ left'[n1] = n2 /\ right'[n1] = right[n1]
          \/ /\ lptr[n1] # None /\ lptr'[n1] = lptr[n1] /\ rptr'[n1] = n2
             /\ left'[n1] = left[n1] /\ right'[n1] = n2
  <2> HIDE DEF n2
  <2>1. CASE /\ lptr[n1] = None
             /\ lptr' = [lptr EXCEPT ![n1] = n2] /\ rptr' = rptr
             /\ left' = [left EXCEPT ![n2] = loop, ![n1] = n2]
             /\ right' = [right EXCEPT ![n2] = loop]
    BY <1>3, <1>4, <1>10, <2>1
  <2>2. CASE /\ lptr[n1] # None
             /\ rptr' = [rptr EXCEPT ![n1] = n2] /\ lptr' = lptr
             /\ left' = [left EXCEPT ![n2] = loop]
             /\ right' = [right EXCEPT ![n2] = loop, ![n1] = n2]
    BY <1>3, <1>4, <1>10, <2>2
  <2> QED BY <1>8, <2>1, <2>2
<1>12. \A n \in Nodes : \A c : Child(n, c)' <=> Child(n, c) \/ (n = n1 /\ c = n2)
  <2> HIDE DEF n2
  <2> SUFFICES ASSUME NEW n \in Nodes, NEW c
               PROVE  Child(n, c)' <=> Child(n, c) \/ (n = n1 /\ c = n2)
    OBVIOUS
  <2>1. CASE n # n1
    BY <1>11, <2>1 DEF Child
  <2>2. CASE n = n1
    <3>1. n2 # None
      BY <1>10 DEF None
    <3> QED BY <1>4, <1>11, <2>2, <3>1 DEF Child
  <2> QED BY <2>1, <2>2
<1>13. \A n \in Nodes : /\ ~Loose(n)'
                        /\ Loose(n) <=> n = n2
                        /\ ~Child(n, n2)
  <2>1. \A n \in Nodes : ~Loose(n)' /\ (Loose(n) <=> n = n2)
    BY <1>2 DEF Loose
  <2> QED BY <1>1, <1>3, <2>1 DEF Below
<1>14. Types'
  <2>1. lptr' \in [Id -> Id \cup {None}] /\ rptr' \in [Id -> Id \cup {None}]
    BY <1>8, <1>10
  <2>2. left' \in [Id -> Nat] /\ right' \in [Id -> Nat]
    BY <1>8, <1>9, <1>10
  <2>3. level' \in [Id -> Nat]
    BY <1>6, <1>7, <1>10
  <2> QED BY <1>1, <1>2, <2>1, <2>2, <2>3 DEF Types
<1>15. Reading'
  <2>1. ASSUME NEW n \in Id, n >= size PROVE Blank(n)' /\ ~leaf'[n]
    <3>1. Blank(n) /\ ~leaf[n] /\ n # n1 /\ n # n2
      BY <1>1, <1>3, <1>4, <2>1 DEF Reading
    <3>2. /\ lptr'[n] = lptr[n] /\ rptr'[n] = rptr[n] /\ left'[n] = left[n]
          /\ right'[n] = right[n] /\ level'[n] = level[n]
      BY <1>7, <1>8, <1>10, <3>1
    <3> QED BY <1>2, <3>1, <3>2 DEF Blank
  <2>2. level'[0] = 0
    <3>1. 0 # n2 /\ level[0] = 0
      BY <1>1, <1>3 DEF Reading
    <3> QED BY <1>3, <1>7, <3>1
  <2> QED BY <1>2, <2>1, <2>2 DEF Reading
<1>16. Links'
  <2> SUFFICES ASSUME NEW n \in Nodes
               PROVE  /\ leaf[n] => lptr'[n] = None
                      /\ lptr'[n] = None => rptr'[n] = None
                      /\ lptr'[n] # None => left'[n] = lptr'[n] /\ lptr'[n] # rptr'[n]
                      /\ rptr'[n] # None => right'[n] = rptr'[n]
                      /\ level'[n] <= n
    BY <1>2, <1>3 DEF Links
  <2>0. /\ leaf[n] => lptr[n] = None
        /\ lptr[n] = None => rptr[n] = None
        /\ lptr[n] # None => left[n] = lptr[n] /\ lptr[n] # rptr[n]
        /\ rptr[n] # None => right[n] = rptr[n]
        /\ level[n] <= n
    BY <1>1 DEF Links
  <2>1. CASE n # n1 /\ n # n2
    BY <1>7, <1>11, <2>0, <2>1
  <2>2. CASE n = n2
    BY <1>6, <1>7, <1>10, <1>11, <2>2
  <2>3. CASE n = n1
    <3>1. lptr[n1] # None => lptr[n1] # n2
      <4>1. ~Child(n1, n2)
        BY <1>4, <1>13
      <4> QED BY <1>10, <4>1 DEF Child
    <3>2. n2 # None /\ level'[n1] = level[n1]
      BY <1>4, <1>7, <1>10
    <3> QED BY <1>4, <1>11, <2>0, <2>3, <3>1, <3>2
  <2> QED BY <2>1, <2>2, <2>3
<1>17. Below'
  <2> SUFFICES ASSUME NEW n \in Nodes, NEW c, Child(n, c)'
               PROVE  c \in Nodes /\ n < c /\ level'[c] = level'[n] + 1 /\ ~Loose(c)'
    BY <1>3 DEF Below
  <2>1. CASE Child(n, c)
    <3>1. c \in Nodes /\ n < c /\ level[c] = level[n] + 1 /\ c # n2
      BY <1>1, <1>13, <2>1 DEF Below
    <3>2. n # n2
      BY <1>10, <2>1 DEF Child
    <3> QED BY <1>7, <1>13, <3>1, <3>2
  <2>2. CASE n = n1 /\ c = n2
    BY <1>3, <1>4, <1>6, <1>7, <1>13, <2>2
  <2> QED BY <1>12, <2>1, <2>2
<1>18. OneParent'
  <2> SUFFICES ASSUME NEW m \in Nodes, NEW n \in Nodes, NEW c, Child(m, c)', Child(n, c)'
               PROVE  m = n
    BY <1>3 DEF OneParent
  <2> QED BY <1>1, <1>12, <1>13 DEF OneParent
<1>19. LeafRows'
  <2> SUFFICES ASSUME NEW n \in Nodes, leaf[n]
               PROVE  /\ level'[n] % 2 = 0 => right'[n] = n
                      /\ level'[n] % 2 = 1 => right'[n] \in Nodes /\ Child(right[n], n)'
    BY <1>2, <1>3 DEF LeafRows, Child
  <2>1. CASE n # n2
    <3>1. n # n1 /\ right'[n] = right[n] /\ level'[n] = level[n] /\ ~Loose(n)
      BY <1>4, <1>7, <1>11, <1>13, <2>1
    <3>2. /\ level[n] % 2 = 0 => right[n] = n
          /\ level[n] % 2 = 1 => right[n] \in Nodes /\ Child(right[n], n)
      BY <1>1, <3>1 DEF LeafRows
    <3>3. level[n] % 2 = 1 => Child(right[n], n)'
      BY <1>12, <3>1, <3>2 DEF Child
    <3> QED BY <3>1, <3>2, <3>3
  <2>2. CASE n = n2
    <3>1. right'[n] = loop /\ level'[n] = level[n1] + 1
      BY <1>7, <1>11, <2>2
    <3>2. level'[n] % 2 = 1 => right'[n] = n1
      BY <3>1 DEF loop
    <3>3. level'[n] % 2 = 0 => right'[n] = n
      BY <2>2, <3>1 DEF loop
    <3>4. \A r \in Nodes : r = n1 => Child(r, n)'
      BY <1>12, <2>2
    <3>5. level'[n] % 2 = 1 => Child(right[n], n)'
      BY <1>4, <3>2, <3>4 DEF Child
    <3> QED BY <1>4, <3>2, <3>3, <3>5
  <2> QED BY <2>1, <2>2
<1>20. Rows'
  <2> SUFFICES ASSUME NEW n \in Nodes PROVE left'[n] \in Nodes /\ right'[n] \in Nodes
    BY <1>3 DEF Rows
  <2>1. left[n] \in Nodes /\ right[n] \in Nodes
    BY <1>1 DEF Rows
  <2> QED BY <1>3, <1>9, <1>11, <2>1
<1> QED BY <1>14, <1>15, <1>16, <1>17, <1>18, <1>19, <1>20 DEF TreeInv

\* A step that leaves the nodes and the table as they are.
LEMMA SameTree ==
    ASSUME TreeInv, UNCHANGED <<size, leaf, lptr, rptr, level, left, right>>,
           line' \in {"node", "edge", "eof"}, line' = line \/ {line, line'} \subseteq {"node", "eof"},
           line' = "eof" => size > 0 /\ Open = {} /\ depth' = DepthOfTree
    PROVE  TreeInv'
<1>1. Types /\ Reading /\ Links /\ Below /\ OneParent /\ LeafRows /\ Rows
  BY DEF TreeInv
<1>2. Nodes' = Nodes /\ Open' = Open /\ DepthOfTree' = DepthOfTree
  BY DEF Nodes, Open, DepthOfTree
<1>3. \A n, c : Child(n, c)' <=> Child(n, c)
  BY DEF Child
<1>4. \A n : Loose(n)' <=> Loose(n)
  BY DEF Loose
<1>5. Types' /\ Links'
  BY <1>1, <1>2 DEF Types, Links
<1>6. Reading'
  <2>1. \A n : Blank(n)' <=> Blank(n)
    BY DEF Blank
  <2>2. Blank(size - 1)' <=> Blank(size - 1)
    BY DEF Blank
  <2> QED BY <1>1, <1>2, <2>1, <2>2 DEF Reading
<1>7. Below' /\ OneParent'
  BY <1>1, <1>2, <1>3, <1>4 DEF Below, OneParent
<1>8. LeafRows' /\ Rows'
  <2>1. \A n : Child(right[n], n)' <=> Child(right[n], n)
    BY DEF Child
  <2> QED BY <1>1, <1>2, <1>4, <2>1 DEF LeafRows, Rows
<1> QED BY <1>1, <1>5, <1>6, <1>7, <1>8 DEF TreeInv

\* The table is a tree with padded leaves at every line of the file.
THEOREM TreeInvariance == Spec => []TreeInv
<1>1. Init => TreeInv
  BY TreeInit
<1>2. TreeInv /\ [Next]_vars => TreeInv'
  <2> SUFFICES ASSUME TreeInv, [Next]_vars PROVE TreeInv'
    OBVIOUS
  <2>1. CASE DecisionLine
    BY <2>1, NodeLineHolds DEF DecisionLine
  <2>2. ASSUME NEW classes \in Samples, LeafLine(classes) PROVE TreeInv'
    BY <2>2, NodeLineHolds DEF LeafLine
  <2>3. CASE EdgeLine
    BY <2>3, EdgeLineHolds
  <2>4. CASE EndOfFile
    BY <2>4, SameTree DEF EndOfFile, table
  <2>5. CASE UNCHANGED vars
    <3>1. UNCHANGED <<size, leaf, lptr, rptr, level, left, right, line, depth>>
      BY <2>5 DEF vars, table
    <3>2. line \in {"node", "edge", "eof"} /\ (line = "eof" => size > 0 /\ Open = {} /\ depth = DepthOfTree)
      BY DEF TreeInv, Types, Reading
    <3>3. /\ line' = line /\ line' \in {"node", "edge", "eof"}
          /\ line' = "eof" => size > 0 /\ Open = {} /\ depth' = DepthOfTree
      BY <3>1, <3>2
    <3>4. UNCHANGED <<size, leaf, lptr, rptr, level, left, right>>
      BY <3>1
    <3> QED BY <3>3, <3>4, SameTree
  <2> QED BY <2>1, <2>2, <2>3, <2>4, <2>5 DEF Next
<1> QED BY <1>1, <1>2, PTL DEF Spec

\* When the file is read, no row of the table leads out of the rows that were
\* read (add_edge_pack), so that the walk of travelTree stays inside the model.
THEOREM TableIsClosed == Spec => []RowsLeadToRows
<1>1. TreeInv => RowsLeadToRows
  BY DEF TreeInv, Rows, RowsLeadToRows
<1> QED BY <1>1, TreeInvariance, PTL

-------------------------------------------------------------------------------
(* Where the walk ends. *)

Turn(turns, n) == IF n \in turns THEN lptr[n] ELSE rptr[n]

PlainPath(turns, e) ==
    /\ e \in [0..MaxNodes -> Nodes] /\ e[0] = 0
    /\ \A k \in 1..MaxNodes :
          e[k] = IF leaf[e[k - 1]] THEN e[k - 1] ELSE Turn(turns, e[k - 1])

TablePath(turns, w) ==
    /\ w \in [0..depth -> Nodes] /\ w[0] = 0
    /\ \A k \in 1..depth :
          w[k] = IF w[k - 1] \in turns THEN left[w[k - 1]] ELSE right[w[k - 1]]

\* The tree when the whole file is read.
LEMMA WholeTree ==
    ASSUME TreeInv, line = "eof"
    PROVE  /\ size \in Nat \ {0} /\ size <= MaxNodes /\ 0 \in Nodes /\ level[0] = 0
           /\ \A n \in Nodes : n \in Nat /\ n < MaxNodes /\ level[n] \in Nat /\ level[n] <= n
           /\ \A n \in Nodes : ~leaf[n] =>
                /\ lptr[n] \in Nodes /\ left[n] = lptr[n] /\ level[lptr[n]] = level[n] + 1
                /\ rptr[n] \in Nodes /\ right[n] = rptr[n] /\ level[rptr[n]] = level[n] + 1
                /\ lptr[n] # None /\ rptr[n] # None
           /\ \A n \in Nodes : leaf[n] =>
                /\ level[n] % 2 = 0 => right[n] = n
                /\ level[n] % 2 = 1 => right[n] \in Nodes /\ ~leaf[right[n]] /\ Child(right[n], n)
           /\ \A m, n \in Nodes : \A c : Child(m, c) /\ Child(n, c) => m = n
<1>1. Types /\ Reading /\ Links /\ Below /\ OneParent /\ LeafRows /\ Rows
  BY DEF TreeInv
<1>2. size \in Nat \ {0} /\ size <= MaxNodes /\ Open = {} /\ level[0] = 0 /\ \A n : ~Loose(n)
  BY <1>1, MaxNodesAssumption DEF Types, Reading, Loose
<1>3. 0 \in Nodes /\ \A n \in Nodes : n \in Nat /\ n < MaxNodes /\ n \in Id
  BY <1>2, MaxNodesAssumption DEF Nodes, Id
<1>4. \A n \in Nodes : level[n] \in Nat /\ level[n] <= n
  BY <1>1, <1>3 DEF Types, Links
<1>5. ASSUME NEW n \in Nodes, ~leaf[n]
      PROVE  /\ lptr[n] \in Nodes /\ left[n] = lptr[n] /\ level[lptr[n]] = level[n] + 1
             /\ rptr[n] \in Nodes /\ right[n] = rptr[n] /\ level[rptr[n]] = level[n] + 1
             /\ lptr[n] # None /\ rptr[n] # None
  <2>1. rptr[n] # None
    BY <1>2, <1>5 DEF Open
  <2>2. lptr[n] # None
    BY <1>1, <2>1 DEF Links
  <2>3. left[n] = lptr[n] /\ right[n] = rptr[n]
    BY <1>1, <2>1, <2>2 DEF Links
  <2>4. Child(n, lptr[n]) /\ Child(n, rptr[n])
    BY <2>1, <2>2 DEF Child
  <2> QED BY <1>1, <2>1, <2>2, <2>3, <2>4 DEF Below
<1>6. ASSUME NEW n \in Nodes, leaf[n], level[n] % 2 = 1
      PROVE  right[n] \in Nodes /\ ~leaf[right[n]] /\ Child(right[n], n)
  <2>1. right[n] \in Nodes /\ Child(right[n], n)
    BY <1>1, <1>2, <1>6 DEF LeafRows
  <2>2. lptr[right[n]] # None \/ rptr[right[n]] # None
    BY <2>1 DEF Child
  <2> QED BY <1>1, <2>1, <2>2 DEF Links
<1>7. \A n \in Nodes : leaf[n] /\ level[n] % 2 = 0 => right[n] = n
  BY <1>1, <1>2 DEF LeafRows
<1> QED BY <1>1, <1>2, <1>3, <1>4, <1>5, <1>6, <1>7 DEF OneParent

\* evaluate is the end of a path down the tree.
LEMMA EvaluatePath ==
    ASSUME TreeInv, line = "eof", NEW turns
    PROVE  \E e : PlainPath(turns, e) /\ evaluate(turns) = e[MaxNodes]
<1> DEFINE step(n) == IF leaf[n] THEN n ELSE IF n \in turns THEN lptr[n] ELSE rptr[n]
           g == [n \in Nodes |-> step(n)]
           P(f) == f = [k \in 0..MaxNodes |->
                          IF k = 0 THEN 0 ELSE step(f[k - 1])]
           e == CHOOSE f : P(f)
<1>1. 0 \in Nodes /\ MaxNodes \in Nat /\ g \in [Nodes -> Nodes]
  BY WholeTree, MaxNodesAssumption
<1>2. PICK f \in [0..MaxNodes -> Nodes] : f[0] = 0 /\ \A k \in 1..MaxNodes : f[k] = g[f[k - 1]]
  <2> HIDE DEF g
  <2>1. \E f : Numbers!Orbit(f, Nodes, g, 0, MaxNodes)
    BY <1>1, Numbers!Iterates
  <2> QED BY <2>1 DEF Numbers!Orbit
<1>3. \A k \in 1..MaxNodes : k - 1 \in 0..MaxNodes /\ k \in 0..MaxNodes /\ k # 0
  BY <1>1
<1>4. P(f)
  <2>1. ASSUME NEW k \in 1..MaxNodes PROVE f[k] = step(f[k - 1])
    <3>1. f[k - 1] \in Nodes
      BY <1>2, <1>3
    <3>2. f[k] = g[f[k - 1]]
      BY <1>2
    <3> QED BY <3>1, <3>2
  <2>2. \A k \in 0..MaxNodes : k = 0 \/ k \in 1..MaxNodes
    BY <1>1
  <2> DEFINE F == [k \in 0..MaxNodes |-> IF k = 0 THEN 0 ELSE step(f[k - 1])]
  <2>3. \A k \in 0..MaxNodes : f[k] = F[k]
    <3> HIDE DEF step
    <3> QED BY <1>2, <2>1, <2>2
  <2>4. f = F
    <3> HIDE DEF step
    <3> QED BY <1>2, <2>3
  <2> QED BY <2>4
<1>5. P(e)
  <2> HIDE DEF P
  <2> QED BY <1>4
<1>6. evaluate(turns) = e[MaxNodes]
  BY DEF evaluate
<1> HIDE DEF e
<1>7. e[0] = 0
  BY <1>1, <1>5
<1>8. \A k \in 1..MaxNodes : e[k] = step(e[k - 1])
  BY <1>1, <1>3, <1>5
<1>9. e = [k \in 0..MaxNodes |-> e[k]]
  BY <1>5
<1>10. \A k \in 0..MaxNodes : e[k] \in Nodes
  <2> DEFINE S == {k \in 0..MaxNodes : e[k] \in Nodes}
  <2>1. 0 \in S
    BY <1>1, <1>7
  <2>2. \A n \in 0..(MaxNodes - 1) : n \in S => n + 1 \in S
    <3> SUFFICES ASSUME NEW n \in 0..(MaxNodes - 1), e[n] \in Nodes PROVE n + 1 \in S
      OBVIOUS
    <3>1. n + 1 \in 1..MaxNodes /\ (n + 1) - 1 = n /\ n + 1 \in 0..MaxNodes
      BY <1>1
    <3>2. g[e[n]] \in Nodes /\ g[e[n]] = step(e[n])
      BY <1>1
    <3>3. e[n + 1] = step(e[n])
      <4> HIDE DEF step
      <4> QED BY <1>8, <3>1
    <3> QED BY <3>1, <3>2, <3>3
  <2> HIDE DEF S
  <2>3. \A n \in 0..MaxNodes : n \in S
    BY <1>1, <2>1, <2>2, Numbers!CountUpTo
  <2> QED BY <2>3 DEF S
<1>11. e \in [0..MaxNodes -> Nodes]
  BY <1>9, <1>10
<1>12. PlainPath(turns, e)
  BY <1>7, <1>8, <1>11 DEF PlainPath, Turn
<1> QED BY <1>6, <1>12

\* The walk is a path along the rows of the table.
LEMMA WalkPath ==
    ASSUME TreeInv, line = "eof", depth \in Nat, NEW turns
    PROVE  \E w : TablePath(turns, w) /\ Walk(turns) = w[depth]
<1> DEFINE step(n) == IF n \in turns THEN left[n] ELSE right[n]
           g == [n \in Nodes |-> step(n)]
           P(f) == f = [k \in 0..depth |->
                          IF k = 0 THEN 0 ELSE step(f[k - 1])]
           w == CHOOSE f : P(f)
<1>1. 0 \in Nodes /\ depth \in Nat /\ g \in [Nodes -> Nodes]
  <2>1. \A n \in Nodes : left[n] \in Nodes /\ right[n] \in Nodes
    BY DEF TreeInv, Rows
  <2> QED BY <2>1, WholeTree
<1>2. PICK f \in [0..depth -> Nodes] : f[0] = 0 /\ \A k \in 1..depth : f[k] = g[f[k - 1]]
  <2> HIDE DEF g
  <2>1. \E f : Numbers!Orbit(f, Nodes, g, 0, depth)
    BY <1>1, Numbers!Iterates
  <2> QED BY <2>1 DEF Numbers!Orbit
<1>3. \A k \in 1..depth : k - 1 \in 0..depth /\ k \in 0..depth /\ k # 0
  BY <1>1
<1>4. P(f)
  <2>1. ASSUME NEW k \in 1..depth PROVE f[k] = step(f[k - 1])
    <3>1. f[k - 1] \in Nodes
      BY <1>2, <1>3
    <3>2. f[k] = g[f[k - 1]]
      BY <1>2
    <3> QED BY <3>1, <3>2
  <2>2. \A k \in 0..depth : k = 0 \/ k \in 1..depth
    BY <1>1
  <2> DEFINE F == [k \in 0..depth |-> IF k = 0 THEN 0 ELSE step(f[k - 1])]
  <2>3. \A k \in 0..depth : f[k] = F[k]
    <3> HIDE DEF step
    <3> QED BY <1>2, <2>1, <2>2
  <2>4. f = F
    <3> HIDE DEF step
    <3> QED BY <1>2, <2>3
  <2> QED BY <2>4
<1>5. P(w)
  <2> HIDE DEF P
  <2> QED BY <1>4
<1>6. Walk(turns) = w[depth]
  BY DEF Walk
<1> HIDE DEF w
<1>7. w[0] = 0
  BY <1>1, <1>5
<1>8. \A k \in 1..depth : w[k] = step(w[k - 1])
  BY <1>1, <1>3, <1>5
<1>9. w = [k \in 0..depth |-> w[k]]
  BY <1>5
<1>10. \A k \in 0..depth : w[k] \in Nodes
  <2> DEFINE S == {k \in 0..depth : w[k] \in Nodes}
  <2>1. 0 \in S
    BY <1>1, <1>7
  <2>2. \A n \in 0..(depth - 1) : n \in S => n + 1 \in S
    <3> SUFFICES ASSUME NEW n \in 0..(depth - 1), w[n] \in Nodes PROVE n + 1 \in S
      OBVIOUS
    <3>1. n + 1 \in 1..depth /\ (n + 1) - 1 = n /\ n + 1 \in 0..depth
      BY <1>1
    <3>2. g[w[n]] \in Nodes /\ g[w[n]] = step(w[n])
      BY <1>1
    <3>3. w[n + 1] = step(w[n])
      <4> HIDE DEF step
      <4> QED BY <1>8, <3>1
    <3> QED BY <3>1, <3>2, <3>3
  <2> HIDE DEF S
  <2>3. \A n \in 0..depth : n \in S
    BY <1>1, <2>1, <2>2, Numbers!CountUpTo
  <2> QED BY <2>3 DEF S
<1>11. w \in [0..depth -> Nodes]
  BY <1>9, <1>10
<1>12. TablePath(turns, w)
  BY <1>7, <1>8, <1>11 DEF TablePath
<1> QED BY <1>6, <1>12

\* A leaf of the tree is reached after depth steps at the latest, and kept.
LEMMA PathToLeaf ==
    ASSUME TreeInv, line = "eof", NEW turns, NEW e, PlainPath(turns, e)
    PROVE  /\ depth \in Nat /\ depth <= MaxNodes
           /\ \A k \in 0..MaxNodes : ~leaf[e[k]] => level[e[k]] = k
           /\ leaf[e[depth]] /\ e[MaxNodes] = e[depth]
<1>1. MaxNodes \in Nat /\ 0 \in 0..MaxNodes
  BY MaxNodesAssumption
<1>2. /\ \A k \in 0..MaxNodes : e[k] \in Nodes /\ level[e[k]] \in Nat
      /\ e[0] = 0 /\ level[0] = 0
  BY WholeTree DEF PlainPath
<1>3. ASSUME NEW n \in 0..(MaxNodes - 1)
      PROVE  /\ n \in Nat /\ n \in 0..MaxNodes /\ n + 1 \in 0..MaxNodes
             /\ leaf[e[n]] => e[n + 1] = e[n]
             /\ ~leaf[e[n]] => level[e[n + 1]] = level[e[n]] + 1
  <2>1. n + 1 \in 1..MaxNodes /\ (n + 1) - 1 = n
    BY <1>1
  <2>2. e[n + 1] = IF leaf[e[n]] THEN e[n] ELSE Turn(turns, e[n])
    BY <2>1 DEF PlainPath
  <2>3. n \in Nat /\ n \in 0..MaxNodes /\ n + 1 \in 0..MaxNodes
    BY <1>1
  <2>4. ~leaf[e[n]] => level[Turn(turns, e[n])] = level[e[n]] + 1
    BY <1>2, <2>3, WholeTree DEF Turn
  <2> QED BY <2>2, <2>3, <2>4
\* A decision node is reached in as many steps as its level.
<1>4. \A k \in 0..MaxNodes : ~leaf[e[k]] => level[e[k]] = k
  <2> DEFINE S == {k \in 0..MaxNodes : ~leaf[e[k]] => level[e[k]] = k}
  <2>1. 0 \in S
    BY <1>1, <1>2
  <2>2. \A n \in 0..(MaxNodes - 1) : n \in S => n + 1 \in S
    BY <1>3
  <2> HIDE DEF S
  <2>3. \A n \in 0..MaxNodes : n \in S
    BY <1>1, <2>1, <2>2, Numbers!CountUpTo
  <2> QED BY <2>3 DEF S
\* The path stays at a leaf, and below a node that it has left.
<1>5. ASSUME NEW k \in 0..MaxNodes, leaf[e[k]] PROVE e[MaxNodes] = e[k]
  <2> DEFINE S == {n \in 0..MaxNodes : n >= k => e[n] = e[k]}
  <2>1. 0 \in S
    BY <1>1
  <2>2. ASSUME NEW n \in 0..(MaxNodes - 1), n \in S PROVE n + 1 \in S
    <3>1. CASE n + 1 = k
      BY <1>3, <3>1
    <3>2. CASE n + 1 # k
      <4>1. n + 1 >= k => n >= k
        BY <1>1, <3>2
      <4> QED BY <1>3, <1>5, <2>2, <4>1
    <3> QED BY <3>1, <3>2
  <2> HIDE DEF S
  <2>3. \A n \in 0..MaxNodes : n \in S
    BY <1>1, <2>1, <2>2, Numbers!CountUpTo
  <2>4. MaxNodes \in S /\ MaxNodes >= k
    BY <1>1, <2>3
  <2> QED BY <2>4 DEF S
<1>6. ASSUME NEW k \in 0..MaxNodes, ~leaf[e[k]], k < MaxNodes PROVE level[e[MaxNodes]] > k
  <2> DEFINE S == {n \in 0..MaxNodes : n > k => level[e[n]] > k}
  <2>1. 0 \in S
    BY <1>1
  <2>2. ASSUME NEW n \in 0..(MaxNodes - 1), n \in S PROVE n + 1 \in S
    <3>0. /\ n \in Nat /\ n \in 0..MaxNodes /\ n + 1 \in 0..MaxNodes
          /\ leaf[e[n]] => e[n + 1] = e[n]
          /\ ~leaf[e[n]] => level[e[n + 1]] = level[e[n]] + 1
          /\ level[e[n]] \in Nat
      BY <1>2, <1>3
    <3>1. CASE n = k
      BY <1>4, <1>6, <3>0, <3>1
    <3>2. CASE n # k
      <4>1. n + 1 > k => n > k
        BY <1>1, <3>2
      <4> QED BY <2>2, <3>0, <4>1
    <3> QED BY <3>1, <3>2
  <2> HIDE DEF S
  <2>3. \A n \in 0..MaxNodes : n \in S
    BY <1>1, <2>1, <2>2, Numbers!CountUpTo
  <2>4. MaxNodes \in S /\ MaxNodes > k
    BY <1>1, <1>6, <2>3
  <2> QED BY <2>4 DEF S
\* The depth is the greatest level of a leaf.
<1> DEFINE L == {level[n] : n \in {m \in Nodes : leaf[m]}}
<1>7. leaf[e[MaxNodes]]
  <2>1. MaxNodes \in 0..MaxNodes /\ e[MaxNodes] \in Nodes
    BY <1>1, <1>2
  <2>2. level[e[MaxNodes]] < MaxNodes
    BY <1>1, <2>1, WholeTree
  <2> QED BY <1>4, <2>1, <2>2
<1>8. level[e[MaxNodes]] \in L
  BY <1>1, <1>2, <1>7
<1>9. depth = Max(L)
  BY DEF TreeInv, Reading, DepthOfTree
<1>10. L \subseteq 0..MaxNodes
  <2>1. \A n \in Nodes : level[n] \in 0..MaxNodes
    <3> TAKE n \in Nodes
    <3>1. n \in Nat /\ n < MaxNodes /\ level[n] \in Nat /\ level[n] <= n
      BY WholeTree
    <3> QED BY <1>1, <3>1
  <2> QED BY <2>1
<1> HIDE DEF L
<1>11. Max(L) \in L /\ \A x \in L : x <= Max(L)
  BY <1>1, <1>8, <1>10, MaxOfNodes
<1>12. depth \in 0..MaxNodes /\ level[e[MaxNodes]] <= depth
  BY <1>8, <1>9, <1>10, <1>11
<1>13. leaf[e[depth]]
  <2> SUFFICES ASSUME ~leaf[e[depth]] PROVE FALSE
    OBVIOUS
  <2>1. depth < MaxNodes
    BY <1>1, <1>7, <1>12
  <2>2. level[e[MaxNodes]] > depth
    BY <1>6, <1>12, <2>1
  <2>3. level[e[MaxNodes]] \in Nat
    BY <1>1, <1>2
  <2> QED BY <1>1, <1>12, <2>2, <2>3
<1> QED BY <1>1, <1>4, <1>5, <1>12, <1>13

\* When the file is read, the walk of travelTree, which takes depth steps on
\* every branch, ends at the leaf where DecTree::evaluate stops, or at its
\* parent if the leaf is at an odd level of a tree of even depth.
THEOREM WalkFindsLeaf == Spec => []WalkEndsAtLeafOrParent
<1>1. TreeInv => WalkEndsAtLeafOrParent
  <2> SUFFICES ASSUME TreeInv, line = "eof", NEW turns \in Turns
               PROVE  LET l == evaluate(turns)
                      IN IF level[l] % 2 = 0 \/ depth % 2 = 1
                         THEN Walk(turns) = l
                         ELSE l \in {lptr[Walk(turns)], rptr[Walk(turns)]}
    BY DEF WalkEndsAtLeafOrParent
  <2>1. PICK e : PlainPath(turns, e) /\ evaluate(turns) = e[MaxNodes]
    BY EvaluatePath
  <2>2. /\ depth \in Nat /\ depth <= MaxNodes /\ leaf[e[depth]] /\ e[MaxNodes] = e[depth]
        /\ \A k \in 0..depth : ~leaf[e[k]] => level[e[k]] = k
    BY <2>1, PathToLeaf, MaxNodesAssumption
  <2>3. PICK w : TablePath(turns, w) /\ Walk(turns) = w[depth]
    BY <2>2, WalkPath
  <2>4. /\ MaxNodes \in Nat /\ depth \in 0..depth /\ e[0] = 0 /\ w[0] = 0 /\ level[0] = 0
        /\ \A k \in 0..depth : e[k] \in Nodes /\ w[k] \in Nodes /\ level[e[k]] \in Nat
    <3>1. \A k \in 0..depth : k \in 0..MaxNodes
      BY <2>2, MaxNodesAssumption
    <3>2. \A k \in 0..depth : e[k] \in Nodes /\ w[k] \in Nodes
      BY <2>1, <2>3, <3>1 DEF PlainPath, TablePath
    <3>3. \A n \in Nodes : level[n] \in Nat
      BY WholeTree
    <3>4. MaxNodes \in Nat /\ depth \in 0..depth /\ e[0] = 0 /\ w[0] = 0 /\ level[0] = 0
      BY <2>1, <2>2, <2>3, WholeTree, MaxNodesAssumption DEF PlainPath, TablePath
    <3> QED BY <3>2, <3>3, <3>4
  <2>5. ASSUME NEW n \in 0..(depth - 1)
        PROVE  /\ n \in 0..depth /\ n + 1 \in 0..depth
               /\ e[n + 1] = IF leaf[e[n]] THEN e[n] ELSE Turn(turns, e[n])
               /\ w[n + 1] = IF w[n] \in turns THEN left[w[n]] ELSE right[w[n]]
    <3>1. n + 1 \in 1..depth /\ n + 1 \in 1..MaxNodes /\ (n + 1) - 1 = n
      BY <2>2, <2>4
    <3> QED BY <2>1, <2>2, <2>3, <3>1 DEF PlainPath, TablePath
  <2>6. \A n \in Nodes : ~leaf[n] =>
            Turn(turns, n) = (IF n \in turns THEN left[n] ELSE right[n]) /\ Child(n, Turn(turns, n))
    BY WholeTree DEF Turn, Child
  <2>7. \A n \in turns : ~leaf[n]
    BY DEF Turns
\* The path comes to a leaf from the node that turns to it.
  <2> DEFINE From == {k \in 0..depth : e[k] = 0 \/ \E q \in Nodes : ~leaf[q] /\ e[k] = Turn(turns, q)}
  <2>8. \A k \in 0..depth : k \in From
    <3>1. 0 \in From
      BY <2>2, <2>4
    <3>2. \A n \in 0..(depth - 1) : n \in From => n + 1 \in From
      BY <2>4, <2>5
    <3> HIDE DEF From
    <3> QED BY <2>2, <3>1, <3>2, Numbers!CountUpTo
\* At an odd leaf, the walk is one row above the path after an even step.
  <2> DEFINE Behind(k) == leaf[e[k]] /\ level[e[k]] % 2 = 1 /\ k % 2 = 0
             Match == {k \in 0..depth :
                         IF Behind(k)
                         THEN ~leaf[w[k]] /\ e[k] = Turn(turns, w[k])
                         ELSE w[k] = e[k]}
  <2>9. 0 \in Match
    BY <2>2, <2>4
  <2>10. ASSUME NEW n \in 0..(depth - 1), n \in Match PROVE n + 1 \in Match
    <3>1. /\ n \in 0..depth /\ n + 1 \in 0..depth /\ n \in Nat
          /\ e[n] \in Nodes /\ w[n] \in Nodes /\ level[e[n]] \in Nat
          /\ IF Behind(n) THEN ~leaf[w[n]] /\ e[n] = Turn(turns, w[n]) ELSE w[n] = e[n]
      BY <2>4, <2>5, <2>10
    <3>2. CASE leaf[e[n]] /\ level[e[n]] % 2 = 0
      <4>1. e[n + 1] = e[n] /\ w[n] = e[n]
        BY <2>5, <3>1, <3>2
      <4>2. w[n + 1] = right[e[n]] /\ right[e[n]] = e[n]
        BY <2>5, <2>7, <3>1, <3>2, <4>1, WholeTree
      <4> QED BY <3>1, <3>2, <4>1, <4>2
    <3>3. CASE leaf[e[n]] /\ level[e[n]] % 2 = 1 /\ n % 2 = 1
      <4>1. e[n + 1] = e[n] /\ w[n] = e[n] /\ (n + 1) % 2 = 0
        BY <2>5, <3>1, <3>3
      <4>2. /\ w[n + 1] = right[e[n]] /\ right[e[n]] \in Nodes
            /\ ~leaf[right[e[n]]] /\ Child(right[e[n]], e[n])
        BY <2>5, <2>7, <3>1, <3>3, <4>1, WholeTree
      <4>3. PICK q \in Nodes : ~leaf[q] /\ e[n] = Turn(turns, q)
        <5>1. e[n] # 0
          BY <2>4, <3>3
        <5> QED BY <2>8, <3>1, <5>1
      <4>4. q = right[e[n]]
        <5>1. Child(q, e[n])
          BY <2>6, <4>3
        <5> QED BY <4>2, <5>1, WholeTree
      <4>5. ~leaf[w[n + 1]] /\ e[n + 1] = Turn(turns, w[n + 1])
        BY <4>1, <4>2, <4>3, <4>4
      <4> QED BY <3>1, <3>3, <4>1, <4>5
    <3>4. CASE leaf[e[n]] /\ level[e[n]] % 2 = 1 /\ n % 2 = 0
      <4>1. e[n + 1] = e[n] /\ ~leaf[w[n]] /\ e[n] = Turn(turns, w[n]) /\ (n + 1) % 2 = 1
        BY <2>5, <3>1, <3>4
      <4>2. w[n + 1] = Turn(turns, w[n])
        BY <2>5, <2>6, <3>1, <4>1
      <4> QED BY <3>1, <4>1, <4>2
    <3>5. CASE ~leaf[e[n]]
      <4>1. e[n + 1] = Turn(turns, e[n]) /\ w[n] = e[n] /\ level[e[n]] = n
        BY <2>2, <2>5, <3>1, <3>5
      <4>2. w[n + 1] = e[n + 1]
        BY <2>5, <2>6, <3>1, <3>5, <4>1
      <4>3. level[e[n + 1]] = n + 1
        BY <3>1, <3>5, <4>1, WholeTree DEF Turn
      <4>4. ~Behind(n + 1)
        BY <3>1, <4>3
      <4> QED BY <3>1, <4>2, <4>4
    <3>6. n % 2 \in {0, 1} /\ level[e[n]] % 2 \in {0, 1}
      BY <3>1
    <3> QED BY <3>2, <3>3, <3>4, <3>5, <3>6
  <2>11. depth \in Match
    <3> HIDE DEF Match
    <3> QED BY <2>2, <2>4, <2>9, <2>10, Numbers!CountUpTo
  <2>12. level[e[depth]] % 2 \in {0, 1} /\ depth % 2 \in {0, 1}
    BY <2>2, <2>4
  <2>13. CASE Behind(depth)
    <3>1. e[depth] \in {lptr[w[depth]], rptr[w[depth]]}
      BY <2>11, <2>13 DEF Turn
    <3> QED BY <2>1, <2>2, <2>3, <2>13, <3>1
  <2>14. CASE ~Behind(depth)
    <3>1. w[depth] = e[depth]
      BY <2>11, <2>14
    <3> QED BY <2>1, <2>2, <2>3, <2>12, <2>14, <3>1
  <2> QED BY <2>13, <2>14
<1> QED BY <1>1, TreeInvariance, PTL

-------------------------------------------------------------------------------
(* The labels. *)

\* The training data leaves samples of one class only in every leaf.
Pure == \A cs \in Samples : \E c : cs = {c}

\* A label for every node so far, in the order of the nodes.
Labels ==
    /\ label \in Seq(Nat) /\ Len(label) = size
    /\ class \in [Id -> SUBSET Nat]
    /\ \A n \in Nodes : IF leaf[n] THEN label[n + 1] \in class[n] ELSE label[n + 1] = 0

LEMMA OneLabel ==
    ASSUME NEW c, NEW order \in InOrder({c})
    PROVE  order = <<c>>
<1>1. Cardinality({c}) = 1
  BY FS_Singleton
<1>2. order \in [1..1 -> {c}]
  BY <1>1 DEF InOrder, SetToSeqs
<1> QED BY <1>2

\* A line for a node appends one label, and nothing else is said of the node.
LEMMA LabelsGrow ==
    ASSUME TreeInv, Labels, NodeLine, NEW c \in Nat, label' = label \o <<c>>,
           \/ UNCHANGED <<leaf, class>> /\ c = 0
           \/ /\ leaf' = [leaf EXCEPT ![size] = TRUE]
              /\ class' = [class EXCEPT ![size] = {c}]
    PROVE  Labels'
<1>1. /\ size \in Nat /\ size' = size + 1 /\ size \in Id
      /\ \A n : n \in Nodes' <=> n \in Nodes \/ n = size
      /\ \A n \in Nodes : n \in Id /\ n \in 0..(size - 1)
  <2>1. size \in Nat /\ size' = size + 1 /\ size < MaxNodes
    BY MaxNodesAssumption DEF TreeInv, Types, NodeLine
  <2> QED BY <2>1, MaxNodesAssumption DEF Nodes, Id
<1>2. leaf \in [Id -> BOOLEAN] /\ ~leaf[size]
  BY <1>1 DEF TreeInv, Types, Reading
<1>3. /\ label' \in Seq(Nat) /\ Len(label') = size'
      /\ label'[size + 1] = c
      /\ \A n \in 0..(size - 1) : label'[n + 1] = label[n + 1]
  BY <1>1 DEF Labels
<1>4. class' \in [Id -> SUBSET Nat]
  <2>1. class \in [Id -> SUBSET Nat]
    BY DEF Labels
  <2>2. class' = class \/ class' = [class EXCEPT ![size] = {c}]
    OBVIOUS
  <2> QED BY <2>1, <2>2
<1>5. ASSUME NEW n \in Nodes
      PROVE  IF leaf'[n] THEN label'[n + 1] \in class'[n] ELSE label'[n + 1] = 0
  <2>1. n \in 0..(size - 1) /\ n # size /\ n \in Id
    BY <1>1
  <2>2. leaf'[n] = leaf[n] /\ class'[n] = class[n] /\ label'[n + 1] = label[n + 1]
    BY <1>2, <1>3, <2>1 DEF Labels
  <2> QED BY <2>2 DEF Labels
<1>6. IF leaf'[size] THEN label'[size + 1] \in class'[size] ELSE label'[size + 1] = 0
  BY <1>1, <1>2, <1>3 DEF Labels
<1> QED BY <1>1, <1>3, <1>4, <1>5, <1>6 DEF Labels

\* The lines of the file for nodes and those for edges fill different parts of the
\* table; when all leaves are pure, every row ends up with the class of its node
\* (DecTree::read_from_file_pack).  MCDecisionTreeMixed shows that the hypothesis
\* is needed: a leaf with samples of two classes shifts the labels after it.
THEOREM RowsHaveTheirLabels ==
    ASSUME Pure
    PROVE  Spec => []LabelIsClassification
<1>1. Init => TreeInv /\ Labels
  <2> SUFFICES ASSUME Init PROVE Labels
    BY TreeInit
  <2>1. Nodes = {} /\ size = 0 /\ label = <<>>
    BY DEF Init, Nodes
  <2> QED BY <2>1 DEF Init, Labels
<1>2. ASSUME TreeInv, Labels, [Next]_vars PROVE Labels'
  <2>1. CASE DecisionLine
    <3>1. NodeLine /\ label' = label \o <<0>> /\ UNCHANGED <<leaf, class>>
      BY <2>1, AppendIsConcat DEF DecisionLine, Labels
    <3> QED BY <1>2, <3>1, LabelsGrow
  <2>2. ASSUME NEW classes \in Samples, LeafLine(classes) PROVE Labels'
    <3>1. PICK c : classes = {c}
      BY <1>2 DEF Pure
    <3>2. c \in Nat
      BY <3>1, SamplesAssumption
    <3>3. label' = label \o <<c>>
      BY <2>2, <3>1, OneLabel DEF LeafLine
    <3> QED BY <1>2, <2>2, <3>1, <3>2, <3>3, LabelsGrow DEF LeafLine
  <2>3. ASSUME UNCHANGED <<size, leaf, label, class>> PROVE Labels'
    BY <1>2, <2>3 DEF Labels, Nodes
  <2>4. CASE EdgeLine
    BY <2>3, <2>4 DEF EdgeLine
  <2>5. CASE EndOfFile
    BY <2>3, <2>5 DEF EndOfFile
  <2>6. CASE UNCHANGED vars
    BY <2>3, <2>6 DEF vars
  <2> QED BY <1>2, <2>1, <2>2, <2>4, <2>5, <2>6 DEF Next
<1>3. Labels => LabelIsClassification
  BY DEF Labels, LabelIsClassification
<1>4. Spec => []TreeInv
  BY TreeInvariance
<1> QED BY <1>1, <1>2, <1>3, <1>4, PTL DEF Spec
===============================================================================
