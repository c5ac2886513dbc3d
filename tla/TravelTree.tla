------------------------------ MODULE TravelTree ------------------------------
(***************************************************************************)
(* SS3Dtree::travelTree in the malicious model, with what main-dtree.cpp   *)
(* prepares for it: a walk of DTREE_DEPTH layers down a shared tree, in    *)
(* which no party learns which node it is at.  The semi-honest walk makes  *)
(* the same calls without the MACs and the triples.                        *)
(*                                                                         *)
(* The parties run each call in lockstep (see ShareProtocol), so a call is *)
(* one step here.  compare_threshold is known by its result: any sharing   *)
(* of the outcome (see SecureWalk, where the comparison is computed).      *)
(***************************************************************************)
EXTENDS ObliviousSelection

CONSTANTS Depth,        \* DTREE_DEPTH
          Starts,       \* a plain model table and feature vector, the MAC key, and
                        \* the masks that the tables and the features are shared with
          Masks,        \* what the seeds may expand to, for each row of a table
          Times(_, _)   \* the product of GF(2^MODEL_BITS)

ASSUME DepthAssumption == Depth \in Nat \ {0}

\* The columns of a node that travelTree reads.
Col == {"threshold", "left", "right", "vIdx", "label"}

ASSUME TablesAssumption ==
    /\ Masks \subseteq [Row -> [Party -> Word]]
    /\ Starts \subseteq [tree : [Row -> [Col -> Word]], features : [Row -> Word], key : Word,
                         treeMasks : Masks, featureMasks : Masks]
    /\ \A start \in Starts, n \in Row :
          \A c \in {"left", "right", "vIdx"} : start.tree[n][c] \in Row

ASSUME FieldAssumption ==
    /\ 0 \in Bits
    /\ \A a, b, c \in Word : /\ Times(a, b) \in Word
                             /\ Times({0}, a) = a
                             /\ Times(a, b) = Times(b, a)
                             /\ Times(a, Times(b, c)) = Times(Times(a, b), c)
                             /\ Times(a, Xor(b, c)) = Xor(Times(a, b), Times(a, c))

VARIABLES
    model, features,    \* the plain tree and features, which party 0 has
    ss_mac_key,         \* the shared MAC key
    ss_model, ss_mac_model, ssFeatureSchema,
    pc,                 \* the next call
    i,                  \* the layer
    cur_node,           \* the shared node, column by column
    ssY, ssb, ssNextNodeIdx,
    sum_model_data, sum_mac_model_data,
    rec,                \* what mac_check reveals
    at,                 \* history: the row at which a walk of `model' would be
    passed              \* history: no multiplication check has failed

shared == <<model, features, ss_mac_key, ss_model, ss_mac_model, ssFeatureSchema>>
sums   == <<sum_model_data, sum_mac_model_data>>
vars   == <<shared, pc, i, cur_node, ssY, ssb, ssNextNodeIdx, sums, rec, at, passed>>

Root == {}

\* poly_mul: asyncMul(sb64), and its value at all parties.
MulTerm(a, b) == Xor3(Times(a[0], b[0]), Times(a[0], b[1]), Times(a[1], b[0]))

MulOp(x, y) == SharingOf([p \in Party |-> MulTerm(x[p], y[p])])

\* Party 0 shares v.
Dealt(v, stream) == ShareOp([p \in Party |-> IF p = 0 THEN v ELSE Zero], stream)

SharedTable(table, masks) ==
    [n \in Row |-> [c \in Col |-> Dealt(table[n][c], masks[n])]]

\* Slip: the labels get no MAC.
MacTableButLabel(table, key) ==
    [n \in Row |-> [c \in Col |-> IF c = "label" THEN table[n][c] ELSE Times(key, table[n][c])]]

\* load_mac_model: every column of Col times the key.
MacTable(table, key) == [n \in Row |-> [c \in Col |-> Times(key, table[n][c])]]

NoShare == [p \in Party |-> MkPair(Zero, Zero)]

\* a > b as unsigned integers.
Above(a, b) == \E k \in a \ b : \A m \in Bits : m > k => (m \in a <=> m \in b)

PlainChild(tree, row, n) ==
    IF Above(tree[n]["threshold"], row[tree[n]["vIdx"]]) THEN tree[n]["left"] ELSE tree[n]["right"]

-------------------------------------------------------------------------------

Init == /\ \E start \in Starts :
              /\ model = start.tree
              /\ features = start.features
              /\ ss_mac_key = Dealt(start.key, start.featureMasks[Root])
              /\ ss_model = SharedTable(model, start.treeMasks)
              /\ ss_mac_model = SharedTable(MacTable(model, start.key), start.treeMasks)
              /\ ssFeatureSchema = [n \in Row |-> Dealt(features[n], start.featureMasks[n])]
        /\ pc = "feature"
        /\ i = 0
        /\ cur_node = ss_model[Root]
        /\ ssY = NoShare /\ ssb = NoShare /\ ssNextNodeIdx = NoShare
        /\ sum_model_data = NoShare /\ sum_mac_model_data = NoShare
        /\ rec = [p \in Party |-> Zero]
        /\ at = Root
        /\ passed = TRUE

SelectFeature ==
    /\ pc = "feature" /\ pc' = "compare"
    /\ \E mask \in Masks : ssY' = Select(ssFeatureSchema, cur_node["vIdx"], mask[Root])
    /\ UNCHANGED <<shared, i, cur_node, ssb, ssNextNodeIdx, sums, rec, at, passed>>

Compare ==
    /\ pc = "compare" /\ pc' = "child"
    /\ \E c \in [Party -> SUBSET {0}] :
        /\ ssb' = SharingOf(c)
        /\ ValueOf(ssb') = IF Above(ValueOf(cur_node["threshold"]), ValueOf(ssY)) THEN {0} ELSE {}
    /\ UNCHANGED <<shared, i, cur_node, ssY, ssNextNodeIdx, sums, rec, at, passed>>

\* The check of a product z = x * y against the triple a, b, c = a * b: what is
\* revealed at the end.
CheckMul(x, y, z, a, b) ==
    LET e    == RevealOp(XorOp(x, a))
        f    == RevealOp(XorOp(y, b))
        c    == MulOp(a, b)
        Scale(v, s) == MkPair(Times(v, s[0]), Times(v, s[1]))
    IN RevealOp([p \in Party |->
            XorPair(XorPair(PublicPair(p, Times(f[p], e[p])), Scale(f[p], a[p])),
                    XorPair(XorPair(Scale(e[p], b[p]), c[p]), z[p]))])

\* Slip: the product is added to the left child.
ChildFromLeft(b, left, right) == XorOp(left, MulOp(b, XorOp(left, right)))

\* r xor b * (l xor r).
Child(b, left, right) == XorOp(right, MulOp(b, XorOp(left, right)))

getChildNodeIndex ==
    /\ pc = "child" /\ pc' = "node"
    /\ ssNextNodeIdx' = Child(ssb, cur_node["left"], cur_node["right"])
    /\ \E ma, mb \in Masks :
        LET rl  == XorOp(cur_node["left"], cur_node["right"])
            a   == ShareOp(ma[Root], mb[Root])
            b   == ShareOp(mb[Root], ma[Root])
        IN passed' = (passed /\ \A p \in Party : CheckMul(ssb, rl, MulOp(ssb, rl), a, b)[p] = Zero)
    /\ at' = PlainChild(model, features, at)
    /\ UNCHANGED <<shared, i, cur_node, ssY, ssb, sums, rec>>

SumOf(node) == XorOp(XorOp(XorOp(node["threshold"], node["left"]),
                           XorOp(node["right"], node["vIdx"])), node["label"])

Weighted(rho, node) == MulOp(rho, SumOf(node))

NextCall == IF i + 1 < Depth THEN "feature" ELSE "check"

\* The two selections of a layer and what is saved for the MAC check.  Both
\* nodes are also revealed, into matrices that nothing reads.
SelectNode ==
    /\ pc = "node"
    /\ \E mask, mr \in Masks :
        LET next(table) ==
                [c \in Col |-> Select([n \in Row |-> table[n][c]], ssNextNodeIdx, mask[Root])]
            rho == ShareOp(mr[Root], mr[{}])
        IN /\ cur_node' = next(ss_model)
           /\ sum_model_data' = XorOp(sum_model_data, Weighted(rho, next(ss_model)))
           /\ sum_mac_model_data' = XorOp(sum_mac_model_data, Weighted(rho, next(ss_mac_model)))
    /\ i' = i + 1
    /\ pc' = NextCall
    /\ UNCHANGED <<shared, ssY, ssb, ssNextNodeIdx, rec, at, passed>>

\* mac_check.  travelTree returns the label of cur_node whatever it reveals.
MacCheck ==
    /\ pc = "check" /\ pc' = "return"
    /\ \E mg \in Masks :
        LET gamma == ShareOp(mg[Root], mg[Root])
            x     == XorOp(sum_model_data, gamma)
            y     == XorOp(MulOp(ss_mac_key, gamma), sum_mac_model_data)
        IN rec' = RevealOp(XorOp(MulOp(x, ss_mac_key), y))
    /\ UNCHANGED <<shared, i, cur_node, ssY, ssb, ssNextNodeIdx, sums, at, passed>>

Next == SelectFeature \/ Compare \/ getChildNodeIndex \/ SelectNode \/ MacCheck

Spec == Init /\ [][Next]_vars
-------------------------------------------------------------------------------

Holds(x, v) == Replicated(x) /\ ValueOf(x) = v

\* Layer after layer the shared node is the one that a plain walk comes to, in
\* every column: the compared feature is the one that the node names, the
\* comparison goes the right way, and the moved rows bring the keys' secret
\* position back to the child's number at all three parties.
WalksPlainTree ==
    /\ pc \in {"feature", "check", "return"} =>
          \A c \in Col : Holds(cur_node[c], model[at][c])
    /\ pc = "compare" => Holds(ssY, features[model[at]["vIdx"]])
    /\ pc = "node" => Holds(ssNextNodeIdx, at)

\* Neither selection reads beyond its table, although the words that are added
\* up to the row number, the components of a share, are of full length.
SelectsInBounds ==
    /\ pc = "feature" => InBounds(cur_node["vIdx"])
    /\ pc = "node" => InBounds(ssNextNodeIdx)
===============================================================================
