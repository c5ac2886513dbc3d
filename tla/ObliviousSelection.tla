-------------------------- MODULE ObliviousSelection --------------------------
(***************************************************************************)
(* semi_ob_selection_y and semi_ob_selection_matrix of SS3Dtree: the row   *)
(* of a shared table at a shared index.                                    *)
(*                                                                         *)
(* For each party p there is a random row R(p), which nobody knows, and a  *)
(* pair of functional-secret-sharing keys, held by p and the party after   *)
(* it, which expand to two sets of rows that differ in R(p) only.  The     *)
(* parties learn Delta, the index moved by R, and each adds up the rows of *)
(* its own two components that its keys name, moved by Delta.  A row       *)
(* number is the set of its one bits, like any other word.                 *)
(***************************************************************************)
EXTENDS ReplicatedShares, FiniteSets

CONSTANTS IndexBits,    \* the bits of a row number
          FssR,         \* FssR[p]: the pair fssgen.r of party p
          FssK          \* FssK[p]: the rows that its keys k.mShares[0], [1] name

Row == SUBSET IndexBits

\* The secret position of the key pair that p shares with the next party.
R(p) == Xor(FssR[p][0], FssR[NextOf(p)][1])

ASSUME BitsAssumption == IsFiniteSet(IndexBits) /\ IndexBits \subseteq Bits
ASSUME FssAssumption == FssR \in Sharing /\ FssK \in [Party -> [0..1 -> SUBSET Row]]

\* What key generation promises: the keys of a pair differ at one row.
ASSUME OneHotAssumption ==
    \A p \in Party : Xor(FssK[p][0], FssK[NextOf(p)][1]) = {R(p)}

\* The sum of the words f[i] over the rows i in S.
XorRows(S, f) == {b \in Bits : Cardinality({i \in S : b \in f[i]}) % 2 = 1}

\* Slips: the own part is not added in; the index is short of a component.
DeltaForeign(idx) ==
    LET d == [p \in Party |-> MkPair(Xor3(idx[p][0], idx[p][1], FssR[p][0]),
                                     Xor(idx[p][0], FssR[p][1]))]
    IN XorOp(P2NOp(d), N2POp(d))

DeltaOneSided(idx) ==
    LET d == [p \in Party |-> MkPair(Xor(idx[p][0], FssR[p][0]), Xor(idx[p][0], FssR[p][1]))]
    IN XorOp(XorOp(P2NOp(d), N2POp(d)), d)

\* ssDelta, at each party.
Delta(idx) ==
    LET d == [p \in Party |-> MkPair(Xor3(idx[p][0], idx[p][1], FssR[p][0]),
                                     Xor(idx[p][0], FssR[p][1]))]
    IN XorOp(XorOp(P2NOp(d), N2POp(d)), d)

\* The rows that the loops over X read lie in the table.
InBounds(idx) == \A p \in Party, s \in 0..1 : Delta(idx)[p][s] \subseteq IndexBits

\* The components s of the rows of table X at party p, moved by delta.
Moved(X, p, s, delta) == [i \in Row |-> X[Xor(i, delta)][p][s]]

\* selectedY: y01 ^ y00.
SelectedY(X, idx) ==
    [p \in Party |->
        Xor(XorRows(FssK[p][0], Moved(X, p, 0, Delta(idx)[p][0])),
            XorRows(FssK[p][1], Moved(X, p, 1, Delta(idx)[p][1])))]

\* The result, shared again.
Select(X, idx, stream) == ShareOp(SelectedY(X, idx), stream)
===============================================================================
