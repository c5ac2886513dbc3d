--------------------------- MODULE ReplicatedShares ---------------------------
(***************************************************************************)
(* Replicated XOR shares among three parties (sb64 of aby3/sh3/Sh3Types.h) *)
(* and what a party computes on its own shares without a message.          *)
(*                                                                         *)
(* A word is the set of its one bits.                                      *)
(***************************************************************************)
EXTENDS Parties

CONSTANT Bits           \* the bit positions of a word

Word == SUBSET Bits
Zero == {}

Xor(a, b) == (a \ b) \cup (b \ a)
Xor3(a, b, c) == Xor(Xor(a, b), c)
Not(a)    == Bits \ a

Pair == [0..1 -> Word]

\* The pairs of the three parties for one value.
Sharing == [Party -> Pair]

ValueOf(x) == Xor3(x[0][0], x[1][0], x[2][0])

-------------------------------------------------------------------------------
\* operator^ of sb64.
XorPair(a, b) == MkPair(Xor(a[0], b[0]), Xor(a[1], b[1]))

\* Slips, for the runs that show that a property notices them: one of the cross
\* terms is forgotten; only one of its two holders adds a public word.
AndTermShort(a, b) == Xor(a[0] \cap b[0], a[0] \cap b[1])

PublicPairOneCopy(p, v) == MkPair(IF p = 0 THEN v ELSE Zero, Zero)

\* negate_ss: the two holders of component 0 complement it.
NegatePair(p, x) == IF p = 0 THEN MkPair(Not(x[0]), x[1])
                    ELSE IF p = 1 THEN MkPair(x[0], Not(x[1]))
                    ELSE x

\* asyncAnd: the part of a /\ b that a party can compute.  It adds a share that
\* Sh3ShareGen::getShare sets to 0.
AndTerm(a, b) == Xor3(a[0] \cap b[0], a[0] \cap b[1], a[1] \cap b[0])

\* A public word times a share, and a public word added to one, by the holders
\* of component 0 (check_and_ss).
ScalePair(v, x) == MkPair(v \cap x[0], v \cap x[1])
PublicPair(p, v) == MkPair(IF p = 0 THEN v ELSE Zero, IF p = 1 THEN v ELSE Zero)

\* Sh3ShareGen::getBinaryShare for party p at a position of the three seeds'
\* pseudo-random streams; a party knows the seeds of itself and its previous.
ZeroShare(p, stream) == Xor(stream[PrevOf(p)], stream[p])

-------------------------------------------------------------------------------
\* What an operation does when the three parties are in it together.

\* localBinary, localBinMatrix: every party puts in a word; the value is their
\* sum.  remoteZeroBinary puts in zero, remoteBinary a random word.
ShareOp(val, stream) ==
    SharingOf([p \in Party |-> Xor(ZeroShare(p, stream), val[p])])

AndOp(x, y) == SharingOf([p \in Party |-> AndTerm(x[p], y[p])])

XorOp(x, y) == [p \in Party |-> XorPair(x[p], y[p])]

NegateOp(x) == [p \in Party |-> NegatePair(p, x[p])]

\* CovertP2NBinary and CovertN2PBinary: what a party learns is no sharing.
P2NOp(x) == [p \in Party |-> MkPair(Zero, x[PrevOf(p)][0])]

N2POp(x) == [p \in Party |-> MkPair(x[NextOf(p)][1], Zero)]

\* revealAll: the word that each party gets.
RevealOp(x) == [p \in Party |-> Xor3(x[NextOf(p)][0], x[p][0], x[p][1])]
===============================================================================
