------------------------------ MODULE Comparison ------------------------------
(***************************************************************************)
(* The secure comparison of SS3Dtree: compare_threshold, compare_ss and    *)
(* compare_process, with the multiplication check of the malicious model   *)
(* (the semi-honest one makes the same calls without the checks).          *)
(*                                                                         *)
(* The parties run each AND in lockstep (see ShareProtocol), so a step is  *)
(* one and_ss followed by its check_and_ss.  The recursion of              *)
(* compare_process, a tail call, is a loop.  SecureWalk makes a comparison *)
(* in every layer of its walk.                                             *)
(***************************************************************************)
EXTENDS ReplicatedShares, FiniteSets

CONSTANTS Width,        \* MODEL_BITS, a power of two
          Layers,       \* the comparisons made, DTREE_DEPTH
          Stride,       \* triples set aside for each of them
          Triples       \* sharings <<a, b>> to check multiplications with

VARIABLES
    x, t,           \* feature and threshold, shared
    val,            \* the layer
    pc,             \* the next and_ss, or idle
    size, incr,     \* arguments of compare_process
    gt, eq,         \* its sharings gt and eq
    i,              \* its loop counter
    gt_temp3, eq_temp1, eq_temp2, gt_temp, eq_temp,
    ret,            \* the result of the comparison
    \* History.
    ands,           \* multiplications so far
    used,           \* indices of the triples taken for their checks
    passed          \* no check of an honest multiplication has failed

locals == <<gt_temp3, eq_temp1, eq_temp2, gt_temp, eq_temp>>
vars   == <<x, t, val, pc, size, incr, gt, eq, i, locals, ret, ands, used, passed>>

\* Slip: the shift is one short.
ShiftRightShort(w, n) == {b \in Bits : b + (IF n = 0 THEN 0 ELSE n - 1) \in w}

\* A word shifted to the right as a signed integer, and a pair of such words.
ShiftRight(w, n) ==
    {b \in Bits : b + n \in w \/ (b + n >= Width /\ Width - 1 \in w)}

ShiftOp(s, n) ==
    [p \in Party |-> MkPair(ShiftRight(s[p][0], n), ShiftRight(s[p][1], n))]

\* temp << n: the public word with the one bit n.
OneBit(n) == [p \in Party |-> PublicPair(p, {n})]

\* operator()(0) of sb64.
LowBit(s) == [p \in Party |-> MkPair(s[p][0] \cap {0}, s[p][1] \cap {0})]

NoShare == [p \in Party |-> MkPair(Zero, Zero)]

\* check_and_ss of z = a /\ b against a triple: the word that each party reveals
\* at the end.
CheckAnd(a, b, z, ta, tb, tc) ==
    LET e   == RevealOp(XorOp(a, ta))
        f   == RevealOp(XorOp(b, tb))
        rec == [p \in Party |->
                    XorPair(XorPair(PublicPair(p, e[p] \cap f[p]), ScalePair(f[p], ta[p])),
                            XorPair(XorPair(ScalePair(e[p], tb[p]), tc[p]), z[p]))]
    IN RevealOp(rec)

-------------------------------------------------------------------------------

Init == /\ pc = "idle"
        /\ x = NoShare /\ t = NoShare
        /\ val = 0
        /\ size = Width
        /\ incr = 0
        /\ gt = NoShare /\ eq = NoShare
        /\ i = 0
        /\ gt_temp3 = NoShare /\ eq_temp1 = NoShare /\ eq_temp2 = NoShare
        /\ gt_temp = NoShare /\ eq_temp = NoShare
        /\ ret = NoShare
        /\ ands = 0
        /\ used = {}
        /\ passed = TRUE

\* compare_threshold(x, t) is compare_ss(t, x).
Start(layer, feature, threshold) ==
    /\ pc = "idle" /\ pc' = "gt"
    /\ x' = feature
    /\ t' = threshold
    /\ val' = layer
    /\ incr' = 0
    /\ size' = Width
    /\ gt' = NoShare /\ eq' = NoShare
    /\ i' = 0
    /\ gt_temp3' = NoShare /\ eq_temp1' = NoShare /\ eq_temp2' = NoShare
    /\ gt_temp' = NoShare /\ eq_temp' = NoShare
    /\ ret' = NoShare
    /\ UNCHANGED <<ands, used, passed>>

\* One multiplication of a and b and its check with the triple at an index.
Multiply(a, b, index) ==
    /\ ands' = ands + 1
    /\ used' = used \cup {index}
    /\ \E triple \in Triples :
          passed' = (passed /\ \A p \in Party :
                        CheckAnd(a, b, AndOp(a, b), triple[1], triple[2],
                                 AndOp(triple[1], triple[2]))[p] = Zero)

Base == Stride * val

\* Slip: no room between the levels of the recursion.
SeOverlap == Base

Se == Base + incr

AndGt ==
    /\ pc = "gt" /\ pc' = "test"
    /\ Multiply(t, NegateOp(x), Base)
    /\ gt' = AndOp(t, NegateOp(x))
    /\ UNCHANGED <<x, t, val, size, incr, eq, i, locals, ret>>

\* compare_ss also multiplies a and b, for a result that it does not use.
AndTest ==
    /\ pc = "test" /\ pc' = "eq"
    /\ Multiply(t, x, Base + 1)
    /\ eq' = NegateOp(XorOp(t, x))
    /\ UNCHANGED <<x, t, val, size, incr, gt, i, locals, ret>>

\* compare_process up to its loop.
AndEq ==
    /\ pc = "eq" /\ pc' = "shift"
    /\ Multiply(eq, ShiftOp(eq, 1), Se + 2)
    /\ eq_temp1' = ShiftOp(eq, 1)
    /\ eq_temp2' = AndOp(eq, ShiftOp(eq, 1))
    /\ UNCHANGED <<x, t, val, size, incr, gt, eq, i, gt_temp3, gt_temp, eq_temp, ret>>

AndShift ==
    /\ pc = "shift" /\ pc' = "g"
    /\ Multiply(gt, eq_temp1, Se + 3)
    /\ gt_temp3' = XorOp(ShiftOp(gt, 1), AndOp(gt, eq_temp1))
    /\ gt_temp' = NoShare
    /\ eq_temp' = NoShare
    /\ i' = 0
    /\ UNCHANGED <<x, t, val, size, incr, gt, eq, eq_temp1, eq_temp2, ret>>

\* The loop moves bit 2i of both words to bit i.
AndG ==
    /\ pc = "g" /\ pc' = "e"
    /\ Multiply(OneBit(2*i), gt_temp3, Se + 4 + 2*i)
    /\ gt_temp' = XorOp(gt_temp, ShiftOp(AndOp(OneBit(2*i), gt_temp3), i))
    /\ UNCHANGED <<x, t, val, size, incr, gt, eq, i, gt_temp3, eq_temp1, eq_temp2, eq_temp, ret>>

\* The end of an iteration, of the loop, and of the recursion.
AndE ==
    /\ pc = "e"
    /\ Multiply(OneBit(2*i), eq_temp2, Se + 5 + 2*i)
    /\ eq_temp' = XorOp(eq_temp, ShiftOp(AndOp(OneBit(2*i), eq_temp2), i))
    /\ \/ /\ i + 1 < size \div 2
          /\ pc' = "g"
          /\ i' = i + 1
          /\ UNCHANGED <<size, incr, gt, eq, ret>>
       \/ /\ i + 1 = size \div 2
          /\ size > 2
          /\ pc' = "eq"
          /\ gt' = gt_temp
          /\ eq' = eq_temp'
          /\ size' = size \div 2
          /\ incr' = size + 2 + incr
          /\ UNCHANGED <<i, ret>>
       \/ /\ i + 1 = size \div 2
          /\ size = 2
          /\ pc' = "return"
          /\ ret' = LowBit(gt_temp)
          /\ UNCHANGED <<i, size, incr, gt, eq>>
    /\ UNCHANGED <<x, t, val, gt_temp3, eq_temp1, eq_temp2, gt_temp>>

AndStep == AndGt \/ AndTest \/ AndEq \/ AndShift \/ AndG \/ AndE

\* The caller has taken ret.
Finish ==
    /\ pc = "return" /\ pc' = "idle"
    /\ UNCHANGED <<x, t, val, size, incr, gt, eq, i, locals, ret, ands, used, passed>>

-------------------------------------------------------------------------------

\* a > b on the bits of S, as unsigned integers.
Above(a, b, S) ==
    \E k \in (a \ b) \cap S : \A m \in S : m > k => (m \in a <=> m \in b)

\* Bits n*w .. n*w + w - 1.
Block(n, w) == (n * w)..(n * w + w - 1)

\* At each level of the recursion bit j of gt tells whether block j of the
\* threshold is above block j of the feature, and bit j of eq whether they are
\* equal; there are size blocks, and nothing is left in the bits above them.
BlocksCompared ==
    pc = "eq" =>
        LET w  == Width \div size
            vt == ValueOf(t)
            vx == ValueOf(x)
        IN /\ Replicated(gt) /\ Replicated(eq)
           /\ ValueOf(gt) = {j \in 0..(size - 1) : Above(vt, vx, Block(j, w))}
           /\ ValueOf(eq) = {j \in 0..(size - 1) :
                                \A k \in Block(j, w) : k \in vt <=> k \in vx}

\* No triple checks two multiplications, in one layer or in two, so that the words
\* that a check opens are masked by a triple that nothing else is masked with; and
\* none is taken from beyond the arrays, which hold Stride for each layer.
TriplesUsedOnce == /\ Cardinality(used) = ands
                   /\ \A n \in used : n < Stride * Layers
===============================================================================
