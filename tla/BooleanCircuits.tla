---------------------------- MODULE BooleanCircuits ----------------------------
(***************************************************************************)
(* Boolean circuits (BetaCircuit of cryptoTools), and what a party makes   *)
(* of a gate on its replicated shares of the wires                         *)
(* (Sh3BinaryEvaluator::roundCallback, getShares).                         *)
(*                                                                         *)
(* Wires are numbers, a gate is a record.  A circuit has levels: the       *)
(* products of one level are sent together, and a gate that reads a        *)
(* product is on a later level.                                            *)
(***************************************************************************)
EXTENDS Parties, Integers, Sequences, SequencesExt

Gate(type, in0, in1, out) == [type |-> type, in0 |-> in0, in1 |-> in1, out |-> out]

Nonlinear == {"And", "na_And", "Nor", "Or"}

\* What a gate is named for.
PlainGate(type, a, b) ==
    CASE type = "Xor"    -> (a + b) % 2
      [] type = "Nxor"   -> (a + b + 1) % 2
      [] type = "And"    -> a * b
      [] type = "na_And" -> (1 - a) * b
      [] type = "Nor"    -> (1 - a) * (1 - b)
      [] type = "Or"     -> a + b - a * b
      [] type = "a"      -> a

-------------------------------------------------------------------------------
\* Gates on shares.  A wire whose second share is still to come holds the check
\* block there, in the place of bits.
CheckBlock == 2

Complement(x) == MkPair((x[0] + 1) % 2, (x[1] + 1) % 2)

Term(x, y) == (x[0] * y[0] + x[0] * y[1] + x[1] * y[0]) % 2

\* The party's share of a product, up to the mask.  Or reads the second share of
\* its second input as it is (lines 1099 and on), unlike Nor.
ProductShare(type, x, y) ==
    CASE type = "And"    -> Term(x, y)
      [] type = "na_And" -> Term(Complement(x), y)
      [] type = "Nor"    -> Term(Complement(x), Complement(y))
      [] type = "Or"     -> ((1 - x[0]) * (1 - y[0]) + (1 - x[0]) * y[1]
                             + (1 - x[1]) * (1 - y[0])) % 2

LinearPair(type, x, y) ==
    CASE type = "Xor"  -> MkPair((x[0] + y[0]) % 2, (x[1] + y[1]) % 2)
      [] type = "Nxor" -> Complement(MkPair((x[0] + y[0]) % 2, (x[1] + y[1]) % 2))
      [] type = "a"    -> x

\* One gate, in a round that has come to r: the wires, the wires whose second
\* share is to be received, the bits to be sent, the products so far in this
\* evaluation and whether ccCheck has thrown.  ccCheck looks at the first input
\* of a gate (twice), and linear gates other than a copy are not checked.
EvalGate(r, g, mask) ==
    LET x     == r.wires[g.in0]
        y     == r.wires[g.in1]
        share == (ProductShare(g.type, x, y) + mask[r.products]) % 2
        early == x[1] = CheckBlock
    IN IF g.type \in Nonlinear
       THEN [wires    |-> [r.wires EXCEPT ![g.out] = MkPair(share, CheckBlock)],
             locs     |-> Append(r.locs, g.out),
             bits     |-> Append(r.bits, share),
             products |-> r.products + 1,
             thrown   |-> r.thrown \/ early]
       ELSE [r EXCEPT !.wires[g.out] = LinearPair(g.type, x, y),
                      !.thrown = @ \/ (g.type = "a" /\ early)]

\* Op(v); TLC evaluates v once, however often Op uses it.
Once(Op(_), v) == CHOOSE result \in {Op(w) : w \in {v}} : TRUE

EvalLevel(wires, gates, products, mask) ==
    FoldLeft(LAMBDA r, g : Once(LAMBDA s : EvalGate(s, g, mask), r),
             [wires |-> wires, locs |-> <<>>, bits |-> <<>>,
              products |-> products, thrown |-> FALSE], gates)

\* The circuit on plain bits.
PlainEval(wires, levels) ==
    FoldLeft(LAMBDA w, g : Once(LAMBDA v : [v EXCEPT ![g.out] = PlainGate(g.type, v[g.in0], v[g.in1])], w),
             wires, FlattenSeq(levels))

-------------------------------------------------------------------------------
(***************************************************************************)
(* levelByAndDepth, of the library: a gate is on the level of the deepest  *)
(* of its inputs, and the output of a product is one level deeper.         *)
(***************************************************************************)
DepthAndLevels(wireCount, gates) ==
    FoldLeft(LAMBDA s, g :
                LET level == IF s.depth[g.in0] > s.depth[g.in1]
                             THEN s.depth[g.in0] ELSE s.depth[g.in1]
                IN [depth  |-> [s.depth EXCEPT ![g.out] =
                                    IF g.type \in Nonlinear THEN level + 1 ELSE level],
                    levels |-> [s.levels EXCEPT ![level] = Append(@, g)]],
             [depth  |-> [w \in 0 .. wireCount - 1 |-> 0],
              levels |-> [l \in 0 .. Len(gates) |-> <<>>]], gates)

levelByAndDepth(wireCount, gates) ==
    LET levels == DepthAndLevels(wireCount, gates).levels
        last   == CHOOSE l \in DOMAIN levels :
                    levels[l] # <<>> /\ \A k \in DOMAIN levels : k > l => levels[k] = <<>>
    IN [l \in 1 .. last + 1 |-> levels[l - 1]]

\* A circuit from its gates.  The bits of an inverted output are complemented by
\* whoever reads them.
Circuit(inputs, outputs, inverted, wireCount, gates) ==
    [inputs |-> inputs, outputs |-> outputs, inverted |-> inverted, wireCount |-> wireCount,
     levels |-> levelByAndDepth(wireCount, gates)]

-------------------------------------------------------------------------------
(***************************************************************************)
(* int_Sh3Piecewise_helper: the sign of a_t + b for every t < T, and from  *)
(* the signs the regions.  Inputs come first, then outputs, then           *)
(* temporaries.  The sign of the last sum is never given a wire when T > 1 *)
(* (the loop that does it stops short), so that it is on wire 0, an input. *)
(***************************************************************************)
InputWires(n, t)   == [i \in 1..n |-> t * n + i - 1]
OutputWire(n, T, c) == (T + 1) * n + c
TempWire(n, T, t, k) == (T + 1) * n + (T + 1) + t * 4 * n + k

ThresholdWire(n, T, t) ==
    IF t = 0 THEN OutputWire(n, T, 0)
    ELSE IF t < T - 1 THEN TempWire(n, T, T, t)
    ELSE 0

\* int_int_add_msb of the library, as a ripple of carries: the carry out of bit i
\* is ((a + c) * (b + c)) + c over GF(2), and the sign is a + b + c.
AddMsb(n, T, t) ==
    LET a(i)     == t * n + i
        b(i)     == T * n + i
        tmp(i,k) == TempWire(n, T, t, 4 * i + k)
        c(i)     == tmp(i - 1, 3)
        low      == << Gate("And", a(0), b(0), tmp(0, 3)) >>
        carry(i) == << Gate("Xor", a(i), c(i), tmp(i, 0)), Gate("Xor", b(i), c(i), tmp(i, 1)),
                       Gate("And", tmp(i, 0), tmp(i, 1), tmp(i, 2)),
                       Gate("Xor", tmp(i, 2), c(i), tmp(i, 3)) >>
        sign     == << Gate("Xor", a(n - 1), b(n - 1), tmp(n - 1, 0)),
                       Gate("Xor", tmp(n - 1, 0), c(n - 1), ThresholdWire(n, T, t)) >>
    IN low \o FlattenSeq([i \in 1 .. n - 2 |-> carry(i)]) \o sign

PiecewiseGates(n, T) ==
    FlattenSeq([t \in 1..T |-> AddMsb(n, T, t - 1)])
    \o [t \in 1 .. T - 1 |-> Gate("na_And", ThresholdWire(n, T, t - 1), ThresholdWire(n, T, t),
                                  OutputWire(n, T, t))]
    \o << Gate("a", ThresholdWire(n, T, T - 1), ThresholdWire(n, T, T - 1), OutputWire(n, T, T)) >>

PiecewiseCircuit(n, T) ==
    Circuit([t \in 1 .. T + 1 |-> InputWires(n, t - 1)],
            [c \in 1 .. T + 1 |-> OutputWire(n, T, c - 1)],
            {OutputWire(n, T, T)},
            TempWire(n, T, T, T), PiecewiseGates(n, T))
===============================================================================
