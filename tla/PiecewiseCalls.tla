---------------------------- MODULE PiecewiseCalls ----------------------------
(***************************************************************************)
(* Programs of arithmetic calls, circuits and piecewise linear functions   *)
(* at three parties, against what a trusted party computes.                *)
(*                                                                         *)
(* Sh3Piecewise::eval is a sequence of calls: getInputRegions, which sends *)
(* x0 + x1 around, subtracts the thresholds from it and gives the signs of *)
(* the sums with x2 to the circuit of regions; getFunctionValues, on the   *)
(* party's own shares; and for each region with coefficients the product   *)
(* of its bit with its value, private or public, added to the output.      *)
(***************************************************************************)
EXTENDS CircuitEvaluation, FiniteSets

CONSTANT Starts         \* a program, a seed, and the components of the inputs by name

ASSUME StartsAssumption == \A start \in Starts : Len(Programs[start.program]) \in Nat

VARIABLES
    plain           \* History.  plain[n]: what register n may stand for once the
                    \* calls are over that all parties have completed; no claim
                    \* if empty

vars == <<prog, position, net, arith, eval, plain>>

CircuitInput0(t)  == <<"circuitInput0", t>>
CircuitInput1     == <<"circuitInput1", 0>>
Region(c)         == <<"mInputRegions", c>>
FunctionOutput(c) == <<"functionOutputs", c>>
Outputs           == <<"outputs", 0>>

\* sbMatrix and not si64Matrix: components add up over GF(2).
Binary(n) == n[1] \in {"sbMatrix", "circuitInput0", "circuitInput1", "mInputRegions"}

-------------------------------------------------------------------------------
\* A function has thresholds t0 < t1 < ..., and for each region the coefficients
\* of 1 and x, none for the zero function.
PiecewiseProgram(x, thresholds, coefficients) ==
    LET T == Len(thresholds)
        product(c) ==
            LET into == FunctionOutput(c)
                add  == [op |-> "add", a |-> into, c |-> Outputs]
            IN CASE coefficients[c] = <<>> -> <<>>
                 [] Len(coefficients[c]) > 1 ->
                        << [op |-> "mulBit", a |-> into, b |-> Region(c), c |-> into], add >>
                 [] OTHER ->
                        << [op |-> "mulPublic", v |-> coefficients[c][1],
                            b |-> Region(c), c |-> into], add >>
    IN << [op |-> "regions", lead |-> 2, x |-> x, thresholds |-> thresholds,
           circuit |-> "Sh3Piecewise_helper", outs |-> [c \in 1 .. T + 1 |-> Region(c)]],
          [op |-> "values", x |-> x, coefficients |-> coefficients] >>
       \o FlattenSeq([c \in 1 .. T + 1 |-> product(c)])

Buffer0 == CircuitInput0(1)

\* getInputRegions up to the send, by a pointer to circuitInput0[0].mShares[0].
\* Party 0 has the components 0 and 2, parties 1 and 2 component 1.
SendRegionInput(p) ==
    /\ InTask(p, "regions", 0)
    /\ LET x    == reg[p][Call(p).x]
           own  == IF p = 0 THEN Wrap(x[0] + x[1]) ELSE 0
           rest == CASE p = 0 -> MkPair(0, 0)
                     [] p = 1 -> MkPair(x[0], 0)
                     [] p = 2 -> MkPair(0, x[1])
       IN /\ reg' = [reg EXCEPT ![p][Buffer0] = MkPair(own, 0),
                                ![p][CircuitInput1] = rest]
          /\ Send(p, <<>>, <<Pointed(own, "c0s0")>>)
    /\ NextTask(p)
    /\ UNCHANGED <<seed, drawn, otUses, kept, eval>>

\* The holders of component 0 of the sharing subtract the threshold.
LessThreshold(p, pair, t) ==
    CASE p = 0 -> MkPair(Wrap(pair[0] - t), pair[1])
      [] p = 1 -> MkPair(pair[0], Wrap(pair[1] - t))
      [] p = 2 -> pair

\* The rest: receive, subtract, set the inputs of the circuit.
SetThresholds(p) ==
    /\ InTask(p, "regions", 1)
    /\ Received(p, Previous)
    /\ p = 0 => MayWrite(p, "c0s0")
    /\ LET t     == Call(p).thresholds
           pair  == MkPair(reg[p][Buffer0][0], Head(FromPrev(p)).data)
           input == [k \in DOMAIN t |-> LessThreshold(p, pair, t[k])]
       IN /\ reg' = [reg EXCEPT ![p] = [n \in Registers |->
                        IF n[1] = "circuitInput0" /\ n[2] \in DOMAIN t THEN input[n[2]] ELSE @[n]]]
          /\ SetInput(p, Append(input, reg[p][CircuitInput1]))
    /\ Exchange(p, Previous, <<>>, <<>>)
    /\ NextTask(p)
    /\ UNCHANGED <<seed, otUses, kept>>

\* getFunctionValues, and outputs.setZero.
FunctionValues(p) ==
    /\ InTask(p, "values", 0)
    /\ LET x     == reg[p][Call(p).x]
           value(c) ==
               MkPair(Wrap((IF p = 0 THEN c[1] ELSE 0) + c[2] * x[0]),
                      Wrap((IF p = 1 THEN c[1] ELSE 0) + c[2] * x[1]))
           coefficients == Call(p).coefficients
       IN reg' = [reg EXCEPT ![p] = [n \in Registers |->
                    CASE n = Outputs -> MkPair(0, 0)
                      [] n[1] = "functionOutputs" /\ n[2] \in DOMAIN coefficients
                            /\ Len(coefficients[n[2]]) > 1 -> value(coefficients[n[2]])
                      [] OTHER -> @[n]]]
    /\ EndCall(p)
    /\ UNCHANGED <<net, seed, drawn, otUses, kept, eval>>

AddOutput(p) ==
    /\ InTask(p, "add", 0)
    /\ Write(p, Call(p).c, AddPair(reg[p][Call(p).c], reg[p][Call(p).a]))
    /\ EndCall(p)
    /\ UNCHANGED <<net, seed, drawn, otUses, kept, eval>>

-------------------------------------------------------------------------------
\* What a trusted party does for a call.  A product with a truncation is a little
\* short of the shifted product, if the masked product does not overflow.
Truncations(x, y, d) ==
    LET xy == Signed(x) * Signed(y)
    IN IF xy \in -(2^(Width - 3)) + 1 .. 2^(Width - 3) - 1
       THEN {Wrap((xy \div 2^d) - e) : e \in 0..3} ELSE {}

\* The bit of region c, if no difference overflows.
RegionBits(thresholds, c, x) ==
    LET below(t) == Signed(x) < thresholds[t]
    IN IF \E t \in DOMAIN thresholds :
            Signed(x) - thresholds[t] \notin -(2^(Width - 1)) .. 2^(Width - 1) - 1 THEN {}
       ELSE IF (c = 1 \/ ~below(c - 1)) /\ (c > Len(thresholds) \/ below(c)) THEN {1} ELSE {0}

\* The output on a wire of a circuit.
PlainBit(circuit, wire, words) ==
    LET bit == PlainEval(InputBits(circuit, words), circuit.levels)[wire]
    IN IF wire \in circuit.inverted THEN 1 - bit ELSE bit

\* The registers that a call writes, and what it then means.
Targets(call) ==
    CASE call.op \in {"regions", "circuit"} -> {call.outs[c] : c \in DOMAIN call.outs}
      [] call.op = "values" ->
            {Outputs} \cup {FunctionOutput(c) : c \in {d \in DOMAIN call.coefficients :
                                                        Len(call.coefficients[d]) > 1}}
      [] OTHER -> {call.c}

Meaning(call, n) ==
    CASE call.op = "localInt"  -> {Wrap(call.val[0] + call.val[1] + call.val[2])}
      [] call.op \in {"mul", "mulBit"} ->
            {Wrap(x * y) : x \in plain[call.a], y \in plain[call.b]}
      [] call.op = "mulPublic" -> {Wrap(call.v * b) : b \in plain[call.b]}
      [] call.op = "mulShift"  ->
            UNION {Truncations(x, y, call.shift) : x \in plain[call.a], y \in plain[call.b]}
      [] call.op = "reveal"    -> plain[call.a]
      [] call.op = "add"       -> {Wrap(x + y) : x \in plain[call.a], y \in plain[call.c]}
      [] call.op = "regions"   -> UNION {RegionBits(call.thresholds, n[2], x) : x \in plain[call.x]}
      [] call.op = "values"    ->
            IF n = Outputs THEN {0}
            ELSE {Wrap(call.coefficients[n[2]][1] + call.coefficients[n[2]][2] * Signed(x)) :
                    x \in plain[call.x]}
      [] call.op = "circuit"   ->
            LET c == CHOOSE c \in DOMAIN call.outs : call.outs[c] = n
            IN {PlainBit(Circuits[call.circuit], Circuits[call.circuit].outputs[c], <<v>>) :
                    v \in plain[call.ins[1]]}

\* The call that some party has still to complete.
First == CHOOSE k \in {at[p] : p \in Party} : \A p \in Party : k <= at[p]

Remember ==
    plain' = IF First' = First THEN plain
             ELSE [n \in Registers |-> IF n \in Targets(Program[First])
                                       THEN Meaning(Program[First], n) ELSE plain[n]]

-------------------------------------------------------------------------------

\* The value of input components, added up as the register says.
InputValue(n, c) ==
    IF Binary(n)
    THEN CHOOSE v \in RingWord : \A i \in 0 .. Width - 1 :
            Bit(v, i) = (Bit(c[0], i) + Bit(c[1], i) + Bit(c[2], i)) % 2
    ELSE Wrap(c[0] + c[1] + c[2])

Init == \E start \in Starts :
    /\ prog = start.program
    /\ CallsInit
    /\ ArithmeticInit(start.inputs, start.seed)
    /\ EvaluatorInit
    /\ plain = [n \in Registers |-> IF n \in DOMAIN start.inputs
                                    THEN {InputValue(n, start.inputs[n])} ELSE {}]

PiecewiseTask(p) == SendRegionInput(p) \/ SetThresholds(p) \/ FunctionValues(p) \/ AddOutput(p)

Step(p) == /\ ~Done(p)
           /\ \/ ArithmeticTask(p) /\ UNCHANGED eval
              \/ CircuitTask(p)
              \/ PiecewiseTask(p)
           /\ Remember

\* The buffers that messages point to.
Content(p) == [even |-> mSendBuffs[p][0], odd |-> mSendBuffs[p][1],
               c0s0 |-> reg[p][Buffer0][0]]

Transmit(link) == ReadBuffer(link, Content(link[1])) /\ UNCHANGED <<arith, eval, plain>>

Next == (\E link \in Links : Transmit(link)) \/ (\E p \in Party : Step(p))

Spec == Init /\ [][Next]_vars

\* Something goes on while a party or a channel can: no thread need be fair to
\* another, since each has its own.
FairSpec == Spec /\ WF_vars(Next)

-------------------------------------------------------------------------------
\* The three hold v in register n; after a reveal each of them knows it.
Holds(n, v) ==
    LET x == [p \in Party |-> reg[p][n]]
    IN IF n[1] = "revealed" THEN \A p \in Party : x[p][0] = v
       ELSE /\ Replicated(x)
            /\ IF Binary(n) THEN (x[0][0] + x[1][0] + x[2][0]) % 2 = v
                            ELSE RingValue(x) = v

\* Between calls every register stands for what a trusted party would have in it,
\* and both copies of each component agree: products by OT open the message that
\* the shared bit selects, a truncated product is at most 3 below the quotient,
\* circuits compute what their gates are named for, and eval adds up the
\* piecewise function.
RegistersHoldValue ==
    (\A p, q \in Party : at[p] = at[q] /\ task[p] = 0) =>
        \A n \in Registers : plain[n] # {} /\ n[1] # "sbMatrix" => \E v \in plain[n] : Holds(n, v)

\* The two generators with one key are in step: where one sends under a pad the
\* other helps with it, and no pad hides two messages.
PadsPair ==
    \A p \in Party :
        LET mine   == otUses[p].next
            theirs == otUses[PrevOf(p)].prev
        IN \A k \in (DOMAIN mine) \cap (DOMAIN theirs) : mine[k] # theirs[k]

\* No gate reads a wire whose second share is still on its way (ccCheck is
\* silent), whatever the neighbours' levels.
NoWireReadEarly == \A p \in Party : ~thrown[p]

\* What is put on the wire is what was computed at the send.
SentAsComputed ==
    \A link \in Links : \A k \in DOMAIN net[link] :
        net[link][k].buffer = OnWire => net[link][k].data = net[link][k].sent

\* Every party gets through its calls: a task waits only for messages that the
\* neighbours send without waiting for it.
EveryoneFinishes == <>(\A p \in Party : Done(p))
===============================================================================
