------------------------------ MODULE MCPiecewise ------------------------------
(* Words of five bits.  Three programs: a function of three regions (zero, a  *)
(* line, a constant); products of all kinds, with reveals; a circuit of five  *)
(* levels with every gate but Or, twice.                                      *)
EXTENDS PiecewiseCalls

X == <<"si64", 1>>
Y == <<"si64", 2>>
Z == <<"si64", 3>>
U == <<"sbMatrix", 1>>
R(k) == <<"revealed", k>>

MCRegisters ==
    {X, Y, Z, U, R(1), R(2), CircuitInput1, Outputs}
        \cup {CircuitInput0(t) : t \in 1..2}
        \cup {Region(c) : c \in 1..3} \cup {FunctionOutput(c) : c \in 1..3}

Mul(op, a, b, c) == [op |-> op, a |-> a, b |-> b, c |-> c]
Reveal(a, k) == [op |-> "reveal", a |-> a, c |-> R(k)]

Products ==
    << Mul("mul", X, Y, Z),
       Mul("mulShift", X, Y, Y) @@ [shift |-> 1],
       Reveal(Z, 1),
       Mul("mulShift", X, X, Z) @@ [shift |-> 1],
       Reveal(Y, 2) >>

BitProducts ==
    << [op |-> "localInt", val |-> [p \in Party |-> IF p = 0 THEN 7 ELSE 0], c |-> Z],
       Mul("mulBit", X, Region(1), X),
       [op |-> "mulPublic", v |-> 5, b |-> Region(1), c |-> Y],
       Mul("mulBit", Z, Region(1), Z),
       Reveal(Z, 1) >>

TestGates ==
    << Gate("And", 0, 1, 5), Gate("Nor", 1, 2, 6), Gate("Xor", 5, 6, 7),
       Gate("na_And", 7, 3, 8), Gate("Nxor", 8, 4, 9), Gate("And", 9, 7, 10),
       Gate("Nor", 10, 8, 11), Gate("a", 11, 11, 12) >>

PiecewiseHelper == PiecewiseCircuit(Width, 2)
TestCircuit     == Circuit(<< <<0, 1, 2, 3, 4>> >>, <<9, 12, 10>>, {10}, 13, TestGates)

MCCircuits == [Sh3Piecewise_helper |-> PiecewiseHelper, test |-> TestCircuit]

RunTest == [op |-> "circuit", lead |-> 1, circuit |-> "test", ins |-> <<U>>,
            outs |-> << Region(1), Region(2), Region(3) >>]

MCPrograms == << PiecewiseProgram(X, <<-3, 2>>, << <<>>, <<1, 2>>, <<3>> >>),
                 Products, BitProducts, <<RunTest, RunTest>> >>

MCPrf(s, p, k, i) == (s * 11 + p * 7 + k * 13 + i * 5 + s * p * 3 + k * i) % 32

\* Components of v, the first two given; bits are added up one by one.
Split(v, a, b) == [p \in Party |-> IF p = 0 THEN a ELSE IF p = 1 THEN b ELSE Wrap(v - a - b)]
Bits(a, b, c) == [p \in Party |-> IF p = 0 THEN a ELSE IF p = 1 THEN b ELSE c]

MCStarts ==
    {[program |-> 1, seed |-> 0, inputs |-> (X :> Split(v, 13, 22))] : v \in {28, 30, 2}}
    \cup {[program |-> 2, seed |-> s, inputs |-> (X :> Split(v, 9, 30)) @@ (Y :> Split(1, s, 21))] :
            s \in 0..1, v \in {1, 30, 31}}
    \cup {[program |-> 3, seed |-> 0, inputs |-> (X :> Split(3, 13, 4)) @@ (Region(1) :> b)] :
            b \in [Party -> 0..1]}
    \cup {[program |-> 4, seed |-> s, inputs |-> (U :> Bits(6, 21 - s, 9))] : s \in 0..1}

\* For the run without Prompt: the circuit.
CircuitStarts == {start \in MCStarts : start.program = 4 /\ start.seed = 0}

\* The circuit of regions is the function of regions, for all words.
ASSUME CircuitComputesRegions ==
    \A x01, x2 \in RingWord : \A c \in 1..3 :
        LET claim == RegionBits(<<-3, 2>>, c, Wrap(x01 + x2))
            words == <<Wrap(x01 + 3), Wrap(x01 - 2), x2>>
        IN claim # {} =>
            PlainBit(PiecewiseHelper, PiecewiseHelper.outputs[c], words) \in claim
===============================================================================
