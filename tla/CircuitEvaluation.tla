--------------------------- MODULE CircuitEvaluation ---------------------------
(***************************************************************************)
(* Sh3BinaryEvaluator: a circuit on binary shares, a task per level.  The  *)
(* products of a level are sent to the next party and those of the         *)
(* previous one received in the next task.  There are two send buffers,    *)
(* for even and odd levels, and all levels but the last send by a pointer  *)
(* to theirs.                                                              *)
(***************************************************************************)
EXTENDS ArithmeticCalls, BooleanCircuits

CONSTANT Circuits       \* by name

VARIABLES
    mMem,           \* mMem[p]: the pairs on the wires
    mSendBuffs,     \* mSendBuffs[p][0], for even levels, and [1]
    mRecvLocs,      \* mRecvLocs[p]: the wires whose second share is to come
    key,            \* key[p]: where p took the keys of its masks
    mShareIdx,      \* mShareIdx[p]: masks that p has used of them
    thrown          \* thrown[p]: a check of the evaluation threw

eval == <<mMem, mSendBuffs, mRecvLocs, key, mShareIdx, thrown>>

EvaluatorInit ==
    /\ mMem = [p \in Party |-> <<>>]
    /\ mSendBuffs = [p \in Party |-> [parity \in 0..1 |-> <<>>]]
    /\ mRecvLocs = [p \in Party |-> <<>>]
    /\ key = [p \in Party |-> 0]
    /\ mShareIdx = [p \in Party |-> 0]
    /\ thrown = [p \in Party |-> FALSE]

CircuitOf(p) == Circuits[Call(p).circuit]

\* mLevel of p: a call to the evaluator begins with lead tasks of its caller.
mLevel(p) == task[p] - Call(p).lead
Levels(p) == CircuitOf(p).levels

Evaluating(p) == InCall(p, "circuit") \/ InCall(p, "regions")

-------------------------------------------------------------------------------
\* setInput puts the bits of words on the input wires, and setCir takes the keys.
\* The contents of the other wires are left from before; here they are zero.
InputBits(circuit, words) ==
    LET places(w) == {b \in (DOMAIN circuit.inputs) \X (1 .. Width) :
                        b[2] \in DOMAIN circuit.inputs[b[1]] /\ circuit.inputs[b[1]][b[2]] = w}
        bit(b)    == Bit(words[b[1]], b[2] - 1)
    IN [w \in 0 .. circuit.wireCount - 1 |->
            IF places(w) = {} THEN 0 ELSE bit(CHOOSE b \in places(w) : TRUE)]

SetInput(p, pairs) ==
    LET bits(i) == InputBits(CircuitOf(p), [b \in DOMAIN pairs |-> pairs[b][i]])
    IN /\ mMem' = [mMem EXCEPT ![p] = [w \in DOMAIN bits(0) |-> MkPair(bits(0)[w], bits(1)[w])]]
       /\ key' = [key EXCEPT ![p] = drawn[p]]
       /\ mShareIdx' = [mShareIdx EXCEPT ![p] = 0]
       /\ Draw(p)
       /\ UNCHANGED <<mSendBuffs, mRecvLocs, thrown>>

\* asyncEvaluate with inputs, up to its first round.
BeginCircuit(p) ==
    /\ InTask(p, "circuit", 0)
    /\ SetInput(p, [t \in DOMAIN Call(p).ins |-> reg[p][Call(p).ins[t]]])
    /\ NextTask(p)
    /\ UNCHANGED <<net, reg, seed, otUses, kept>>

\* getShares: of the keys shared with the previous and the next party.
Mask(p, idx) == (Prf(seed, PrevOf(p), key[p], idx + 1) + Prf(seed, p, key[p], idx + 1)) % 2

\* Slip: every round but the first waits for products.
InboxEveryRound(p) == IF mLevel(p) > 0 THEN Previous ELSE Nobody

\* What the round before has to receive, and the wires with it.
Inbox(p) == IF mLevel(p) > 0 /\ mRecvLocs[p] # <<>> THEN Previous ELSE Nobody

\* Slip: the last of the products that were received is not put in place.
ReceivedWiresButLast(p) ==
    [w \in DOMAIN mMem[p] |->
        IF Inbox(p) = Previous /\ \E j \in DOMAIN mRecvLocs[p] : mRecvLocs[p][j] = w
                                    /\ j < Len(mRecvLocs[p])
        THEN LET j == CHOOSE j \in DOMAIN mRecvLocs[p] : mRecvLocs[p][j] = w
             IN MkPair(mMem[p][w][0], Head(FromPrev(p)).data[j])
        ELSE mMem[p][w]]

ReceivedWires(p) ==
    [w \in DOMAIN mMem[p] |->
        IF Inbox(p) = Previous /\ \E j \in DOMAIN mRecvLocs[p] : mRecvLocs[p][j] = w
        THEN LET j == CHOOSE j \in DOMAIN mRecvLocs[p] : mRecvLocs[p][j] = w
             IN MkPair(mMem[p][w][0], Head(FromPrev(p)).data[j])
        ELSE mMem[p][w]]

BufferName(parity) == IF parity = 0 THEN "even" ELSE "odd"

\* roundCallback on a level of the circuit.  A throw leaves the task, and the
\* party stops.
EvaluateRound(p) ==
    /\ Evaluating(p) /\ ~thrown[p]
    /\ mLevel(p) \in 0 .. Len(Levels(p)) - 1
    /\ Received(p, Inbox(p))
    /\ MayWrite(p, BufferName(mLevel(p) % 2))
    /\ \E round \in {EvalLevel(ReceivedWires(p), Levels(p)[mLevel(p) + 1], mShareIdx[p],
                                [idx \in Nat |-> Mask(p, idx)])} :
       LET parity  == mLevel(p) % 2
           isLast  == mLevel(p) = Len(Levels(p)) - 1
           message == IF isLast THEN Copied(round.bits)
                      ELSE Pointed(round.bits, BufferName(parity))
           sends   == round.bits # <<>> /\ ~round.thrown
       IN /\ Exchange(p, Inbox(p), <<>>, IF sends THEN <<message>> ELSE <<>>)
          /\ mMem' = [mMem EXCEPT ![p] = round.wires]
          /\ mSendBuffs' = [mSendBuffs EXCEPT ![p][parity] = IF isLast THEN <<>> ELSE round.bits]
          /\ mRecvLocs' = [mRecvLocs EXCEPT ![p] = round.locs]
          /\ mShareIdx' = [mShareIdx EXCEPT ![p] = round.products]
          /\ thrown' = [thrown EXCEPT ![p] = round.thrown]
    /\ NextTask(p)
    /\ UNCHANGED <<key, arith>>

\* Its last call only receives.
LastRound(p) ==
    /\ Evaluating(p) /\ ~thrown[p]
    /\ mLevel(p) = Len(Levels(p))
    /\ Received(p, Inbox(p))
    /\ Exchange(p, Inbox(p), <<>>, <<>>)
    /\ mMem' = [mMem EXCEPT ![p] = ReceivedWires(p)]
    /\ NextTask(p)
    /\ UNCHANGED <<mSendBuffs, mRecvLocs, key, mShareIdx, thrown, arith>>

OutputPair(p, wire) ==
    IF wire \in CircuitOf(p).inverted THEN Complement(mMem[p][wire]) ELSE mMem[p][wire]

\* getOutput, for outputs of one bit.
GetOutput(p) ==
    /\ Evaluating(p)
    /\ mLevel(p) = Len(Levels(p)) + 1
    /\ LET outs == Call(p).outs
       IN reg' = [reg EXCEPT ![p] = [n \in Registers |->
                    IF \E c \in DOMAIN outs : outs[c] = n
                    THEN OutputPair(p, CircuitOf(p).outputs[CHOOSE c \in DOMAIN outs : outs[c] = n])
                    ELSE @[n]]]
    /\ EndCall(p)
    /\ UNCHANGED <<net, seed, drawn, otUses, kept, eval>>

CircuitTask(p) == BeginCircuit(p) \/ EvaluateRound(p) \/ LastRound(p) \/ GetOutput(p)
===============================================================================
