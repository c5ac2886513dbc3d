----------------------------- MODULE ShareProtocol ----------------------------
(***************************************************************************)
(* The three parties running the same program of share operations: what    *)
(* SS3Dtree calls on Sh3Encryptor and Sh3Evaluator, one after the other,   *)
(* each with a get().                                                      *)
(*                                                                         *)
(* The parties share no clock.  The channels (one per ordered pair of      *)
(* parties) are reliable and FIFO, and a message carries nothing but its   *)
(* data: that a party receives the message of the operation that it is in, *)
(* that it draws the same mask position as the others, and that somebody   *)
(* can always go on are consequences of the order of the calls.            *)
(*                                                                         *)
(* An operation that communicates is two steps of a party: Start computes, *)
(* writes the part of the result that is known, and sends; Finish receives *)
(* and completes the result.  Operation k writes register k.  Programs are *)
(* not fixed: whichever party is first to reach the end of the program     *)
(* extends it with any operation, and the other two follow.                *)
(***************************************************************************)
EXTENDS ReplicatedShares, Sequences, FiniteSets

CONSTANTS MaxOps,       \* bound on the length of the programs
          Operands,     \* the registers that programs may name as operands
          Inputs,       \* what the parties may put in when they share a value
          Streams,      \* the words that the parties' seeds may expand to
          BuffSize      \* words in the mask buffer of Sh3ShareGen

ASSUME MaxOpsAssumption == MaxOps \in Nat
ASSUME OperandsAssumption == Operands \subseteq Nat \ {0}
ASSUME InputsAssumption == Inputs \subseteq [Party -> Word]
ASSUME StreamsAssumption == Streams \subseteq [Party -> Word]
ASSUME BuffSizeAssumption == BuffSize \in Nat \ {0}

VARIABLES
    program,        \* the operations chosen so far
    done,           \* done[p]: the operations that p has completed
    started,        \* started[p]: p has sent in the operation after them
    reg,            \* reg[p][k]: the pair that operation k gave to p
    fwd,            \* fwd[p]: messages from p on their way to the next party
    bwd,            \* bwd[p]: messages from p on their way to the previous one
    mShareGenIdx,   \* per party: end of the buffered part of the streams
    mShareIdx,      \* per party: the next position in the buffer
    streams,        \* streams[n][s]: word n that the seed of party s expands to
    \* History.  No action reads these, except to write them.
    expected,       \* the registers if all parties ran in lockstep
    plain           \* what a trusted party that runs the program computes: the
                    \* set of the value, empty for words that are no sharing

gen  == <<mShareGenIdx, mShareIdx, streams>>
ghost == <<expected, plain>>
vars == <<program, done, started, reg, fwd, bwd, gen, ghost>>

Ops == [op : {"share"}, val : Inputs]
       \cup [op : {"and", "xor"}, a : Operands, b : Operands]
       \cup [op : {"not", "p2n", "n2p", "reveal"}, a : Operands]

Forward  == {"share", "and", "p2n"}     \* send to the next, receive from the previous
Backward == {"n2p", "reveal"}           \* the other way round
Local    == {"xor", "not"}

-------------------------------------------------------------------------------
\* One operation at one party, given its registers and the mask it draws.

\* The result as far as the party knows it before it receives.
Half(p, op, r, mask) ==
    CASE op.op = "share" -> MkPair(Xor(mask, op.val[p]), Zero)
      [] op.op = "and"   -> MkPair(AndTerm(r[op.a], r[op.b]), Zero)
      [] op.op = "xor"   -> XorPair(r[op.a], r[op.b])
      [] op.op = "not"   -> NegatePair(p, r[op.a])
      [] OTHER           -> MkPair(Zero, Zero)

\* Slip: revealing forwards the copy instead of the own component.
PayloadCopy(op, r, half) ==
    IF op.op \in {"share", "and"} THEN half[0]
    ELSE IF op.op = "p2n" THEN r[op.a][0] ELSE r[op.a][1]

\* What it sends.
Payload(op, r, half) ==
    CASE op.op \in {"share", "and"}  -> half[0]
      [] op.op \in {"p2n", "reveal"} -> r[op.a][0]
      [] op.op = "n2p"               -> r[op.a][1]

\* The result once the message is there.  A revealed word is kept in [0].
Complete(op, r, half, word) ==
    CASE op.op \in Forward  -> [half EXCEPT ![1] = word]
      [] op.op = "n2p"      -> [half EXCEPT ![0] = word]
      [] op.op = "reveal"   -> [half EXCEPT ![0] = Xor3(word, r[op.a][0], r[op.a][1])]
      [] OTHER              -> half

\* Slip: the refilled buffer holds the old words.
PositionBeforeRefill(p) ==
    IF mShareIdx[p] + 1 > BuffSize THEN mShareGenIdx[p] - BuffSize
    ELSE mShareGenIdx[p] - BuffSize + mShareIdx[p]

\* The position in the streams of the next mask of p, refilling the buffer or
\* not, and the mask.
Position(p) == IF mShareIdx[p] + 1 > BuffSize THEN mShareGenIdx[p]
               ELSE mShareGenIdx[p] - BuffSize + mShareIdx[p]

getBinaryShare(p) == ZeroShare(p, streams[Position(p) + 1])

\* The result at all parties when they run the operation together.
InLockstep(op, stream) ==
    CASE op.op = "share"  -> ShareOp(op.val, stream)
      [] op.op = "and"    -> AndOp(expected[op.a], expected[op.b])
      [] op.op = "xor"    -> XorOp(expected[op.a], expected[op.b])
      [] op.op = "not"    -> NegateOp(expected[op.a])
      [] op.op = "p2n"    -> P2NOp(expected[op.a])
      [] op.op = "n2p"    -> N2POp(expected[op.a])
      [] op.op = "reveal" -> [p \in Party |-> MkPair(RevealOp(expected[op.a])[p], Zero)]

\* The value that the result stands for.
PlainOf(op) ==
    CASE op.op = "share" -> {Xor3(op.val[0], op.val[1], op.val[2])}
      [] op.op = "and"   -> {x \cap y : x \in plain[op.a], y \in plain[op.b]}
      [] op.op = "xor"   -> {Xor(x, y) : x \in plain[op.a], y \in plain[op.b]}
      [] op.op = "not"   -> {Not(x) : x \in plain[op.a]}
      [] OTHER           -> {}

Init == /\ program = <<>>
        /\ done = [p \in Party |-> 0]
        /\ started = [p \in Party |-> FALSE]
        /\ reg = [p \in Party |-> <<>>]
        /\ fwd = [p \in Party |-> <<>>]
        /\ bwd = [p \in Party |-> <<>>]
        /\ mShareGenIdx = [p \in Party |-> BuffSize]
        /\ mShareIdx = [p \in Party |-> 0]
        /\ streams = <<>>
        /\ expected = <<>>
        /\ plain = <<>>

\* The program goes on with op; a share also meets the next words of the
\* streams.  Operands are earlier registers.
Extend(op, stream) ==
    /\ Len(program) < MaxOps
    /\ \E p \in Party : done[p] = Len(program)
    /\ op.op \in {"and", "xor", "not", "p2n", "n2p", "reveal"} =>
            op.a <= Len(program) /\ program[op.a].op # "reveal"
    /\ op.op \in {"and", "xor"} => op.b <= Len(program) /\ program[op.b].op # "reveal"
    /\ program' = Append(program, op)
    /\ streams' = IF op.op = "share" THEN Append(streams, stream) ELSE streams
    /\ expected' = Append(expected, InLockstep(op, stream))
    /\ plain' = Append(plain, PlainOf(op))
    /\ UNCHANGED <<done, started, reg, fwd, bwd, mShareGenIdx, mShareIdx>>

Current(p) == program[done[p] + 1]

\* Slips: a party sends only after it has something to receive; a receive leaves
\* the message in the channel.
MayStartAfterReceive(p) ==
    /\ done[p] < Len(program) /\ ~started[p] /\ Current(p).op \notin Local
    /\ (IF Current(p).op \in Forward THEN fwd[PrevOf(p)] ELSE bwd[NextOf(p)]) # <<>>

FinishPeeking(p) ==
    /\ started[p]
    /\ LET op   == Current(p)
           k    == done[p] + 1
           chan == IF op.op \in Forward THEN fwd[PrevOf(p)] ELSE bwd[NextOf(p)]
       IN /\ chan # <<>>
          /\ reg' = [reg EXCEPT ![p][k] = Complete(op, reg[p], reg[p][k], Head(chan))]
    /\ started' = [started EXCEPT ![p] = FALSE]
    /\ done' = [done EXCEPT ![p] = @ + 1]
    /\ UNCHANGED <<program, fwd, bwd, gen, ghost>>

\* getBinaryShare refills the buffer when it is used up.
DrawMask(p) ==
    IF mShareIdx[p] + 1 > BuffSize
    THEN /\ mShareGenIdx' = [mShareGenIdx EXCEPT ![p] = @ + BuffSize]
         /\ mShareIdx' = [mShareIdx EXCEPT ![p] = 1]
    ELSE /\ mShareIdx' = [mShareIdx EXCEPT ![p] = @ + 1]
         /\ UNCHANGED mShareGenIdx

\* A task that sends waits for nobody.
MayStart(p) == done[p] < Len(program) /\ ~started[p] /\ Current(p).op \notin Local

\* The first task of an operation.
Start(p) ==
    /\ MayStart(p)
    /\ LET op      == Current(p)
           half    == Half(p, op, reg[p],
                           IF op.op = "share" THEN getBinaryShare(p) ELSE Zero)
           message == Payload(op, reg[p], half)
       IN /\ reg' = [reg EXCEPT ![p] = Append(@, half)]
          /\ IF op.op \in Forward
             THEN fwd' = [fwd EXCEPT ![p] = Append(@, message)] /\ UNCHANGED bwd
             ELSE bwd' = [bwd EXCEPT ![p] = Append(@, message)] /\ UNCHANGED fwd
          /\ IF op.op = "share" THEN DrawMask(p) ELSE UNCHANGED <<mShareGenIdx, mShareIdx>>
    /\ started' = [started EXCEPT ![p] = TRUE]
    /\ UNCHANGED <<program, done, streams, ghost>>

\* Its last task, which waits for the neighbour's message.
Finish(p) ==
    /\ started[p]
    /\ LET op   == Current(p)
           k    == done[p] + 1
           from == IF op.op \in Forward THEN PrevOf(p) ELSE NextOf(p)
           chan == IF op.op \in Forward THEN fwd[from] ELSE bwd[from]
       IN /\ chan # <<>>
          /\ reg' = [reg EXCEPT ![p][k] = Complete(op, reg[p], reg[p][k], Head(chan))]
          /\ IF op.op \in Forward
             THEN fwd' = [fwd EXCEPT ![from] = Tail(@)] /\ UNCHANGED bwd
             ELSE bwd' = [bwd EXCEPT ![from] = Tail(@)] /\ UNCHANGED fwd
    /\ started' = [started EXCEPT ![p] = FALSE]
    /\ done' = [done EXCEPT ![p] = @ + 1]
    /\ UNCHANGED <<program, gen, ghost>>

\* operator^ and negate_ss need no task.
Compute(p) ==
    /\ done[p] < Len(program)
    /\ Current(p).op \in Local
    /\ reg' = [reg EXCEPT ![p] = Append(@, Half(p, Current(p), reg[p], Zero))]
    /\ done' = [done EXCEPT ![p] = @ + 1]
    /\ UNCHANGED <<program, started, fwd, bwd, gen, ghost>>

Step(p) == Start(p) \/ Finish(p) \/ Compute(p)

Next == \/ \E op \in Ops, stream \in Streams : Extend(op, stream)
        \/ \E p \in Party : Step(p)

Spec == Init /\ [][Next]_vars

\* Each party's thread keeps running.
FairSpec == Spec /\ \A p \in Party : WF_vars(Step(p))

-------------------------------------------------------------------------------

\* Whatever the speeds of the parties, each computes what it would in a
\* lockstep run: no message and no mask is taken for another operation's.
MatchesLockstep ==
    \A p \in Party : \A k \in 1..done[p] : reg[p][k] = expected[k][p]

Completed(k) == \A p \in Party : k <= done[p]
Register(k)  == [p \in Party |-> reg[p][k]]

\* A register that stands for a value is a replicated sharing of what a trusted
\* party would have computed: the masks cancel, the two copies of a component
\* agree, and `and', `not' and `^' compute on shares what they are named for.
SharesHoldValue ==
    \A k \in 1..Len(program) : Completed(k) =>
        \A v \in plain[k] : Replicated(Register(k)) /\ ValueOf(Register(k)) = v

\* revealAll gives every party the value.
RevealsValue ==
    \A p \in Party : \A k \in 1..done[p] :
        program[k].op = "reveal" =>
            \A v \in plain[program[k].a] : reg[p][k][0] = v

\* No party gets more than two exchanges ahead of another, although sending never
\* blocks: every exchange also waits for one of the two neighbours.  A channel
\* then never holds more than three messages.
Exchanges(p) == Cardinality({k \in 1..done[p] : program[k].op \notin Local})

AtMostTwoAhead == \A p, q \in Party : Exchanges(p) <= Exchanges(q) + 2

\* The party that is furthest behind can go on: it waits for nobody.
Behind(p) == done[p] < Len(program) /\ \A q \in Party : done[p] <= done[q]

NobodyWaitsForever == \A p \in Party : Behind(p) ~> ~Behind(p)
===============================================================================
