----------------------------- MODULE SharesProofs -----------------------------
(***************************************************************************)
(* Proofs about ShareProtocol for words of any length, any program and any *)
(* size of the mask buffer: what the operations compute on shares, and     *)
(* that three parties that share no clock compute what they would in       *)
(* lockstep.                                                               *)
(***************************************************************************)
EXTENDS ShareProtocol, CommonLemmas, FiniteSetTheorems, TLAPS

-------------------------------------------------------------------------------
(* Positions in the program. *)

\* How many of the first k positions are in S.
Count(S, k) == Cardinality(S \cap 1..k)

LEMMA CountStep ==
    ASSUME NEW S, NEW k \in Nat
    PROVE  /\ Count(S, 0) = 0
           /\ Count(S, k) \in Nat /\ IsFiniteSet(S \cap 1..k)
           /\ Count(S, k + 1) = IF k + 1 \in S THEN Count(S, k) + 1 ELSE Count(S, k)
<1>1. S \cap 1..0 = {}
  OBVIOUS
<1>2. Count(S, 0) = 0
  BY <1>1, FS_EmptySet DEF Count
<1>3. IsFiniteSet(S \cap 1..k)
  <2>1. IsFiniteSet(1..k)
    BY FS_Interval
  <2>2. S \cap 1..k \in SUBSET (1..k)
    OBVIOUS
  <2> QED BY <2>1, <2>2, FS_Subset
<1>4. Count(S, k) \in Nat
  BY <1>3, FS_CardinalityType DEF Count
<1>5. ASSUME k + 1 \in S PROVE Count(S, k + 1) = Count(S, k) + 1
  <2>1. S \cap 1..(k + 1) = (S \cap 1..k) \cup {k + 1} /\ k + 1 \notin S \cap 1..k
    BY <1>5
  <2>2. Cardinality((S \cap 1..k) \cup {k + 1}) = Cardinality(S \cap 1..k) + 1
    BY <1>3, <2>1, FS_AddElement
  <2> QED BY <1>5, <2>1, <2>2 DEF Count
<1>6. ASSUME k + 1 \notin S PROVE Count(S, k + 1) = Count(S, k)
  <2>1. S \cap 1..(k + 1) = S \cap 1..k
    BY <1>6
  <2> QED BY <1>6, <2>1 DEF Count
<1> QED BY <1>2, <1>3, <1>4, <1>5, <1>6

LEMMA CountGrows ==
    ASSUME NEW S, NEW k \in Nat, NEW n \in Nat, k <= n
    PROVE  /\ Count(S, k) \in Nat /\ Count(S, n) \in Nat /\ Count(S, k) <= Count(S, n)
           /\ k \in S \ {0} => Count(S, k) >= 1
<1>1. S \cap 1..k \in SUBSET (S \cap 1..n)
  OBVIOUS
<1>2. Count(S, k) \in Nat /\ Count(S, n) \in Nat /\ IsFiniteSet(S \cap 1..n)
  BY CountStep
<1>3. Count(S, k) <= Count(S, n)
  BY <1>1, <1>2, FS_Subset DEF Count
<1>4. ASSUME k \in S \ {0} PROVE Count(S, k) >= 1
  <2>1. PICK m \in Nat : m + 1 = k
    <3>1. k - 1 \in Nat /\ (k - 1) + 1 = k
      BY <1>4
    <3> QED BY <3>1
  <2>2. m + 1 \in S
    BY <1>4, <2>1
  <2>3. Count(S, m) \in Nat /\ Count(S, m + 1) = Count(S, m) + 1
    BY <2>2, CountStep
  <2>4. Count(S, k) = Count(S, m) + 1
    BY <2>1, <2>3
  <2> QED BY <2>3, <2>4
<1> QED BY <1>2, <1>3, <1>4

\* f lists the positions of S by ascending order.
Increasing(f) == \A i, j \in DOMAIN f : i < j => f[i] < f[j]
Listing(f, S) == f \in Seq(Nat) /\ Increasing(f) /\ Range(f) = S

LEMMA ListingAppend ==
    ASSUME NEW f, NEW S, Listing(f, S), NEW n \in Nat, \A s \in S : s < n
    PROVE  Listing(Append(f, n), S \cup {n})
<1>1. f \in Seq(Nat) /\ Increasing(f) /\ Range(f) = S
  BY DEF Listing
<1>2. /\ DOMAIN Append(f, n) = 1..(Len(f) + 1) /\ DOMAIN f = 1..Len(f) /\ Len(f) \in Nat
      /\ \A k \in 1..Len(f) : Append(f, n)[k] = f[k]
      /\ Append(f, n)[Len(f) + 1] = n
  BY <1>1
<1>3. Append(f, n) \in Seq(Nat) /\ Range(Append(f, n)) = S \cup {n}
  <2>1. Append(f, n) \in Seq(Nat)
    BY <1>1
  <2>2. Range(Append(f, n)) = Range(f) \cup {n}
    BY <1>2 DEF Range
  <2> QED BY <1>1, <2>1, <2>2
<1>4. \A k \in 1..Len(f) : f[k] < n
  BY <1>1, <1>2 DEF Range
<1>5. Increasing(Append(f, n))
  BY <1>1, <1>2, <1>4 DEF Increasing
<1> QED BY <1>3, <1>5 DEF Listing

LEMMA ListingTail ==
    ASSUME NEW f, NEW S, Listing(f, S), f # <<>>
    PROVE  /\ Head(f) \in S /\ \A s \in S : Head(f) <= s
           /\ Listing(Tail(f), S \ {Head(f)})
<1>1. f \in Seq(Nat) /\ Increasing(f) /\ Range(f) = S
  BY DEF Listing
<1>2. /\ Len(f) \in Nat \ {0} /\ DOMAIN f = 1..Len(f)
      /\ DOMAIN Tail(f) = 1..(Len(f) - 1)
      /\ \A k \in 1..(Len(f) - 1) : Tail(f)[k] = f[k + 1]
      /\ Head(f) = f[1]
      /\ \A k \in 1..Len(f) : f[k] \in Nat
  BY <1>1, EmptySeq, HeadTailProperties
<1>3. IsInjective(f)
  <2> SUFFICES ASSUME NEW i \in 1..Len(f), NEW j \in 1..Len(f), f[i] = f[j], i # j PROVE FALSE
    BY <1>2 DEF IsInjective
  <2>1. i < j \/ j < i
    BY <1>2
  <2> QED BY <1>1, <1>2, <2>1 DEF Increasing
<1>4. Head(f) \in S /\ Tail(f) \in Seq(Nat) /\ Range(Tail(f)) = S \ {Head(f)}
  <2>1. Head(f) \in S /\ Tail(f) \in Seq(Nat)
    BY <1>1, <1>2, HeadTailProperties DEF Range
  <2>2. Range(Tail(f)) \subseteq Range(f) \ {Head(f)}
    BY <1>2, <1>3 DEF IsInjective, Range
  <2>3. ASSUME NEW x \in Range(f), x # Head(f) PROVE x \in Range(Tail(f))
    <3>1. PICK k \in 1..Len(f) : f[k] = x
      BY <1>2 DEF Range
    <3>2. k - 1 \in 1..(Len(f) - 1) /\ Tail(f)[k - 1] = x
      BY <1>2, <2>3, <3>1
    <3> QED BY <1>2, <3>2 DEF Range
  <2> QED BY <1>1, <2>1, <2>2, <2>3
<1>5. ASSUME NEW s \in S PROVE Head(f) <= s
  <2>1. PICK k \in 1..Len(f) : f[k] = s
    BY <1>1, <1>2 DEF Range
  <2>2. k = 1 \/ f[1] < f[k]
    BY <1>1, <1>2 DEF Increasing
  <2> QED BY <1>2, <2>1, <2>2
<1>6. Increasing(Tail(f))
  <2> SUFFICES ASSUME NEW i \in 1..(Len(f) - 1), NEW j \in 1..(Len(f) - 1), i < j
               PROVE  Tail(f)[i] < Tail(f)[j]
    BY <1>2 DEF Increasing
  <2>1. i + 1 \in 1..Len(f) /\ j + 1 \in 1..Len(f) /\ i + 1 < j + 1
    BY <1>2
  <2> QED BY <1>1, <1>2, <2>1 DEF Increasing
<1> QED BY <1>4, <1>5, <1>6 DEF Listing

-------------------------------------------------------------------------------
(* The program, and what it computes when the parties run it in lockstep. *)

Shares == {k \in 1..Len(program) : program[k].op = "share"}

\* Operands are earlier operations; the n-th share meets word n of the streams.
Programs ==
    /\ program \in Seq(Ops)
    /\ streams \in Seq([Party -> Word])
    /\ expected \in Seq(Sharing) /\ Len(expected) = Len(program)
    /\ plain \in Seq(SUBSET Word) /\ Len(plain) = Len(program)
    /\ Len(streams) = Count(Shares, Len(program))
    /\ \A k \in 1..Len(program) :
          /\ program[k].op # "share" => program[k].a \in 1..(k - 1)
          /\ program[k].op \in {"and", "xor"} => program[k].b \in 1..(k - 1)
          /\ expected[k] = InLockstep(program[k], streams[Count(Shares, k)])

\* What is computed in lockstep is what a trusted party computes.
Values ==
    \A k \in 1..Len(program) : \A v \in plain[k] :
        Replicated(expected[k]) /\ ValueOf(expected[k]) = v

LEMMA OpShape ==
    ASSUME NEW op \in Ops
    PROVE  /\ op.op \in {"share", "and", "xor", "not", "p2n", "n2p", "reveal"}
           /\ op.op = "share" => op.val \in [Party -> Word]
           /\ op.op # "share" => op.a \in Nat \ {0}
           /\ op.op \in {"and", "xor"} => op.b \in Nat \ {0}
<1>1. CASE op \in [op : {"share"}, val : Inputs]
  BY <1>1, InputsAssumption
<1>2. CASE op \in [op : {"and", "xor"}, a : Operands, b : Operands]
  BY <1>2, OperandsAssumption
<1>3. CASE op \in [op : {"not", "p2n", "n2p", "reveal"}, a : Operands]
  BY <1>3, OperandsAssumption
<1> QED BY <1>1, <1>2, <1>3 DEF Ops

\* One operation preserves the relation between shares and values.
LEMMA LockstepValue ==
    ASSUME Programs, Values, NEW op \in Ops, NEW stream \in [Party -> Word],
           op.op # "share" => op.a \in 1..Len(program),
           op.op \in {"and", "xor"} => op.b \in 1..Len(program)
    PROVE  /\ InLockstep(op, stream) \in Sharing
           /\ PlainOf(op) \in SUBSET Word
           /\ \A v \in PlainOf(op) : Replicated(InLockstep(op, stream))
                                     /\ ValueOf(InLockstep(op, stream)) = v
<1>1. \A k \in 1..Len(program) : /\ expected[k] \in Sharing /\ plain[k] \in SUBSET Word
                                 /\ \A v \in plain[k] : Replicated(expected[k])
                                                        /\ ValueOf(expected[k]) = v
  <2>1. ASSUME NEW k \in 1..Len(program)
        PROVE  expected[k] \in Sharing /\ plain[k] \in SUBSET Word
    BY DEF Programs
  <2> QED BY <2>1 DEF Values
<1>2. CASE op.op = "share"
  <2>1. InLockstep(op, stream) = ShareOp(op.val, stream)
        /\ PlainOf(op) = {Xor3(op.val[0], op.val[1], op.val[2])}
    BY <1>2 DEF InLockstep, PlainOf
  <2>2. op.val \in [Party -> Word]
    BY <1>2, OpShape
  <2>3. Xor3(op.val[0], op.val[1], op.val[2]) \in Word
    <3>1. op.val[0] \in Word /\ op.val[1] \in Word /\ op.val[2] \in Word
      BY <2>2, Ring
    <3> QED BY <3>1, WordOps DEF Xor3
  <2> QED BY <2>1, <2>2, <2>3, ShareValue
<1>3. CASE op.op = "and"
  <2>1. InLockstep(op, stream) = AndOp(expected[op.a], expected[op.b])
        /\ PlainOf(op) = {x \cap y : x \in plain[op.a], y \in plain[op.b]}
    BY <1>3 DEF InLockstep, PlainOf
  <2>2. /\ expected[op.a] \in Sharing /\ expected[op.b] \in Sharing
        /\ plain[op.a] \in SUBSET Word /\ plain[op.b] \in SUBSET Word
    BY <1>1, <1>3
  <2>3. ASSUME NEW v \in PlainOf(op)
        PROVE  v \in Word /\ Replicated(InLockstep(op, stream)) /\ ValueOf(InLockstep(op, stream)) = v
    <3>1. PICK x \in plain[op.a], y \in plain[op.b] : v = x \cap y
      BY <2>1, <2>3
    <3>2. Replicated(expected[op.a]) /\ ValueOf(expected[op.a]) = x
      BY <1>1, <1>3
    <3>3. Replicated(expected[op.b]) /\ ValueOf(expected[op.b]) = y
      BY <1>1, <1>3
    <3>4. v \in Word
      BY <2>2, <3>1, WordOps
    <3> QED BY <2>1, <2>2, <3>1, <3>2, <3>3, <3>4, AndValue
  <2> QED BY <2>1, <2>2, <2>3, AndValue
<1>4. CASE op.op = "xor"
  <2>1. InLockstep(op, stream) = XorOp(expected[op.a], expected[op.b])
        /\ PlainOf(op) = {Xor(x, y) : x \in plain[op.a], y \in plain[op.b]}
    BY <1>4 DEF InLockstep, PlainOf
  <2>2. /\ expected[op.a] \in Sharing /\ expected[op.b] \in Sharing
        /\ plain[op.a] \in SUBSET Word /\ plain[op.b] \in SUBSET Word
    BY <1>1, <1>4
  <2>3. ASSUME NEW v \in PlainOf(op)
        PROVE  v \in Word /\ Replicated(InLockstep(op, stream)) /\ ValueOf(InLockstep(op, stream)) = v
    <3>1. PICK x \in plain[op.a], y \in plain[op.b] : v = Xor(x, y)
      BY <2>1, <2>3
    <3>2. Replicated(expected[op.a]) /\ ValueOf(expected[op.a]) = x
      BY <1>1, <1>4
    <3>3. Replicated(expected[op.b]) /\ ValueOf(expected[op.b]) = y
      BY <1>1, <1>4
    <3>4. v \in Word
      BY <2>2, <3>1, WordOps
    <3> QED BY <2>1, <2>2, <3>1, <3>2, <3>3, <3>4, XorValue
  <2> QED BY <2>1, <2>2, <2>3, XorValue
<1>5. CASE op.op = "not"
  <2>1. InLockstep(op, stream) = NegateOp(expected[op.a])
        /\ PlainOf(op) = {Not(x) : x \in plain[op.a]}
    BY <1>5 DEF InLockstep, PlainOf
  <2>2. expected[op.a] \in Sharing /\ plain[op.a] \in SUBSET Word
    BY <1>1, <1>5
  <2>3. ASSUME NEW v \in PlainOf(op)
        PROVE  v \in Word /\ Replicated(InLockstep(op, stream)) /\ ValueOf(InLockstep(op, stream)) = v
    <3>1. PICK x \in plain[op.a] : v = Not(x)
      BY <2>1, <2>3
    <3>2. Replicated(expected[op.a]) /\ ValueOf(expected[op.a]) = x
      BY <1>1, <1>5
    <3>3. v \in Word
      BY <2>2, <3>1, WordOps
    <3> QED BY <2>1, <2>2, <3>1, <3>2, <3>3, NegateValue
  <2> QED BY <2>1, <2>2, <2>3, NegateValue
<1>6. CASE op.op \in {"p2n", "n2p", "reveal"}
  <2>1. PlainOf(op) = {}
    BY <1>6 DEF PlainOf
  <2>2. expected[op.a] \in Sharing
    BY <1>1, <1>6
  <2>3. InLockstep(op, stream) \in Sharing
    BY <1>6, <2>2, HandedOn DEF InLockstep
  <2> QED BY <2>1, <2>3
<1> QED BY <1>2, <1>3, <1>4, <1>5, <1>6, OpShape

\* What does not change about the first k operations when the program goes on.
LEMMA ExtendKeeps ==
    ASSUME Programs, NEW op \in Ops, NEW stream \in Streams, Extend(op, stream)
    PROVE  /\ Len(program') = Len(program) + 1 /\ Len(program) \in Nat
           /\ program' \in Seq(Ops) /\ program'[Len(program) + 1] = op
           /\ \A k \in 1..Len(program) : /\ program'[k] = program[k] /\ expected'[k] = expected[k]
                                         /\ plain'[k] = plain[k]
           /\ \A k \in 0..Len(program) : Count(Shares', k) = Count(Shares, k)
           /\ \A k \in 1..Len(program) : InLockstep(program[k], streams[Count(Shares, k)])'
                                             = InLockstep(program[k], streams[Count(Shares, k)])
<1>1. /\ program' = Append(program, op) /\ program \in Seq(Ops)
      /\ expected' = Append(expected, InLockstep(op, stream)) /\ expected \in Seq(Sharing)
      /\ plain' = Append(plain, PlainOf(op)) /\ plain \in Seq(SUBSET Word)
      /\ Len(expected) = Len(program) /\ Len(plain) = Len(program)
  BY DEF Extend, Programs
<1>2. /\ Len(program') = Len(program) + 1 /\ Len(program) \in Nat
      /\ program' \in Seq(Ops) /\ program'[Len(program) + 1] = op
      /\ \A k \in 1..Len(program) : program'[k] = program[k]
  BY <1>1
<1>3. \A k \in 1..Len(program) : expected'[k] = expected[k]
  BY <1>1
<1>4. \A k \in 1..Len(program) : plain'[k] = plain[k]
  BY <1>1
<1>5. ASSUME NEW k \in 0..Len(program) PROVE Count(Shares', k) = Count(Shares, k)
  <2>1. Shares' \cap 1..k = Shares \cap 1..k
    BY <1>2 DEF Shares
  <2> QED BY <2>1 DEF Count
<1>6. ASSUME NEW k \in 1..Len(program)
      PROVE  InLockstep(program[k], streams[Count(Shares, k)])'
                 = InLockstep(program[k], streams[Count(Shares, k)])
  <2>0. program'[k] = program[k] /\ program[k] \in Ops
    BY <1>1, <1>2
  <2>1. CASE program[k].op = "share"
    <3>1. streams'[Count(Shares', k)] = streams[Count(Shares, k)]
      <4>1. Count(Shares', k) = Count(Shares, k)
        BY <1>5
      <4>2. Count(Shares, k) \in 1..Len(streams)
        <5>1. k \in Shares \ {0} /\ k \in Nat /\ Len(program) \in Nat /\ k <= Len(program)
          BY <1>2, <2>1 DEF Shares
        <5>2. /\ Count(Shares, k) \in Nat /\ Count(Shares, k) >= 1
              /\ Count(Shares, Len(program)) \in Nat
              /\ Count(Shares, k) <= Count(Shares, Len(program))
          BY <5>1, CountGrows
        <5> QED BY <5>2 DEF Programs
      <4>3. streams \in Seq([Party -> Word])
            /\ (streams' = streams \/ streams' = Append(streams, stream))
        BY DEF Programs, Extend
      <4>4. streams'[Count(Shares, k)] = streams[Count(Shares, k)]
        BY <4>2, <4>3
      <4> QED BY <4>1, <4>4
    <3> QED BY <2>0, <2>1, <3>1 DEF InLockstep
  <2>2. CASE program[k].op # "share"
    <3>1. /\ program[k].a \in 1..Len(program) /\ expected'[program[k].a] = expected[program[k].a]
          /\ program[k].op \in {"and", "xor"} =>
                /\ program[k].b \in 1..Len(program)
                /\ expected'[program[k].b] = expected[program[k].b]
      BY <1>2, <1>3, <2>2 DEF Programs
    <3>2. program[k].op \in {"and", "xor", "not", "p2n", "n2p", "reveal"}
      BY <2>0, <2>2, OpShape
    <3> QED BY <2>0, <2>2, <3>1, <3>2 DEF InLockstep
  <2> QED BY <2>1, <2>2
<1> QED BY <1>2, <1>3, <1>4, <1>5, <1>6

LEMMA ExtendPrograms ==
    ASSUME Programs, Values, NEW op \in Ops, NEW stream \in Streams, Extend(op, stream)
    PROVE  Programs' /\ Values'
<1> DEFINE n == Len(program)
<1>0. stream \in [Party -> Word]
  BY StreamsAssumption
<1>1. /\ program' = Append(program, op)
      /\ streams' = IF op.op = "share" THEN Append(streams, stream) ELSE streams
      /\ expected' = Append(expected, InLockstep(op, stream))
      /\ plain' = Append(plain, PlainOf(op))
      /\ op.op # "share" => op.a \in 1..n
      /\ op.op \in {"and", "xor"} => op.b \in 1..n
  <2>1. /\ op.op \in {"and", "xor", "not", "p2n", "n2p", "reveal"} => op.a <= n
        /\ op.op \in {"and", "xor"} => op.b <= n
    BY DEF Extend
  <2>2. /\ op.op # "share" => op.a \in Nat \ {0}
        /\ op.op \in {"and", "xor"} => op.b \in Nat \ {0}
    BY OpShape
  <2>3. n \in Nat /\ op.op \in {"share", "and", "xor", "not", "p2n", "n2p", "reveal"}
    BY OpShape DEF Programs
  <2>4. op.op # "share" => op.a \in 1..n
    BY <2>1, <2>2, <2>3
  <2>5. op.op \in {"and", "xor"} => op.b \in 1..n
    BY <2>1, <2>2, <2>3
  <2> QED BY <2>4, <2>5 DEF Extend
<1>2. /\ InLockstep(op, stream) \in Sharing
      /\ PlainOf(op) \in SUBSET Word
      /\ \A v \in PlainOf(op) : Replicated(InLockstep(op, stream))
                                /\ ValueOf(InLockstep(op, stream)) = v
  BY <1>0, <1>1, LockstepValue
<1>3. /\ Len(program') = n + 1 /\ n \in Nat
      /\ program' \in Seq(Ops) /\ program'[n + 1] = op
      /\ \A k \in 1..n : /\ program'[k] = program[k] /\ expected'[k] = expected[k]
                          /\ plain'[k] = plain[k]
      /\ \A k \in 0..n : Count(Shares', k) = Count(Shares, k)
      /\ \A k \in 1..n : InLockstep(program[k], streams[Count(Shares, k)])'
                              = InLockstep(program[k], streams[Count(Shares, k)])
  BY ExtendKeeps
<1>4. /\ expected \in Seq(Sharing) /\ Len(expected) = n /\ plain \in Seq(SUBSET Word)
      /\ Len(plain) = n /\ streams \in Seq([Party -> Word]) /\ Len(streams) = Count(Shares, n)
  BY DEF Programs
<1>5. /\ expected' \in Seq(Sharing) /\ Len(expected') = n + 1 /\ expected'[n + 1] = InLockstep(op, stream)
      /\ plain' \in Seq(SUBSET Word) /\ Len(plain') = n + 1 /\ plain'[n + 1] = PlainOf(op)
  BY <1>1, <1>2, <1>4
<1>6. streams' \in Seq([Party -> Word])
  BY <1>0, <1>1, <1>4
<1>7. n + 1 \in Shares' <=> op.op = "share"
  BY <1>3 DEF Shares
<1>8. Count(Shares', n) = Count(Shares, n) /\ Count(Shares, n) \in Nat
      /\ Count(Shares', n + 1) = IF n + 1 \in Shares' THEN Count(Shares', n) + 1 ELSE Count(Shares', n)
  <2>1. n \in 0..n
    BY <1>3
  <2>2. \A S : /\ Count(S, n) \in Nat
               /\ Count(S, n + 1) = IF n + 1 \in S THEN Count(S, n) + 1 ELSE Count(S, n)
    BY <1>3, CountStep
  <2> QED BY <1>3, <2>1, <2>2
<1>9. Len(streams') = Count(Shares', n + 1)
  BY <1>0, <1>1, <1>4, <1>7, <1>8
<1>10. ASSUME NEW k \in 1..(n + 1)
       PROVE  /\ program'[k].op # "share" => program'[k].a \in 1..(k - 1)
              /\ program'[k].op \in {"and", "xor"} => program'[k].b \in 1..(k - 1)
              /\ expected'[k] = InLockstep(program[k], streams[Count(Shares, k)])'
  <2>1. CASE k \in 1..n
    BY <1>3, <2>1 DEF Programs
  <2>2. CASE k = n + 1
    <3>1. k - 1 = n /\ program'[k] = op
      BY <1>3, <2>2
    <3>2. InLockstep(program[k], streams[Count(Shares, k)])' = InLockstep(op, stream)
      <4>1. CASE op.op = "share"
        <5>1. streams'[Count(Shares', k)] = stream
          BY <1>0, <1>1, <1>4, <1>7, <1>8, <2>2, <4>1
        <5> QED BY <3>1, <4>1, <5>1 DEF InLockstep
      <4>2. CASE op.op # "share"
        <5>1. /\ expected'[op.a] = expected[op.a]
              /\ op.op \in {"and", "xor"} => expected'[op.b] = expected[op.b]
          BY <1>1, <1>3, <4>2
        <5>2. op.op \in {"and", "xor", "not", "p2n", "n2p", "reveal"}
          BY <4>2, OpShape
        <5> QED BY <3>1, <4>2, <5>1, <5>2 DEF InLockstep
      <4> QED BY <4>1, <4>2
    <3> QED BY <1>1, <1>5, <2>2, <3>1, <3>2
  <2> QED BY <1>3, <2>1, <2>2
<1>11. Programs'
  BY <1>3, <1>5, <1>6, <1>9, <1>10 DEF Programs
<1>12. Values'
  <2> SUFFICES ASSUME NEW k \in 1..(n + 1), NEW v \in plain'[k]
               PROVE  Replicated(expected'[k]) /\ ValueOf(expected'[k]) = v
    BY <1>3 DEF Values
  <2>1. CASE k \in 1..n
    BY <1>3, <2>1 DEF Values
  <2>2. CASE k = n + 1
    BY <1>2, <1>5, <2>2
  <2> QED BY <1>3, <2>1, <2>2
<1> QED BY <1>11, <1>12


-------------------------------------------------------------------------------
(* One operation at one party. *)

\* What p sends in operation k, and what it knows of the result before it receives.
Message(p, k) ==
    CASE program[k].op \in {"share", "and"}  -> expected[k][p][0]
      [] program[k].op \in {"p2n", "reveal"} -> expected[program[k].a][p][0]
      [] program[k].op = "n2p"               -> expected[program[k].a][p][1]

HalfOf(p, k) ==
    MkPair(IF program[k].op \in {"share", "and"} THEN expected[k][p][0] ELSE Zero, Zero)

LEMMA PairEdits ==
    ASSUME NEW a, NEW b, NEW w
    PROVE  /\ [MkPair(a, b) EXCEPT ![1] = w] = MkPair(a, w)
           /\ [MkPair(a, b) EXCEPT ![0] = w] = MkPair(w, b)
           /\ MkPair(a, b)[0] = a
<1>1. 0..1 = {0, 1}
  OBVIOUS
<1>2. MkPair(a, b) = [i \in {0, 1} |-> IF i = 0 THEN a ELSE b]
  BY <1>1 DEF MkPair
<1>3. MkPair(a, w) = [i \in {0, 1} |-> IF i = 0 THEN a ELSE w]
  BY <1>1 DEF MkPair
<1>4. MkPair(w, b) = [i \in {0, 1} |-> IF i = 0 THEN w ELSE b]
  BY <1>1 DEF MkPair
<1>5. [MkPair(a, b) EXCEPT ![1] = w] = MkPair(a, w)
  BY <1>2, <1>3
<1>6. [MkPair(a, b) EXCEPT ![0] = w] = MkPair(w, b)
  BY <1>2, <1>4
<1> QED BY <1>2, <1>5, <1>6

LEMMA OperationFacts ==
    ASSUME Programs, NEW k \in 1..Len(program)
    PROVE  /\ program[k] \in Ops /\ expected[k] \in Sharing
           /\ program[k].op \in Forward \cup Backward \cup Local
           /\ program[k].op # "share" =>
                  program[k].a \in 1..(k - 1) /\ expected[program[k].a] \in Sharing
           /\ program[k].op \in {"and", "xor"} =>
                  program[k].b \in 1..(k - 1) /\ expected[program[k].b] \in Sharing
<1>1. program[k] \in Ops /\ Len(program) \in Nat /\ k \in Nat
  BY DEF Programs
<1>2. \A i \in 1..Len(program) : expected[i] \in Sharing
  BY DEF Programs
<1>3. /\ program[k].op # "share" => program[k].a \in 1..(k - 1)
      /\ program[k].op \in {"and", "xor"} => program[k].b \in 1..(k - 1)
  BY DEF Programs
<1>4. \A i \in 1..(k - 1) : i \in 1..Len(program)
  BY <1>1
<1>5. program[k].op \in Forward \cup Backward \cup Local
  BY <1>1, OpShape DEF Forward, Backward, Local
<1> QED BY <1>1, <1>2, <1>3, <1>4, <1>5

LEMMA PartTypes ==
    ASSUME Programs, NEW k \in 1..Len(program), NEW p \in Party
    PROVE  /\ expected[k][p] \in Pair /\ expected[k][p][0] \in Word /\ expected[k][p][1] \in Word
           /\ HalfOf(p, k) \in Pair
           /\ HalfOf(p, k)[0] = IF program[k].op \in {"share", "and"} THEN expected[k][p][0] ELSE Zero
           /\ program[k].op \notin Local => Message(p, k) \in Word
<1>1. expected[k][p] \in Pair /\ expected[k][p][0] \in Word /\ expected[k][p][1] \in Word
  BY OperationFacts, SharingParts
<1>2. Zero \in Word
  BY WordOps DEF Word, Zero
<1>3. (IF program[k].op \in {"share", "and"} THEN expected[k][p][0] ELSE Zero) \in Word
  BY <1>1, <1>2
<1>4. /\ HalfOf(p, k) \in Pair
      /\ HalfOf(p, k)[0] = IF program[k].op \in {"share", "and"} THEN expected[k][p][0] ELSE Zero
  BY <1>2, <1>3, PairParts DEF HalfOf
<1>5. ASSUME program[k].op \notin Local PROVE Message(p, k) \in Word
  <2>1. CASE program[k].op \in {"share", "and"}
    BY <1>1, <2>1 DEF Message
  <2>2. CASE program[k].op \in {"p2n", "reveal", "n2p"}
    <3>1. expected[program[k].a] \in Sharing
      BY <2>2, OperationFacts
    <3>2. expected[program[k].a][p][0] \in Word /\ expected[program[k].a][p][1] \in Word
      BY <3>1, SharingParts
    <3> QED BY <2>2, <3>2 DEF Message
  <2> QED BY <1>5, <2>1, <2>2, OperationFacts DEF Forward, Backward, Local
<1> QED BY <1>1, <1>4, <1>5

\* What a party computes before it sends is its part of the lockstep result,
\* when it draws the mask that is meant for the operation.
LEMMA StartsRight ==
    ASSUME Programs, NEW k \in 1..Len(program), NEW p \in Party, NEW r, NEW mask,
           \A i \in 1..(k - 1) : r[i] = expected[i][p],
           program[k].op = "share" => mask = ZeroShare(p, streams[Count(Shares, k)])
    PROVE  /\ program[k].op \notin Local => Half(p, program[k], r, mask) = HalfOf(p, k)
           /\ program[k].op \in Local => Half(p, program[k], r, mask) = expected[k][p]
           /\ program[k].op \notin Local => Payload(program[k], r, HalfOf(p, k)) = Message(p, k)
<1> DEFINE op == program[k]
<1>1. /\ op \in Ops /\ expected[k] = InLockstep(op, streams[Count(Shares, k)])
      /\ op.op # "share" => r[op.a] = expected[op.a][p] /\ expected[op.a] \in Sharing
      /\ op.op \in {"and", "xor"} => r[op.b] = expected[op.b][p] /\ expected[op.b] \in Sharing
  BY OperationFacts DEF Programs
<1>2. /\ HalfOf(p, k)[0] = IF op.op \in {"share", "and"} THEN expected[k][p][0] ELSE Zero
      /\ HalfOf(p, k) = MkPair(IF op.op \in {"share", "and"} THEN expected[k][p][0] ELSE Zero, Zero)
  BY PartTypes DEF HalfOf
<1>3. CASE op.op = "share"
  <2>1. expected[k] = ShareOp(op.val, streams[Count(Shares, k)])
    BY <1>1, <1>3 DEF InLockstep
  <2>2. expected[k][p][0] = Xor(mask, op.val[p])
    BY <1>3, <2>1, Ring DEF ShareOp, SharingOf, MkPair
  <2>3. Half(p, op, r, mask) = MkPair(Xor(mask, op.val[p]), Zero)
    BY <1>3 DEF Half
  <2>4. Payload(op, r, HalfOf(p, k)) = Message(p, k)
    BY <1>2, <1>3 DEF Payload, Message
  <2> QED BY <1>2, <1>3, <2>2, <2>3, <2>4 DEF Local
<1>4. CASE op.op = "and"
  <2>1. expected[k] = AndOp(expected[op.a], expected[op.b])
    BY <1>1, <1>4 DEF InLockstep
  <2>2. expected[k][p][0] = AndTerm(r[op.a], r[op.b])
    <3>1. PICK w : expected[k][p] = MkPair(AndTerm(expected[op.a][p], expected[op.b][p]), w)
      BY <2>1 DEF AndOp, SharingOf
    <3>2. expected[k][p][0] = AndTerm(expected[op.a][p], expected[op.b][p])
      BY <3>1, PairEdits
    <3> QED BY <1>1, <1>4, <3>2
  <2>3. Half(p, op, r, mask) = MkPair(AndTerm(r[op.a], r[op.b]), Zero)
    BY <1>4 DEF Half
  <2>4. Payload(op, r, HalfOf(p, k)) = Message(p, k)
    BY <1>2, <1>4 DEF Payload, Message
  <2> QED BY <1>2, <1>4, <2>2, <2>3, <2>4 DEF Local
<1>5. CASE op.op = "xor"
  <2>1. expected[k] = XorOp(expected[op.a], expected[op.b])
    BY <1>1, <1>5 DEF InLockstep
  <2>2. expected[k][p] = XorPair(r[op.a], r[op.b])
    BY <1>1, <1>5, <2>1 DEF XorOp
  <2>3. Half(p, op, r, mask) = XorPair(r[op.a], r[op.b])
    BY <1>5 DEF Half
  <2> QED BY <1>5, <2>2, <2>3 DEF Local
<1>6. CASE op.op = "not"
  <2>1. expected[k] = NegateOp(expected[op.a])
    BY <1>1, <1>6 DEF InLockstep
  <2>2. expected[k][p] = NegatePair(p, r[op.a])
    BY <1>1, <1>6, <2>1 DEF NegateOp
  <2>3. Half(p, op, r, mask) = NegatePair(p, r[op.a])
    BY <1>6 DEF Half
  <2> QED BY <1>6, <2>2, <2>3 DEF Local
<1>7. CASE op.op \in {"p2n", "reveal", "n2p"}
  <2>1. Half(p, op, r, mask) = MkPair(Zero, Zero)
    BY <1>7 DEF Half
  <2>2. HalfOf(p, k) = MkPair(Zero, Zero)
    BY <1>2, <1>7
  <2>3. Payload(op, r, HalfOf(p, k)) = Message(p, k)
    BY <1>1, <1>7 DEF Payload, Message
  <2> QED BY <1>7, <2>1, <2>2, <2>3 DEF Local
<1> QED BY <1>1, <1>3, <1>4, <1>5, <1>6, <1>7, OpShape

\* With the message that its neighbour sends in the same operation, the result.
LEMMA FinishesRight ==
    ASSUME Programs, NEW k \in 1..Len(program), NEW p \in Party, NEW r,
           \A i \in 1..(k - 1) : r[i] = expected[i][p]
    PROVE  /\ program[k].op \in Forward =>
                  Complete(program[k], r, HalfOf(p, k), Message(PrevOf(p), k)) = expected[k][p]
           /\ program[k].op \in Backward =>
                  Complete(program[k], r, HalfOf(p, k), Message(NextOf(p), k)) = expected[k][p]
<1> DEFINE op == program[k]
<1>1. /\ op \in Ops /\ expected[k] = InLockstep(op, streams[Count(Shares, k)])
      /\ op.op # "share" => r[op.a] = expected[op.a][p]
  BY OperationFacts DEF Programs
<1>2. /\ HalfOf(p, k) = MkPair(IF op.op \in {"share", "and"} THEN expected[k][p][0] ELSE Zero, Zero)
      /\ PrevOf(p) \in Party /\ NextOf(p) \in Party
  BY Ring DEF HalfOf
<1>3. \A a, b, w : /\ [MkPair(a, b) EXCEPT ![1] = w] = MkPair(a, w)
                   /\ [MkPair(a, b) EXCEPT ![0] = w] = MkPair(w, b)
                   /\ MkPair(a, b)[0] = a
  BY PairEdits
<1>4. CASE op.op \in {"share", "and"}
  <2>1. PICK c : expected[k] = SharingOf(c)
    BY <1>1, <1>4 DEF InLockstep, ShareOp, AndOp
  <2>2. expected[k][p] = MkPair(c[p], c[PrevOf(p)])
        /\ expected[k][PrevOf(p)] = MkPair(c[PrevOf(p)], c[PrevOf(PrevOf(p))])
    BY <1>2, <2>1 DEF SharingOf
  <2>3. expected[k][p][0] = c[p] /\ expected[k][PrevOf(p)][0] = c[PrevOf(p)]
    BY <1>3, <2>2
  <2>4. Message(PrevOf(p), k) = c[PrevOf(p)] /\ HalfOf(p, k) = MkPair(c[p], Zero)
    BY <1>2, <1>4, <2>3 DEF Message
  <2>5. op.op \in Forward /\ op.op \notin Backward
    BY <1>4 DEF Forward, Backward
  <2>6. Complete(op, r, HalfOf(p, k), Message(PrevOf(p), k)) = MkPair(c[p], c[PrevOf(p)])
    <3>1. Complete(op, r, HalfOf(p, k), Message(PrevOf(p), k))
              = [HalfOf(p, k) EXCEPT ![1] = Message(PrevOf(p), k)]
      BY <1>4, <2>5 DEF Complete
    <3> QED BY <1>3, <2>4, <3>1
  <2> QED BY <2>2, <2>5, <2>6
<1>5. CASE op.op = "p2n"
  <2>1. expected[k][p] = MkPair(Zero, expected[op.a][PrevOf(p)][0])
    BY <1>1, <1>5 DEF InLockstep, P2NOp
  <2>2. Message(PrevOf(p), k) = expected[op.a][PrevOf(p)][0] /\ HalfOf(p, k) = MkPair(Zero, Zero)
    <3>1. op.op \notin {"share", "and"}
      BY <1>5
    <3>2. Message(PrevOf(p), k) = expected[op.a][PrevOf(p)][0]
      BY <1>5 DEF Message
    <3> QED BY <1>2, <3>1, <3>2
  <2>3. op.op \in Forward /\ op.op \notin Backward
    BY <1>5 DEF Forward, Backward
  <2>4. Complete(op, r, HalfOf(p, k), Message(PrevOf(p), k)) = MkPair(Zero, Message(PrevOf(p), k))
    <3>1. Complete(op, r, HalfOf(p, k), Message(PrevOf(p), k))
              = [HalfOf(p, k) EXCEPT ![1] = Message(PrevOf(p), k)]
      BY <1>5, <2>3 DEF Complete
    <3> QED BY <1>3, <2>2, <3>1
  <2> QED BY <2>1, <2>2, <2>3, <2>4
<1>6. CASE op.op = "n2p"
  <2>1. expected[k][p] = MkPair(expected[op.a][NextOf(p)][1], Zero)
    BY <1>1, <1>6 DEF InLockstep, N2POp
  <2>2. Message(NextOf(p), k) = expected[op.a][NextOf(p)][1] /\ HalfOf(p, k) = MkPair(Zero, Zero)
    BY <1>2, <1>6 DEF Message
  <2>3. op.op \notin Forward /\ op.op \in Backward
    BY <1>6 DEF Forward, Backward
  <2>4. Complete(op, r, HalfOf(p, k), Message(NextOf(p), k)) = MkPair(Message(NextOf(p), k), Zero)
    BY <1>3, <1>6, <2>2 DEF Complete, Forward
  <2> QED BY <2>1, <2>2, <2>3, <2>4
<1>7. CASE op.op = "reveal"
  <2>1. expected[k][p] = MkPair(Xor3(expected[op.a][NextOf(p)][0], r[op.a][0], r[op.a][1]), Zero)
    <3>1. expected[k] = [q \in Party |-> MkPair(RevealOp(expected[op.a])[q], Zero)]
      BY <1>1, <1>7 DEF InLockstep
    <3>2. RevealOp(expected[op.a])[p]
              = Xor3(expected[op.a][NextOf(p)][0], expected[op.a][p][0], expected[op.a][p][1])
      BY DEF RevealOp
    <3>3. r[op.a] = expected[op.a][p]
      BY <1>1, <1>7
    <3> QED BY <3>1, <3>2, <3>3
  <2>2. Message(NextOf(p), k) = expected[op.a][NextOf(p)][0] /\ HalfOf(p, k) = MkPair(Zero, Zero)
    BY <1>2, <1>7 DEF Message
  <2>3. op.op \notin Forward /\ op.op \in Backward
    BY <1>7 DEF Forward, Backward
  <2>4. Complete(op, r, HalfOf(p, k), Message(NextOf(p), k))
            = MkPair(Xor3(Message(NextOf(p), k), r[op.a][0], r[op.a][1]), Zero)
    BY <1>3, <1>7, <2>2 DEF Complete, Forward
  <2> QED BY <2>1, <2>2, <2>3, <2>4
<1>8. CASE op.op \in Local
  BY <1>8 DEF Local, Forward, Backward
<1> QED BY <1>1, <1>4, <1>5, <1>6, <1>7, <1>8, OpShape DEF Local

-------------------------------------------------------------------------------
(* What the parties hold and what is on its way between them. *)

\* The operations in which p has sent, or that need no message.
Sent(p) == IF started[p] THEN done[p] + 1 ELSE done[p]

\* The operations after `from', up to `to', of certain kinds.
Exchanged(from, to, kinds) == {k \in 1..to : from < k /\ program[k].op \in kinds}

\* A channel holds the messages of the operations in S, in their order.
Messages(p) == [k \in 1..Len(program) |-> Message(p, k)]

Carries(chan, messages, S) ==
    \E f : /\ Listing(f, S) /\ Len(f) = Len(chan)
           /\ \A i \in 1..Len(chan) : chan[i] = messages[f[i]]

Progress ==
    /\ done \in [Party -> Nat] /\ started \in [Party -> BOOLEAN]
    /\ \A p \in Party : /\ Sent(p) <= Len(program)
                        /\ started[p] => program[done[p] + 1].op \notin Local

Results ==
    /\ reg \in [Party -> Seq(Pair)]
    /\ \A p \in Party : /\ Len(reg[p]) = Sent(p)
                        /\ started[p] => reg[p][done[p] + 1] = HalfOf(p, done[p] + 1)

\* A party is at the mask of its next share.
Masks ==
    /\ mShareGenIdx \in [Party -> Nat] /\ mShareIdx \in [Party -> 0..BuffSize]
    /\ \A p \in Party : mShareGenIdx[p] + mShareIdx[p] = BuffSize + Count(Shares, Sent(p))

\* A channel holds the messages that are sent and not received.
Channels ==
    /\ fwd \in [Party -> Seq(Word)] /\ bwd \in [Party -> Seq(Word)]
    /\ \A p \in Party :
          /\ Carries(fwd[p], Messages(p), Exchanged(done[NextOf(p)], Sent(p), Forward))
          /\ Carries(bwd[p], Messages(p), Exchanged(done[PrevOf(p)], Sent(p), Backward))

\* Nobody has finished an exchange that its neighbour has not begun.
Received ==
    \A p \in Party : \A k \in 1..done[p] :
        /\ program[k].op \in Forward  => k <= Sent(PrevOf(p))
        /\ program[k].op \in Backward => k <= Sent(NextOf(p))

ShInv == /\ Programs /\ Values
         /\ Progress /\ Results /\ MatchesLockstep /\ Masks /\ Channels /\ Received

LEMMA CarriesSent ==
    ASSUME NEW chan \in Seq(Word), NEW m, NEW S, Carries(chan, m, S), NEW n \in Nat,
           \A s \in S : s < n, m[n] \in Word
    PROVE  Carries(Append(chan, m[n]), m, S \cup {n})
<1>1. PICK f : /\ Listing(f, S) /\ Len(f) = Len(chan)
               /\ \A i \in 1..Len(chan) : chan[i] = m[f[i]]
  BY DEF Carries
<1>2. Listing(Append(f, n), S \cup {n}) /\ f \in Seq(Nat)
  BY <1>1, ListingAppend DEF Listing
<1>3. /\ Len(Append(f, n)) = Len(Append(chan, m[n])) /\ Len(Append(chan, m[n])) = Len(chan) + 1
      /\ Len(chan) \in Nat
      /\ \A i \in 1..Len(chan) : Append(f, n)[i] = f[i] /\ Append(chan, m[n])[i] = chan[i]
      /\ Append(f, n)[Len(chan) + 1] = n /\ Append(chan, m[n])[Len(chan) + 1] = m[n]
  BY <1>1, <1>2
<1>4. ASSUME NEW i \in 1..Len(Append(chan, m[n]))
      PROVE  Append(chan, m[n])[i] = m[Append(f, n)[i]]
  <2>1. CASE i \in 1..Len(chan)
    BY <1>1, <1>3, <2>1
  <2>2. CASE i = Len(chan) + 1
    BY <1>3, <2>2
  <2> QED BY <1>3, <2>1, <2>2
<1> QED BY <1>2, <1>3, <1>4 DEF Carries

LEMMA CarriesReceived ==
    ASSUME NEW chan \in Seq(Word), NEW m, NEW S, Carries(chan, m, S), chan # <<>>
    PROVE  \E n \in S : /\ n \in Nat /\ \A s \in S : n <= s
                        /\ Head(chan) = m[n]
                        /\ Carries(Tail(chan), m, S \ {n})
<1>1. PICK f : /\ Listing(f, S) /\ Len(f) = Len(chan)
               /\ \A i \in 1..Len(chan) : chan[i] = m[f[i]]
  BY DEF Carries
<1>2. /\ f \in Seq(Nat) /\ Len(chan) \in Nat \ {0} /\ f # <<>>
  BY <1>1, EmptySeq DEF Listing
<1>3. Head(f) \in S /\ (\A s \in S : Head(f) <= s) /\ Listing(Tail(f), S \ {Head(f)})
  BY <1>1, <1>2, ListingTail
<1>4. /\ Head(f) = f[1] /\ Head(chan) = chan[1] /\ Head(f) \in Nat
      /\ Len(Tail(f)) = Len(f) - 1 /\ Len(Tail(chan)) = Len(chan) - 1
      /\ \A i \in 1..(Len(chan) - 1) : Tail(f)[i] = f[i + 1] /\ Tail(chan)[i] = chan[i + 1]
  BY <1>1, <1>2, HeadTailProperties
<1>5. Head(chan) = m[Head(f)]
  BY <1>1, <1>2, <1>4
<1>6. \A i \in 1..Len(Tail(chan)) : Tail(chan)[i] = m[Tail(f)[i]]
  <2> TAKE i \in 1..Len(Tail(chan))
  <2>1. i \in 1..(Len(chan) - 1) /\ i + 1 \in 1..Len(chan)
    BY <1>2, <1>4
  <2> QED BY <1>1, <1>4, <2>1
<1>7. Len(Tail(f)) = Len(Tail(chan))
  BY <1>1, <1>4
<1>8. Carries(Tail(chan), m, S \ {Head(f)})
  BY <1>3, <1>6, <1>7 DEF Carries
<1> QED BY <1>3, <1>4, <1>5, <1>8

LEMMA CarriesKept ==
    ASSUME NEW chan, NEW m1, NEW m2, NEW S, Carries(chan, m1, S), \A s \in S : m2[s] = m1[s]
    PROVE  Carries(chan, m2, S)
<1>1. PICK f : /\ Listing(f, S) /\ Len(f) = Len(chan)
               /\ \A i \in 1..Len(chan) : chan[i] = m1[f[i]]
  BY DEF Carries
<1>2. \A i \in 1..Len(chan) : f[i] \in S
  BY <1>1 DEF Listing, Range
<1> QED BY <1>1, <1>2 DEF Carries

LEMMA ExchangedStep ==
    ASSUME NEW d \in Nat, NEW kinds
    PROVE  /\ \A from \in Nat :
                 /\ program[d + 1].op \notin kinds =>
                        Exchanged(from, d + 1, kinds) = Exchanged(from, d, kinds)
                 /\ program[d + 1].op \in kinds /\ from <= d =>
                        Exchanged(from, d + 1, kinds) = Exchanged(from, d, kinds) \cup {d + 1}
                 /\ \A s \in Exchanged(from, d, kinds) : s < d + 1
           /\ \A to \in Nat : program[d + 1].op \notin kinds =>
                 Exchanged(d + 1, to, kinds) = Exchanged(d, to, kinds)
BY DEF Exchanged

\* What is assigned to in no step of the parties.
LEMMA SameProgram ==
    ASSUME UNCHANGED <<program, streams, expected, plain>>, Programs, Values
    PROVE  /\ Programs' /\ Values' /\ Shares' = Shares
           /\ \A p : Messages(p)' = Messages(p)
           /\ \A p, k : HalfOf(p, k)' = HalfOf(p, k)
           /\ \A from, to, kinds : Exchanged(from, to, kinds)' = Exchanged(from, to, kinds)
<1>1. Programs'
  BY DEF Programs, Shares, InLockstep
<1>2. Values' /\ Shares' = Shares
  BY DEF Values, Shares
<1> QED BY <1>1, <1>2 DEF Messages, Message, HalfOf, Exchanged

LEMMA InitHolds ==
    ASSUME Init
    PROVE  ShInv
<1>1. /\ program = <<>> /\ streams = <<>> /\ expected = <<>> /\ plain = <<>>
      /\ Len(program) = 0
      /\ \A p \in Party : done[p] = 0 /\ started[p] = FALSE /\ Sent(p) = 0
  BY DEF Init, Sent
<1>2. \A S : Count(S, 0) = 0
  BY CountStep
<1>3. Programs /\ Values
  BY <1>1, <1>2 DEF Programs, Values
<1>4. Progress
  BY <1>1 DEF Progress, Init
<1>5. Results
  BY <1>1 DEF Results, Init
<1>6. MatchesLockstep /\ Received
  BY <1>1 DEF MatchesLockstep, Received
<1>7. Masks
  BY <1>1, <1>2, BuffSizeAssumption DEF Masks, Init
<1>8. Channels
  <2>1. \A from, kinds : Exchanged(from, 0, kinds) = {}
    BY DEF Exchanged
  <2>2. \A m : Carries(<<>>, m, {})
    <3> TAKE m
    <3>1. Listing(<<>>, {})
      BY DEF Listing, Increasing, Range
    <3>2. Len(<<>>) = 0 /\ \A i \in 1..Len(<<>>) : <<>>[i] = m[<<>>[i]]
      OBVIOUS
    <3>3. \E f : /\ Listing(f, {}) /\ Len(f) = Len(<<>>)
                 /\ \A i \in 1..Len(<<>>) : <<>>[i] = m[f[i]]
      <4> WITNESS <<>>
      <4> QED BY <3>1, <3>2
    <3> QED BY <3>3 DEF Carries
  <2>3. ASSUME NEW p \in Party
        PROVE  /\ fwd[p] = <<>> /\ Exchanged(done[NextOf(p)], Sent(p), Forward) = {}
               /\ bwd[p] = <<>> /\ Exchanged(done[PrevOf(p)], Sent(p), Backward) = {}
    BY <1>1, <2>1 DEF Init
  <2>4. fwd \in [Party -> Seq(Word)] /\ bwd \in [Party -> Seq(Word)]
    BY DEF Init
  <2> QED BY <2>2, <2>3, <2>4 DEF Channels
<1> QED BY <1>3, <1>4, <1>5, <1>6, <1>7, <1>8 DEF ShInv

LEMMA ExtendHolds ==
    ASSUME ShInv, NEW op \in Ops, NEW stream \in Streams, Extend(op, stream)
    PROVE  ShInv'
<1> DEFINE n == Len(program)
<1>1. Programs /\ Values /\ Progress /\ Results /\ MatchesLockstep /\ Masks /\ Channels /\ Received
  BY DEF ShInv
<1>2. /\ Len(program') = n + 1 /\ n \in Nat
      /\ \A k \in 1..n : program'[k] = program[k] /\ expected'[k] = expected[k]
      /\ \A k \in 0..n : Count(Shares', k) = Count(Shares, k)
  BY <1>1, ExtendKeeps
<1>3. UNCHANGED <<done, started, reg, fwd, bwd, mShareGenIdx, mShareIdx>>
  BY DEF Extend
<1>4. /\ \A p \in Party : Sent(p)' = Sent(p) /\ Sent(p) \in 0..n /\ done[p] \in 0..n
      /\ \A p \in Party : started[p] => done[p] + 1 \in 1..n
      /\ \A p \in Party : \A k \in 1..done[p] : k \in 1..n
  BY <1>1, <1>2, <1>3 DEF Progress, Sent
<1>5. ASSUME NEW p \in Party, NEW k \in 1..n
      PROVE  /\ HalfOf(p, k)' = HalfOf(p, k)
             /\ program[k].op \notin Local => Message(p, k)' = Message(p, k)
  <2>1. program'[k] = program[k] /\ expected'[k] = expected[k]
    BY <1>2
  <2>2. HalfOf(p, k)' = HalfOf(p, k)
    BY <2>1 DEF HalfOf
  <2>3. program[k].op # "share" => expected'[program[k].a] = expected[program[k].a]
    BY <1>1, <1>2, OperationFacts
  <2>4. ASSUME program[k].op \notin Local PROVE Message(p, k)' = Message(p, k)
    <3>1. program[k].op \in {"share", "and", "p2n", "reveal", "n2p"}
      BY <1>1, <2>4, OperationFacts DEF Forward, Backward, Local
    <3> QED BY <2>1, <2>3, <3>1 DEF Message
  <2> QED BY <2>2, <2>4
<1>6. Progress'
  BY <1>1, <1>2, <1>3, <1>4 DEF Progress
<1>7. Results'
  <2>1. ASSUME NEW p \in Party PROVE Len(reg'[p]) = Sent(p)'
    BY <1>1, <1>3, <1>4 DEF Results
  <2>2. ASSUME NEW p \in Party, started[p]
        PROVE  reg'[p][done'[p] + 1] = HalfOf(p, done[p] + 1)'
    <3>1. done[p] + 1 \in 1..n
      BY <1>4, <2>2
    <3>2. reg[p][done[p] + 1] = HalfOf(p, done[p] + 1)
      BY <1>1, <2>2 DEF Results
    <3>3. HalfOf(p, done[p] + 1)' = HalfOf(p, done[p] + 1)
      <4>1. program'[done[p] + 1] = program[done[p] + 1] /\ expected'[done[p] + 1] = expected[done[p] + 1]
        BY <1>2, <3>1
      <4> QED BY <1>3, <4>1 DEF HalfOf
    <3> QED BY <1>3, <3>2, <3>3
  <2> QED BY <1>1, <1>3, <2>1, <2>2 DEF Results
<1>8. MatchesLockstep'
  BY <1>1, <1>2, <1>3, <1>4 DEF MatchesLockstep
<1>9. Masks'
  BY <1>1, <1>2, <1>3, <1>4 DEF Masks
<1>10. Received'
  BY <1>1, <1>2, <1>3, <1>4, Ring DEF Received
<1>11. Channels'
  <2>1. ASSUME NEW p \in Party, NEW from \in Nat, NEW to \in 0..n, NEW kinds, kinds \cap Local = {},
               NEW chan, Carries(chan, Messages(p), Exchanged(from, to, kinds))
        PROVE  Carries(chan, Messages(p)', {k \in 1..to : from < k /\ program'[k].op \in kinds})
    <3> DEFINE S == Exchanged(from, to, kinds)
    <3>1. \A k \in 1..to : k \in 1..n
      BY <1>2
    <3>2. S = {k \in 1..to : from < k /\ program'[k].op \in kinds}
      BY <1>2, <3>1 DEF Exchanged
    <3>3. \A k \in S : k \in 1..n /\ program[k].op \notin Local
      BY <2>1, <3>1 DEF Exchanged
    <3>4. \A k \in S : Messages(p)'[k] = Messages(p)[k]
      <4> TAKE k \in S
      <4>1. k \in 1..n /\ k \in 1..(n + 1) /\ program[k].op \notin Local
        BY <1>2, <3>3
      <4>2. Messages(p)'[k] = Message(p, k)'
        BY <1>2, <4>1 DEF Messages
      <4>3. Messages(p)[k] = Message(p, k)
        BY <4>1 DEF Messages
      <4> QED BY <1>5, <4>1, <4>2, <4>3
    <3>5. Carries(chan, Messages(p)', S)
      BY <2>1, <3>4, CarriesKept
    <3> QED BY <3>2, <3>5
  <2>2. Forward \cap Local = {} /\ Backward \cap Local = {}
    BY DEF Forward, Backward, Local
  <2>3. ASSUME NEW p \in Party
        PROVE  /\ Carries(fwd[p], Messages(p)', Exchanged(done[NextOf(p)], Sent(p), Forward)')
               /\ Carries(bwd[p], Messages(p)', Exchanged(done[PrevOf(p)], Sent(p), Backward)')
    <3>1. /\ done[NextOf(p)] \in Nat /\ done[PrevOf(p)] \in Nat /\ Sent(p) \in 0..n /\ Sent(p)' = Sent(p)
          /\ done' = done
      BY <1>3, <1>4, Ring
    <3>2. /\ Carries(fwd[p], Messages(p), Exchanged(done[NextOf(p)], Sent(p), Forward))
          /\ Carries(bwd[p], Messages(p), Exchanged(done[PrevOf(p)], Sent(p), Backward))
      BY <1>1 DEF Channels
    <3>3. /\ Carries(fwd[p], Messages(p)',
                     {k \in 1..Sent(p) : done[NextOf(p)] < k /\ program'[k].op \in Forward})
          /\ Carries(bwd[p], Messages(p)',
                     {k \in 1..Sent(p) : done[PrevOf(p)] < k /\ program'[k].op \in Backward})
      BY <2>1, <2>2, <3>1, <3>2
    <3> QED BY <3>1, <3>3 DEF Exchanged
  <2> QED BY <1>1, <1>3, <2>3 DEF Channels
<1>12. Programs' /\ Values'
  BY <1>1, ExtendPrograms
<1> QED BY <1>6, <1>7, <1>8, <1>9, <1>10, <1>11, <1>12 DEF ShInv

LEMMA StartHolds ==
    ASSUME ShInv, NEW p \in Party, Start(p)
    PROVE  ShInv'
<1> DEFINE d == done[p]
           k == done[p] + 1
<1>1. Programs /\ Values /\ Progress /\ Results /\ MatchesLockstep /\ Masks /\ Channels /\ Received
  BY DEF ShInv
<1>2. /\ UNCHANGED <<program, done, streams, expected, plain>>
      /\ started' = [started EXCEPT ![p] = TRUE]
      /\ d < Len(program) /\ ~started[p] /\ program[k].op \notin Local
  BY DEF Start, MayStart, Current, ghost
<1>3. /\ Len(program) \in Nat /\ d \in Nat /\ k \in 1..Len(program)
      /\ Sent(p) = d /\ Sent(p)' = k
      /\ \A q \in Party : q # p => Sent(q)' = Sent(q)
      /\ \A q \in Party : Sent(q) \in Nat /\ done[q] \in Nat
  BY <1>1, <1>2 DEF Programs, Progress, Sent
<1>4. \A i \in 1..(k - 1) : reg[p][i] = expected[i][p]
  BY <1>1, <1>3 DEF MatchesLockstep
<1>5. /\ Count(Shares, d) \in Nat
      /\ Count(Shares, k) = IF program[k].op = "share" THEN Count(Shares, d) + 1 ELSE Count(Shares, d)
  <2>1. k \in Shares <=> program[k].op = "share"
    BY <1>3 DEF Shares
  <2> QED BY <1>3, <2>1, CountStep
<1>6. /\ mShareGenIdx[p] \in Nat /\ mShareIdx[p] \in Nat /\ mShareIdx[p] <= BuffSize
      /\ BuffSize \in Nat \ {0}
      /\ mShareGenIdx[p] + mShareIdx[p] = BuffSize + Count(Shares, d)
  BY <1>1, <1>3, BuffSizeAssumption DEF Masks
<1>7. ASSUME program[k].op = "share"
      PROVE  getBinaryShare(p) = ZeroShare(p, streams[Count(Shares, k)])
  <2>1. Position(p) = Count(Shares, d)
    BY <1>5, <1>6 DEF Position
  <2> QED BY <1>5, <1>7, <2>1 DEF getBinaryShare
<1> DEFINE mask == IF program[k].op = "share" THEN getBinaryShare(p) ELSE Zero
<1>8. /\ Half(p, program[k], reg[p], mask) = HalfOf(p, k)
      /\ Payload(program[k], reg[p], HalfOf(p, k)) = Message(p, k)
  <2>1. program[k].op = "share" => mask = ZeroShare(p, streams[Count(Shares, k)])
    BY <1>7
  <2>2. Programs /\ k \in 1..Len(program) /\ program[k].op \notin Local
    BY <1>1, <1>2, <1>3
  <2> HIDE DEF mask, k
  <2> QED BY <1>4, <2>1, <2>2, StartsRight
<1>9. Messages(p)[k] = Message(p, k) /\ Message(p, k) \in Word /\ HalfOf(p, k) \in Pair
  BY <1>1, <1>2, <1>3, PartTypes DEF Messages
<1>10. /\ reg' = [reg EXCEPT ![p] = Append(reg[p], HalfOf(p, k))]
       /\ program[k].op \in Forward =>
              fwd' = [fwd EXCEPT ![p] = Append(fwd[p], Messages(p)[k])] /\ bwd' = bwd
       /\ program[k].op \notin Forward =>
              bwd' = [bwd EXCEPT ![p] = Append(bwd[p], Messages(p)[k])] /\ fwd' = fwd
  <2>1. /\ reg' = [reg EXCEPT ![p] = Append(@, Half(p, program[k], reg[p], mask))]
        /\ IF program[k].op \in Forward
           THEN fwd' = [fwd EXCEPT ![p] = Append(@, Payload(program[k], reg[p],
                            Half(p, program[k], reg[p], mask)))] /\ UNCHANGED bwd
           ELSE bwd' = [bwd EXCEPT ![p] = Append(@, Payload(program[k], reg[p],
                            Half(p, program[k], reg[p], mask)))] /\ UNCHANGED fwd
    BY DEF Start, Current
  <2> HIDE DEF mask
  <2> QED BY <1>8, <1>9, <2>1
<1>11. /\ Programs' /\ Values' /\ Shares' = Shares
       /\ \A q : Messages(q)' = Messages(q)
       /\ \A q, i : HalfOf(q, i)' = HalfOf(q, i)
       /\ \A from, to, kinds : Exchanged(from, to, kinds)' = Exchanged(from, to, kinds)
  BY <1>1, <1>2, SameProgram
<1>12. Progress'
  BY <1>1, <1>2, <1>3 DEF Progress
<1>13. /\ reg' \in [Party -> Seq(Pair)]
       /\ Len(reg'[p]) = k /\ reg'[p][k] = HalfOf(p, k)
       /\ \A i \in 1..d : reg'[p][i] = reg[p][i]
       /\ \A q \in Party : q # p => reg'[q] = reg[q]
  BY <1>1, <1>3, <1>9, <1>10 DEF Results
<1>14. Results'
  <2>1. ASSUME NEW q \in Party
        PROVE  /\ Len(reg'[q]) = Sent(q)'
               /\ started'[q] => reg'[q][done'[q] + 1] = HalfOf(q, done[q] + 1)'
    <3>1. HalfOf(q, done[q] + 1)' = HalfOf(q, done[q] + 1)
      BY <1>2 DEF HalfOf
    <3> QED BY <1>1, <1>2, <1>3, <1>13, <3>1 DEF Results
  <2> QED BY <1>13, <2>1 DEF Results
<1>15. MatchesLockstep'
  <2>1. ASSUME NEW q \in Party, NEW i \in 1..done[q] PROVE reg'[q][i] = expected[i][q]
    BY <1>1, <1>13, <2>1 DEF MatchesLockstep
  <2> QED BY <1>2, <2>1 DEF MatchesLockstep
<1>16. Masks'
  <2>1. CASE program[k].op = "share"
    <3>1. DrawMask(p)
      BY <2>1 DEF Start, Current
    <3>2. /\ mShareGenIdx' \in [Party -> Nat] /\ mShareIdx' \in [Party -> 0..BuffSize]
          /\ mShareGenIdx'[p] + mShareIdx'[p] = mShareGenIdx[p] + mShareIdx[p] + 1
          /\ \A q \in Party : q # p => mShareGenIdx'[q] = mShareGenIdx[q]
                                       /\ mShareIdx'[q] = mShareIdx[q]
      <4>1. CASE mShareIdx[p] + 1 > BuffSize
        BY <1>1, <1>6, <3>1, <4>1 DEF DrawMask, Masks
      <4>2. CASE ~ (mShareIdx[p] + 1 > BuffSize)
        BY <1>1, <1>6, <3>1, <4>2 DEF DrawMask, Masks
      <4> QED BY <4>1, <4>2
    <3>3. ASSUME NEW q \in Party
          PROVE  mShareGenIdx'[q] + mShareIdx'[q] = BuffSize + Count(Shares, Sent(q)')
      <4>1. CASE q = p
        <5>1. Sent(q)' = k /\ Count(Shares, k) = Count(Shares, d) + 1
          BY <1>3, <1>5, <2>1, <4>1
        <5>2. mShareGenIdx'[q] + mShareIdx'[q] = (BuffSize + Count(Shares, d)) + 1
          BY <1>6, <3>2, <4>1
        <5> QED BY <1>5, <1>6, <5>1, <5>2
      <4>2. CASE q # p
        <5>1. mShareGenIdx[q] + mShareIdx[q] = BuffSize + Count(Shares, Sent(q))
          BY <1>1 DEF Masks
        <5>2. /\ mShareGenIdx'[q] = mShareGenIdx[q] /\ mShareIdx'[q] = mShareIdx[q]
              /\ Sent(q)' = Sent(q)
          BY <1>3, <3>2, <4>2
        <5> QED BY <5>1, <5>2
      <4> QED BY <4>1, <4>2
    <3> QED BY <1>11, <3>2, <3>3 DEF Masks
  <2>2. CASE program[k].op # "share"
    <3>1. UNCHANGED <<mShareGenIdx, mShareIdx>>
      BY <2>2 DEF Start, Current
    <3>2. ASSUME NEW q \in Party
          PROVE  mShareGenIdx[q] + mShareIdx[q] = BuffSize + Count(Shares, Sent(q)')
      BY <1>1, <1>3, <1>5, <2>2 DEF Masks
    <3> QED BY <1>1, <1>11, <3>1, <3>2 DEF Masks
  <2> QED BY <2>1, <2>2
<1>17. Received'
  <2>1. \A q \in Party : Sent(q)' \in Nat /\ Sent(q) <= Sent(q)' /\ Sent(PrevOf(q)) <= Sent(PrevOf(q))'
                         /\ Sent(NextOf(q)) <= Sent(NextOf(q))'
                         /\ Sent(PrevOf(q)) \in Nat /\ Sent(NextOf(q)) \in Nat
                         /\ Sent(PrevOf(q))' \in Nat /\ Sent(NextOf(q))' \in Nat
    BY <1>3, Ring
  <2> QED BY <1>1, <1>2, <1>3, <2>1, SMTT(30) DEF Received
\* The receiver has not finished the operation: it would have had to receive.
<1>18. /\ program[k].op \in Forward => done[NextOf(p)] <= d
       /\ program[k].op \in Backward => done[PrevOf(p)] <= d
  <2>1. /\ NextOf(p) \in Party /\ PrevOf(p) \in Party
        /\ PrevOf(NextOf(p)) = p /\ NextOf(PrevOf(p)) = p
        /\ done[NextOf(p)] \in Nat /\ done[PrevOf(p)] \in Nat
    BY <1>3, Ring
  <2>2. ASSUME program[k].op \in Forward, ~ (done[NextOf(p)] <= d) PROVE FALSE
    <3>1. k \in 1..done[NextOf(p)]
      BY <1>3, <2>1, <2>2
    <3>2. k <= Sent(p)
      BY <1>1, <2>1, <2>2, <3>1 DEF Received
    <3> QED BY <1>3, <3>2
  <2>3. ASSUME program[k].op \in Backward, ~ (done[PrevOf(p)] <= d) PROVE FALSE
    <3>1. k \in 1..done[PrevOf(p)]
      BY <1>3, <2>1, <2>3
    <3>2. k <= Sent(p)
      BY <1>1, <2>1, <2>3, <3>1 DEF Received
    <3> QED BY <1>3, <3>2
  <2> QED BY <2>2, <2>3
<1>19. ASSUME NEW chan \in Seq(Word), NEW from \in Nat, NEW kinds,
              Carries(chan, Messages(p), Exchanged(from, d, kinds))
       PROVE  /\ program[k].op \notin kinds => Carries(chan, Messages(p), Exchanged(from, k, kinds))
              /\ program[k].op \in kinds /\ from <= d =>
                     Carries(Append(chan, Messages(p)[k]), Messages(p), Exchanged(from, k, kinds))
  <2>1. /\ program[k].op \notin kinds => Exchanged(from, k, kinds) = Exchanged(from, d, kinds)
        /\ program[k].op \in kinds /\ from <= d =>
               Exchanged(from, k, kinds) = Exchanged(from, d, kinds) \cup {k}
        /\ \A s \in Exchanged(from, d, kinds) : s < k
    BY <1>3, ExchangedStep
  <2>2. Carries(Append(chan, Messages(p)[k]), Messages(p), Exchanged(from, d, kinds) \cup {k})
    <3>1. k \in Nat /\ Messages(p)[k] \in Word
      BY <1>3, <1>9
    <3> QED BY <1>19, <2>1, <3>1, CarriesSent
  <2> QED BY <1>19, <2>1, <2>2
<1>20. program[k].op \in Forward <=> program[k].op \notin Backward
  BY <1>1, <1>2, <1>3, OperationFacts DEF Forward, Backward, Local
<1>21. ASSUME NEW q \in Party
       PROVE  /\ fwd'[q] \in Seq(Word) /\ bwd'[q] \in Seq(Word)
              /\ Carries(fwd'[q], Messages(q), Exchanged(done[NextOf(q)], Sent(q)', Forward))
              /\ Carries(bwd'[q], Messages(q), Exchanged(done[PrevOf(q)], Sent(q)', Backward))
  <2>1. /\ fwd \in [Party -> Seq(Word)] /\ bwd \in [Party -> Seq(Word)]
        /\ Carries(fwd[q], Messages(q), Exchanged(done[NextOf(q)], Sent(q), Forward))
        /\ Carries(bwd[q], Messages(q), Exchanged(done[PrevOf(q)], Sent(q), Backward))
        /\ done[NextOf(q)] \in Nat /\ done[PrevOf(q)] \in Nat
    BY <1>1, <1>3, Ring DEF Channels
  <2>0. fwd[p] \in Seq(Word) /\ bwd[p] \in Seq(Word)
        /\ Append(fwd[p], Messages(p)[k]) \in Seq(Word) /\ Append(bwd[p], Messages(p)[k]) \in Seq(Word)
    <3>1. fwd[p] \in Seq(Word) /\ bwd[p] \in Seq(Word)
      BY <2>1
    <3> QED BY <1>9, <3>1
  <2>2. CASE q # p
    <3>1. fwd'[q] = fwd[q] /\ bwd'[q] = bwd[q]
      BY <1>10, <2>1, <2>2
    <3> QED BY <1>3, <2>1, <2>2, <3>1
  <2>3. CASE q = p
    <3>1. CASE program[k].op \in Forward
      <4>1. fwd'[p] = Append(fwd[p], Messages(p)[k]) /\ bwd'[p] = bwd[p] /\ fwd'[p] \in Seq(Word)
        BY <1>10, <2>0, <2>1, <3>1
      <4>2. Carries(fwd'[p], Messages(p), Exchanged(done[NextOf(p)], k, Forward))
        BY <1>3, <1>18, <1>19, <2>1, <2>3, <3>1, <4>1
      <4>3. Carries(bwd'[p], Messages(p), Exchanged(done[PrevOf(p)], k, Backward))
        BY <1>3, <1>19, <1>20, <2>1, <2>3, <3>1, <4>1
      <4> QED BY <1>3, <2>1, <2>3, <4>1, <4>2, <4>3
    <3>2. CASE program[k].op \in Backward
      <4>1. bwd'[p] = Append(bwd[p], Messages(p)[k]) /\ fwd'[p] = fwd[p] /\ bwd'[p] \in Seq(Word)
        BY <1>10, <1>20, <2>0, <2>1, <3>2
      <4>2. Carries(fwd'[p], Messages(p), Exchanged(done[NextOf(p)], k, Forward))
        BY <1>3, <1>19, <1>20, <2>1, <2>3, <3>2, <4>1
      <4>3. Carries(bwd'[p], Messages(p), Exchanged(done[PrevOf(p)], k, Backward))
        BY <1>3, <1>18, <1>19, <2>1, <2>3, <3>2, <4>1
      <4> QED BY <1>3, <2>1, <2>3, <4>1, <4>2, <4>3
    <3> QED BY <1>20, <3>1, <3>2
  <2> QED BY <2>2, <2>3
<1>22. Channels'
  <2>1. fwd' \in [Party -> Seq(Word)] /\ bwd' \in [Party -> Seq(Word)]
    BY <1>1, <1>10, <1>21 DEF Channels
  <2>2. ASSUME NEW q \in Party
        PROVE  /\ Carries(fwd'[q], Messages(q)', Exchanged(done[NextOf(q)], Sent(q), Forward)')
               /\ Carries(bwd'[q], Messages(q)', Exchanged(done[PrevOf(q)], Sent(q), Backward)')
    <3>1. /\ Exchanged(done[NextOf(q)], Sent(q), Forward)' = Exchanged(done[NextOf(q)], Sent(q)', Forward)
          /\ Exchanged(done[PrevOf(q)], Sent(q), Backward)' = Exchanged(done[PrevOf(q)], Sent(q)', Backward)
      BY <1>2 DEF Exchanged
    <3> QED BY <1>11, <1>21, <3>1
  <2> QED BY <2>1, <2>2 DEF Channels
<1> QED BY <1>11, <1>12, <1>14, <1>15, <1>16, <1>17, <1>22 DEF ShInv

LEMMA FinishHolds ==
    ASSUME ShInv, NEW p \in Party, Finish(p)
    PROVE  ShInv'
<1> DEFINE d == done[p]
           k == done[p] + 1
<1>1. Programs /\ Values /\ Progress /\ Results /\ MatchesLockstep /\ Masks /\ Channels /\ Received
  BY DEF ShInv
<1>2. /\ UNCHANGED <<program, streams, expected, plain, mShareGenIdx, mShareIdx>>
      /\ started' = [started EXCEPT ![p] = FALSE] /\ done' = [done EXCEPT ![p] = @ + 1]
      /\ started[p]
  BY DEF Finish, gen, ghost
<1>3. /\ Len(program) \in Nat /\ d \in Nat /\ k \in 1..Len(program) /\ program[k].op \notin Local
      /\ Sent(p) = k /\ done'[p] = k
      /\ \A q \in Party : q # p => done'[q] = done[q] /\ started'[q] = started[q]
      /\ \A q \in Party : Sent(q)' = Sent(q) /\ Sent(q) \in Nat /\ done[q] \in Nat /\ done'[q] \in Nat
  BY <1>1, <1>2 DEF Programs, Progress, Sent
<1>4. \A i \in 1..(k - 1) : reg[p][i] = expected[i][p]
  BY <1>1, <1>3 DEF MatchesLockstep
<1>5. /\ program[k].op \in Forward \/ program[k].op \in Backward
      /\ ~ (program[k].op \in Forward /\ program[k].op \in Backward)
  BY <1>1, <1>3, OperationFacts DEF Forward, Backward, Local
<1>6. /\ PrevOf(p) \in Party /\ NextOf(p) \in Party
      /\ NextOf(PrevOf(p)) = p /\ PrevOf(NextOf(p)) = p
      /\ fwd[PrevOf(p)] \in Seq(Word) /\ bwd[NextOf(p)] \in Seq(Word)
      /\ Carries(fwd[PrevOf(p)], Messages(PrevOf(p)), Exchanged(d, Sent(PrevOf(p)), Forward))
      /\ Carries(bwd[NextOf(p)], Messages(NextOf(p)), Exchanged(d, Sent(NextOf(p)), Backward))
  BY <1>1, Ring DEF Channels
\* The message in front is the one of the operation that the party is in.
<1>7. ASSUME NEW chan \in Seq(Word), chan # <<>>, NEW q \in Party, NEW kinds, program[k].op \in kinds,
             Carries(chan, Messages(q), Exchanged(d, Sent(q), kinds))
      PROVE  /\ Head(chan) = Message(q, k) /\ k <= Sent(q)
             /\ Carries(Tail(chan), Messages(q), Exchanged(k, Sent(q), kinds))
  <2>1. PICK n \in Exchanged(d, Sent(q), kinds) :
               /\ n \in Nat /\ \A s \in Exchanged(d, Sent(q), kinds) : n <= s
               /\ Head(chan) = Messages(q)[n]
               /\ Carries(Tail(chan), Messages(q), Exchanged(d, Sent(q), kinds) \ {n})
    BY <1>7, CarriesReceived
  <2>2. d < n /\ n <= Sent(q)
    BY <2>1 DEF Exchanged
  <2>3. k \in Exchanged(d, Sent(q), kinds) /\ k <= Sent(q)
    BY <1>3, <1>7, <2>1, <2>2 DEF Exchanged
  <2>4. n = k
    BY <1>3, <2>1, <2>2, <2>3
  <2>5. Messages(q)[k] = Message(q, k)
    BY <1>3 DEF Messages
  <2>6. Exchanged(k, Sent(q), kinds) = Exchanged(d, Sent(q), kinds) \ {k}
    BY <1>3 DEF Exchanged
  <2> QED BY <2>1, <2>3, <2>4, <2>5, <2>6
<1>8. reg[p][k] = HalfOf(p, k) /\ HalfOf(p, k) \in Pair
  BY <1>1, <1>2, <1>3, PartTypes DEF Results
<1>9. /\ program[k].op \in Forward =>
             /\ fwd[PrevOf(p)] # <<>> /\ bwd' = bwd
             /\ fwd' = [fwd EXCEPT ![PrevOf(p)] = Tail(@)]
             /\ reg' = [reg EXCEPT ![p][k] =
                            Complete(program[k], reg[p], reg[p][k], Head(fwd[PrevOf(p)]))]
      /\ program[k].op \in Backward =>
             /\ bwd[NextOf(p)] # <<>> /\ fwd' = fwd
             /\ bwd' = [bwd EXCEPT ![NextOf(p)] = Tail(@)]
             /\ reg' = [reg EXCEPT ![p][k] =
                            Complete(program[k], reg[p], reg[p][k], Head(bwd[NextOf(p)]))]
  BY <1>5 DEF Finish, Current
<1>10. /\ program[k].op \in Forward => Head(fwd[PrevOf(p)]) = Message(PrevOf(p), k)
                                       /\ k <= Sent(PrevOf(p))
                                       /\ Carries(Tail(fwd[PrevOf(p)]), Messages(PrevOf(p)),
                                                  Exchanged(k, Sent(PrevOf(p)), Forward))
       /\ program[k].op \in Backward => Head(bwd[NextOf(p)]) = Message(NextOf(p), k)
                                        /\ k <= Sent(NextOf(p))
                                        /\ Carries(Tail(bwd[NextOf(p)]), Messages(NextOf(p)),
                                                   Exchanged(k, Sent(NextOf(p)), Backward))
  <2>1. ASSUME program[k].op \in Forward
        PROVE  Head(fwd[PrevOf(p)]) = Message(PrevOf(p), k)
               /\ k <= Sent(PrevOf(p))
               /\ Carries(Tail(fwd[PrevOf(p)]), Messages(PrevOf(p)), Exchanged(k, Sent(PrevOf(p)), Forward))
    BY <1>6, <1>7, <1>9, <2>1
  <2>2. ASSUME program[k].op \in Backward
        PROVE  Head(bwd[NextOf(p)]) = Message(NextOf(p), k)
               /\ k <= Sent(NextOf(p))
               /\ Carries(Tail(bwd[NextOf(p)]), Messages(NextOf(p)), Exchanged(k, Sent(NextOf(p)), Backward))
    BY <1>6, <1>7, <1>9, <2>2
  <2> QED BY <2>1, <2>2
<1>11. reg' = [reg EXCEPT ![p][k] = expected[k][p]]
  <2>1. /\ program[k].op \in Forward =>
               Complete(program[k], reg[p], HalfOf(p, k), Message(PrevOf(p), k)) = expected[k][p]
        /\ program[k].op \in Backward =>
               Complete(program[k], reg[p], HalfOf(p, k), Message(NextOf(p), k)) = expected[k][p]
    <3>1. Programs /\ k \in 1..Len(program)
      BY <1>1, <1>3
    <3> HIDE DEF k
    <3> QED BY <1>4, <3>1, FinishesRight
  <2> QED BY <1>5, <1>8, <1>9, <1>10, <2>1
<1>12. /\ reg' \in [Party -> Seq(Pair)]
       /\ \A q \in Party : Len(reg'[q]) = Sent(q)
       /\ reg'[p][k] = expected[k][p]
       /\ \A i \in 1..d : reg'[p][i] = reg[p][i]
       /\ \A q \in Party : q # p => reg'[q] = reg[q]
  <2>1. reg \in [Party -> Seq(Pair)] /\ expected[k][p] \in Pair
        /\ \A q \in Party : Len(reg[q]) = Sent(q)
    BY <1>1, <1>3, PartTypes DEF Results
  <2>2. /\ reg' = [reg EXCEPT ![p] = [reg[p] EXCEPT ![k] = expected[k][p]]]
        /\ reg[p] \in Seq(Pair) /\ Len(reg[p]) = k /\ k \in 1..Len(reg[p])
    BY <1>3, <1>11, <2>1
  <2>3. LET s == [reg[p] EXCEPT ![k] = expected[k][p]]
        IN  s \in Seq(Pair) /\ Len(s) = k /\ s[k] = expected[k][p] /\ \A i \in 1..d : s[i] = reg[p][i]
    BY <1>3, <2>1, <2>2
  <2> QED BY <1>3, <2>1, <2>2, <2>3
<1>13. /\ Programs' /\ Values' /\ Shares' = Shares
       /\ \A q : Messages(q)' = Messages(q)
       /\ \A q, i : HalfOf(q, i)' = HalfOf(q, i)
       /\ \A from, to, kinds : Exchanged(from, to, kinds)' = Exchanged(from, to, kinds)
  BY <1>1, <1>2, SameProgram
<1>14. Progress'
  <2>1. done' \in [Party -> Nat] /\ started' \in [Party -> BOOLEAN]
    BY <1>1, <1>2 DEF Progress
  <2>2. ASSUME NEW q \in Party
        PROVE  Sent(q)' <= Len(program) /\ (started'[q] => program[done'[q] + 1].op \notin Local)
    BY <1>1, <1>2, <1>3 DEF Progress
  <2> QED BY <1>2, <2>1, <2>2 DEF Progress
<1>15. Results'
  <2>1. ASSUME NEW q \in Party
        PROVE  /\ Len(reg'[q]) = Sent(q)'
               /\ started'[q] => reg'[q][done'[q] + 1] = HalfOf(q, done[q] + 1)'
    <3>1. Len(reg'[q]) = Sent(q)'
      BY <1>3, <1>12
    <3>2. ASSUME started'[q] PROVE reg'[q][done'[q] + 1] = HalfOf(q, done[q] + 1)'
      <4>1. q # p /\ started[q] /\ done'[q] = done[q] /\ reg'[q] = reg[q]
        BY <1>1, <1>2, <1>3, <1>12, <3>2 DEF Progress
      <4>2. reg[q][done[q] + 1] = HalfOf(q, done[q] + 1)
        BY <1>1, <4>1 DEF Results
      <4>3. HalfOf(q, done[q] + 1)' = HalfOf(q, done[q] + 1)
        BY <1>2, <4>1 DEF HalfOf
      <4> QED BY <4>1, <4>2, <4>3
    <3> QED BY <3>1, <3>2
  <2> QED BY <1>12, <2>1 DEF Results
<1>16. MatchesLockstep'
  <2>1. ASSUME NEW q \in Party, NEW i \in 1..done'[q] PROVE reg'[q][i] = expected[i][q]
    <3>1. CASE q # p
      BY <1>1, <1>3, <1>12, <2>1, <3>1 DEF MatchesLockstep
    <3>2. CASE q = p
      <4>1. i \in 1..d \/ i = k
        BY <1>3, <2>1, <3>2
      <4> QED BY <1>3, <1>4, <1>12, <3>2, <4>1
    <3> QED BY <3>1, <3>2
  <2> QED BY <1>2, <2>1 DEF MatchesLockstep
<1>17. Masks'
  BY <1>1, <1>2, <1>3, <1>13 DEF Masks
<1>18. Received'
  <2>1. ASSUME NEW q \in Party, NEW i \in 1..done'[q]
        PROVE  /\ program[i].op \in Forward  => i <= Sent(PrevOf(q))
               /\ program[i].op \in Backward => i <= Sent(NextOf(q))
    <3>1. CASE i \in 1..done[q]
      BY <1>1, <3>1 DEF Received
    <3>2. CASE i \notin 1..done[q]
      <4>1. q = p /\ i = k
        BY <1>3, <2>1, <3>2
      <4> QED BY <1>10, <4>1
    <3> QED BY <3>1, <3>2
  <2>2. \A q \in Party : Sent(PrevOf(q))' = Sent(PrevOf(q)) /\ Sent(NextOf(q))' = Sent(NextOf(q))
    BY <1>3, Ring
  <2> QED BY <1>2, <2>1, <2>2 DEF Received
<1>19. \A to \in Nat : \A kinds : program[k].op \notin kinds => Exchanged(k, to, kinds) = Exchanged(d, to, kinds)
  BY <1>3, ExchangedStep
<1>20. ASSUME NEW q \in Party
       PROVE  /\ fwd'[q] \in Seq(Word)
              /\ Carries(fwd'[q], Messages(q), Exchanged(done'[NextOf(q)], Sent(q), Forward))
  <2>1. /\ fwd \in [Party -> Seq(Word)] /\ fwd[q] \in Seq(Word)
        /\ Carries(fwd[q], Messages(q), Exchanged(done[NextOf(q)], Sent(q), Forward))
        /\ NextOf(q) \in Party /\ PrevOf(NextOf(q)) = q
    BY <1>1, Ring DEF Channels
  <2>2. CASE q # PrevOf(p)
    <3>1. fwd'[q] = fwd[q] /\ NextOf(q) # p
      BY <1>5, <1>9, <2>1, <2>2
    <3> QED BY <1>3, <2>1, <3>1
  <2>3. CASE q = PrevOf(p)
    <3>1. done'[NextOf(q)] = k /\ done[NextOf(q)] = d /\ Sent(q) \in Nat
      BY <1>3, <1>6, <2>3
    <3>2. CASE program[k].op \in Forward
      <4>1. fwd'[q] = Tail(fwd[q]) /\ fwd[q] # <<>>
        BY <1>9, <2>1, <2>3, <3>2
      <4>2. Tail(fwd[q]) \in Seq(Word)
        BY <2>1, <4>1
      <4> QED BY <1>10, <2>3, <3>1, <3>2, <4>1, <4>2
    <3>3. CASE program[k].op \in Backward
      <4>1. fwd'[q] = fwd[q] /\ program[k].op \notin Forward
        BY <1>5, <1>9, <3>3
      <4> QED BY <1>19, <2>1, <3>1, <4>1
    <3> QED BY <1>5, <3>2, <3>3
  <2> QED BY <2>2, <2>3
<1>21. ASSUME NEW q \in Party
       PROVE  /\ bwd'[q] \in Seq(Word)
              /\ Carries(bwd'[q], Messages(q), Exchanged(done'[PrevOf(q)], Sent(q), Backward))
  <2>1. /\ bwd \in [Party -> Seq(Word)] /\ bwd[q] \in Seq(Word)
        /\ Carries(bwd[q], Messages(q), Exchanged(done[PrevOf(q)], Sent(q), Backward))
        /\ PrevOf(q) \in Party /\ NextOf(PrevOf(q)) = q
    BY <1>1, Ring DEF Channels
  <2>2. CASE q # NextOf(p)
    <3>1. bwd'[q] = bwd[q] /\ PrevOf(q) # p
      BY <1>5, <1>9, <2>1, <2>2
    <3> QED BY <1>3, <2>1, <3>1
  <2>3. CASE q = NextOf(p)
    <3>1. done'[PrevOf(q)] = k /\ done[PrevOf(q)] = d /\ Sent(q) \in Nat
      BY <1>3, <1>6, <2>3
    <3>2. CASE program[k].op \in Backward
      <4>1. bwd'[q] = Tail(bwd[q]) /\ bwd[q] # <<>>
        BY <1>9, <2>1, <2>3, <3>2
      <4>2. Tail(bwd[q]) \in Seq(Word)
        BY <2>1, <4>1
      <4> QED BY <1>10, <2>3, <3>1, <3>2, <4>1, <4>2
    <3>3. CASE program[k].op \in Forward
      <4>1. bwd'[q] = bwd[q] /\ program[k].op \notin Backward
        BY <1>5, <1>9, <3>3
      <4> QED BY <1>19, <2>1, <3>1, <4>1
    <3> QED BY <1>5, <3>2, <3>3
  <2> QED BY <2>2, <2>3
<1>22. Channels'
  <2>1. fwd' \in [Party -> Seq(Word)] /\ bwd' \in [Party -> Seq(Word)]
    BY <1>1, <1>5, <1>9, <1>20, <1>21 DEF Channels
  <2>2. ASSUME NEW q \in Party
        PROVE  /\ Carries(fwd'[q], Messages(q)', Exchanged(done[NextOf(q)], Sent(q), Forward)')
               /\ Carries(bwd'[q], Messages(q)', Exchanged(done[PrevOf(q)], Sent(q), Backward)')
    <3>1. /\ Exchanged(done[NextOf(q)], Sent(q), Forward)' = Exchanged(done'[NextOf(q)], Sent(q), Forward)
          /\ Exchanged(done[PrevOf(q)], Sent(q), Backward)' = Exchanged(done'[PrevOf(q)], Sent(q), Backward)
      BY <1>2, <1>3 DEF Exchanged
    <3> QED BY <1>13, <1>20, <1>21, <3>1
  <2> QED BY <2>1, <2>2 DEF Channels
<1> QED BY <1>13, <1>14, <1>15, <1>16, <1>17, <1>18, <1>22 DEF ShInv

LEMMA ComputeHolds ==
    ASSUME ShInv, NEW p \in Party, Compute(p)
    PROVE  ShInv'
<1> DEFINE d == done[p]
           k == done[p] + 1
<1>1. Programs /\ Values /\ Progress /\ Results /\ MatchesLockstep /\ Masks /\ Channels /\ Received
  BY DEF ShInv
<1>2. /\ UNCHANGED <<program, started, fwd, bwd, streams, expected, plain, mShareGenIdx, mShareIdx>>
      /\ done' = [done EXCEPT ![p] = @ + 1]
      /\ reg' = [reg EXCEPT ![p] = Append(@, Half(p, program[k], reg[p], Zero))]
      /\ d < Len(program) /\ program[k].op \in Local
  BY DEF Compute, Current, gen, ghost
<1>3. /\ Len(program) \in Nat /\ d \in Nat /\ k \in 1..Len(program) /\ ~started[p]
      /\ Sent(p) = d /\ Sent(p)' = k /\ done'[p] = k
      /\ \A q \in Party : q # p => done'[q] = done[q] /\ Sent(q)' = Sent(q)
      /\ \A q \in Party : /\ Sent(q) \in Nat /\ done[q] \in Nat /\ done'[q] \in Nat
                          /\ Sent(q)' \in Nat /\ Sent(q) <= Sent(q)'
  BY <1>1, <1>2 DEF Programs, Progress, Sent
<1>4. \A i \in 1..(k - 1) : reg[p][i] = expected[i][p]
  BY <1>1, <1>3 DEF MatchesLockstep
<1>5. program[k].op \notin Forward /\ program[k].op \notin Backward /\ program[k].op # "share"
  BY <1>2 DEF Local, Forward, Backward
<1>6. Half(p, program[k], reg[p], Zero) = expected[k][p] /\ expected[k][p] \in Pair
  <2>1. Programs /\ k \in 1..Len(program) /\ program[k].op \in Local
    BY <1>1, <1>2, <1>3
  <2>2. program[k].op = "share" => Zero = ZeroShare(p, streams[Count(Shares, k)])
    BY <1>5
  <2> HIDE DEF k
  <2>3. Half(p, program[k], reg[p], Zero) = expected[k][p]
    BY <1>4, <2>1, <2>2, StartsRight
  <2> QED BY <2>1, <2>3, PartTypes
<1>7. /\ Programs' /\ Values' /\ Shares' = Shares
      /\ \A q : Messages(q)' = Messages(q)
      /\ \A q, i : HalfOf(q, i)' = HalfOf(q, i)
      /\ \A from, to, kinds : Exchanged(from, to, kinds)' = Exchanged(from, to, kinds)
  BY <1>1, <1>2, SameProgram
<1>8. Progress'
  <2>1. done' \in [Party -> Nat]
    BY <1>1, <1>2 DEF Progress
  <2>2. ASSUME NEW q \in Party
        PROVE  Sent(q)' <= Len(program) /\ (started[q] => program[done'[q] + 1].op \notin Local)
    BY <1>1, <1>2, <1>3 DEF Progress
  <2> QED BY <1>1, <1>2, <2>1, <2>2 DEF Progress
<1>9. /\ reg' \in [Party -> Seq(Pair)]
      /\ Len(reg'[p]) = k /\ reg'[p][k] = expected[k][p]
      /\ \A i \in 1..d : reg'[p][i] = reg[p][i]
      /\ \A q \in Party : q # p => reg'[q] = reg[q]
  BY <1>1, <1>2, <1>3, <1>6 DEF Results
<1>10. Results'
  <2>1. ASSUME NEW q \in Party
        PROVE  /\ Len(reg'[q]) = Sent(q)'
               /\ started'[q] => reg'[q][done'[q] + 1] = HalfOf(q, done[q] + 1)'
    <3>1. Len(reg'[q]) = Sent(q)'
      BY <1>1, <1>3, <1>9 DEF Results
    <3>2. ASSUME started'[q] PROVE reg'[q][done'[q] + 1] = HalfOf(q, done[q] + 1)'
      <4>1. q # p /\ started[q] /\ done'[q] = done[q] /\ reg'[q] = reg[q]
        BY <1>2, <1>3, <1>9, <3>2
      <4>2. reg[q][done[q] + 1] = HalfOf(q, done[q] + 1)
        BY <1>1, <4>1 DEF Results
      <4>3. HalfOf(q, done[q] + 1)' = HalfOf(q, done[q] + 1)
        BY <1>2, <4>1 DEF HalfOf
      <4> QED BY <4>1, <4>2, <4>3
    <3> QED BY <3>1, <3>2
  <2> QED BY <1>9, <2>1 DEF Results
<1>11. MatchesLockstep'
  <2>1. ASSUME NEW q \in Party, NEW i \in 1..done'[q] PROVE reg'[q][i] = expected[i][q]
    <3>1. CASE q # p
      BY <1>1, <1>3, <1>9, <2>1, <3>1 DEF MatchesLockstep
    <3>2. CASE q = p
      <4>1. i \in 1..d \/ i = k
        BY <1>3, <2>1, <3>2
      <4> QED BY <1>3, <1>4, <1>9, <3>2, <4>1
    <3> QED BY <3>1, <3>2
  <2> QED BY <1>2, <2>1 DEF MatchesLockstep
<1>12. Masks'
  <2>1. Count(Shares, k) = Count(Shares, d)
    <3>1. k \notin Shares
      BY <1>5 DEF Shares
    <3> QED BY <1>3, <3>1, CountStep
  <2>2. ASSUME NEW q \in Party
        PROVE  mShareGenIdx[q] + mShareIdx[q] = BuffSize + Count(Shares, Sent(q)')
    <3>1. mShareGenIdx[q] + mShareIdx[q] = BuffSize + Count(Shares, Sent(q))
      BY <1>1 DEF Masks
    <3>2. Count(Shares, Sent(q)') = Count(Shares, Sent(q))
      BY <1>3, <2>1
    <3> QED BY <3>1, <3>2
  <2> QED BY <1>1, <1>2, <1>7, <2>2 DEF Masks
<1>13. Received'
  <2>1. ASSUME NEW q \in Party, NEW i \in 1..done'[q]
        PROVE  /\ program[i].op \in Forward  => i <= Sent(PrevOf(q))
               /\ program[i].op \in Backward => i <= Sent(NextOf(q))
    <3>1. CASE i \in 1..done[q]
      BY <1>1, <3>1 DEF Received
    <3>2. CASE i \notin 1..done[q]
      <4>1. q = p /\ i = k
        BY <1>3, <2>1, <3>2
      <4> QED BY <1>5, <4>1
    <3> QED BY <3>1, <3>2
  <2>2. \A q \in Party : /\ Sent(PrevOf(q)) <= Sent(PrevOf(q))' /\ Sent(NextOf(q)) <= Sent(NextOf(q))'
                         /\ Sent(PrevOf(q)) \in Nat /\ Sent(NextOf(q)) \in Nat
                         /\ Sent(PrevOf(q))' \in Nat /\ Sent(NextOf(q))' \in Nat
    BY <1>3, Ring
  <2>3. ASSUME NEW q \in Party, NEW i \in 1..done'[q]
        PROVE  /\ program[i].op \in Forward  => i <= Sent(PrevOf(q))'
               /\ program[i].op \in Backward => i <= Sent(NextOf(q))'
    <3>1. i \in Nat
      BY <1>3
    <3> QED BY <2>1, <2>2, <2>3, <3>1
  <2> QED BY <1>2, <2>3 DEF Received
<1>14. ASSUME NEW kinds, program[k].op \notin kinds, NEW from \in Nat, NEW to \in Nat
       PROVE  /\ Exchanged(from, k, kinds) = Exchanged(from, d, kinds)
              /\ Exchanged(k, to, kinds) = Exchanged(d, to, kinds)
  BY <1>3, <1>14, ExchangedStep
<1>15. ASSUME NEW q \in Party
       PROVE  /\ Exchanged(done'[NextOf(q)], Sent(q)', Forward) = Exchanged(done[NextOf(q)], Sent(q), Forward)
              /\ Exchanged(done'[PrevOf(q)], Sent(q)', Backward) = Exchanged(done[PrevOf(q)], Sent(q), Backward)
  <2>1. NextOf(q) \in Party /\ PrevOf(q) \in Party /\ NextOf(q) # q /\ PrevOf(q) # q
        /\ done[NextOf(q)] \in Nat /\ done[PrevOf(q)] \in Nat /\ Sent(q) \in Nat
    BY <1>3, Ring
  <2>2. CASE q = p
    <3>1. done'[NextOf(q)] = done[NextOf(q)] /\ done'[PrevOf(q)] = done[PrevOf(q)]
          /\ Sent(q)' = k /\ Sent(q) = d
      BY <1>3, <2>1, <2>2
    <3> QED BY <1>5, <1>14, <2>1, <3>1
  <2>3. CASE q # p
    <3>1. Sent(q)' = Sent(q)
      BY <1>3, <2>3
    <3>2. \/ done'[NextOf(q)] = done[NextOf(q)]
          \/ done'[NextOf(q)] = k /\ done[NextOf(q)] = d
      BY <1>3, <2>1
    <3>3. \/ done'[PrevOf(q)] = done[PrevOf(q)]
          \/ done'[PrevOf(q)] = k /\ done[PrevOf(q)] = d
      BY <1>3, <2>1
    <3> QED BY <1>5, <1>14, <2>1, <3>1, <3>2, <3>3
  <2> QED BY <2>2, <2>3
<1>16. Channels'
  <2>1. ASSUME NEW q \in Party
        PROVE  /\ Carries(fwd[q], Messages(q)', Exchanged(done[NextOf(q)], Sent(q), Forward)')
               /\ Carries(bwd[q], Messages(q)', Exchanged(done[PrevOf(q)], Sent(q), Backward)')
    <3>1. /\ Exchanged(done[NextOf(q)], Sent(q), Forward)' = Exchanged(done'[NextOf(q)], Sent(q)', Forward)
          /\ Exchanged(done[PrevOf(q)], Sent(q), Backward)' = Exchanged(done'[PrevOf(q)], Sent(q)', Backward)
      BY <1>2 DEF Exchanged
    <3>2. /\ Carries(fwd[q], Messages(q), Exchanged(done[NextOf(q)], Sent(q), Forward))
          /\ Carries(bwd[q], Messages(q), Exchanged(done[PrevOf(q)], Sent(q), Backward))
      BY <1>1 DEF Channels
    <3> QED BY <1>7, <1>15, <3>1, <3>2
  <2> QED BY <1>1, <1>2, <2>1 DEF Channels
<1> QED BY <1>7, <1>8, <1>10, <1>11, <1>12, <1>13, <1>16 DEF ShInv

\* A step that changes nothing.
LEMMA StutterHolds ==
    ASSUME ShInv, UNCHANGED vars
    PROVE  ShInv'
<1>1. /\ UNCHANGED <<program, streams, expected, plain>>
      /\ UNCHANGED <<done, started, reg, fwd, bwd, mShareGenIdx, mShareIdx>>
  BY DEF vars, gen, ghost
<1>2. Programs' /\ Values' /\ Shares' = Shares
      /\ \A q : Messages(q)' = Messages(q)
  BY <1>1, SameProgram DEF ShInv
<1>3. Progress' /\ Results' /\ MatchesLockstep' /\ Masks' /\ Received'
  <2>1. Progress' /\ MatchesLockstep'
    BY <1>1 DEF ShInv, Progress, Sent, MatchesLockstep
  <2>2. Results'
    BY <1>1 DEF ShInv, Results, Sent, HalfOf
  <2>3. Masks'
    BY <1>1, <1>2 DEF ShInv, Masks, Sent
  <2>4. Received'
    BY <1>1 DEF ShInv, Received, Sent
  <2> QED BY <2>1, <2>2, <2>3, <2>4
<1>4. Channels'
  BY <1>1, <1>2 DEF ShInv, Channels, Sent, Exchanged
<1> QED BY <1>2, <1>3, <1>4 DEF ShInv

\* Every invariant above, in every reachable state.
THEOREM SharesInvariance == Spec => []ShInv
<1>1. Init => ShInv
  BY InitHolds
<1>2. ShInv /\ [Next]_vars => ShInv'
  <2> SUFFICES ASSUME ShInv, [Next]_vars PROVE ShInv'
    OBVIOUS
  <2>1. CASE \E op \in Ops, stream \in Streams : Extend(op, stream)
    BY <2>1, ExtendHolds
  <2>2. ASSUME NEW p \in Party, Step(p) PROVE ShInv'
    BY <2>2, StartHolds, FinishHolds, ComputeHolds DEF Step
  <2>3. CASE UNCHANGED vars
    BY <2>3, StutterHolds
  <2> QED BY <2>1, <2>2, <2>3 DEF Next
<1> QED BY <1>1, <1>2, PTL DEF Spec

-------------------------------------------------------------------------------
(* The theorems. *)

\* However fast each party is, and however full its buffer of masks, it computes
\* what it would in lockstep: no message and no mask is taken for another
\* operation's (Sh3Encryptor and Sh3Evaluator, whose messages carry no label).
THEOREM PartiesMatchLockstep == Spec => []MatchesLockstep
<1>1. ShInv => MatchesLockstep
  BY DEF ShInv
<1> QED BY <1>1, SharesInvariance, PTL

\* A register that all parties have computed and that stands for a value is a
\* replicated sharing of the value that a trusted party would have computed.
THEOREM RegistersHoldValue == Spec => []SharesHoldValue
<1>1. ShInv => SharesHoldValue
  <2> SUFFICES ASSUME ShInv, NEW k \in 1..Len(program), Completed(k), NEW v \in plain[k]
               PROVE  Replicated(Register(k)) /\ ValueOf(Register(k)) = v
    BY DEF SharesHoldValue
  <2>1. \A p \in Party : reg[p][k] = expected[k][p]
    <3> TAKE p \in Party
    <3>1. k <= done[p] /\ done[p] \in Nat
      BY DEF Completed, ShInv, Progress
    <3>2. k \in 1..done[p]
      BY <3>1
    <3> QED BY <3>2 DEF ShInv, MatchesLockstep
  <2>2. expected[k] \in Sharing
    BY OperationFacts DEF ShInv
  <2>3. Register(k) = expected[k]
    BY <2>1, <2>2 DEF Register, Sharing
  <2> QED BY <2>3 DEF ShInv, Values
<1> QED BY <1>1, SharesInvariance, PTL

\* revealAll gives every party that has finished it the value.
THEOREM RevealsTellValue == Spec => []RevealsValue
<1>1. ShInv => RevealsValue
  <2> SUFFICES ASSUME ShInv, NEW p \in Party, NEW k \in 1..done[p], program[k].op = "reveal",
                      NEW v \in plain[program[k].a]
               PROVE  reg[p][k][0] = v
    BY DEF RevealsValue
  <2> DEFINE x == expected[program[k].a]
  <2>1. Programs /\ Values /\ MatchesLockstep /\ k \in 1..Len(program)
    <3>1. Programs /\ Values /\ MatchesLockstep /\ Len(program) \in Nat
      BY DEF ShInv, Programs
    <3>2. done[p] \in Nat /\ started[p] \in BOOLEAN /\ Sent(p) <= Len(program)
      BY DEF ShInv, Progress
    <3>3. done[p] <= Len(program)
      BY <3>1, <3>2 DEF Sent
    <3> QED BY <3>1, <3>2, <3>3
  <2>2. program[k].a \in 1..Len(program) /\ x \in Sharing
    <3>1. program[k].a \in 1..(k - 1) /\ x \in Sharing
      BY <2>1, OperationFacts
    <3> QED BY <2>1, <3>1
  <2>3. Replicated(x) /\ ValueOf(x) = v
    BY <2>1, <2>2 DEF Values
  <2>4. expected[k][p] = MkPair(RevealOp(x)[p], Zero)
    BY <2>1 DEF Programs, InLockstep
  <2>5. reg[p][k] = expected[k][p]
    BY <2>1 DEF MatchesLockstep
  <2>6. RevealOp(x)[p] = v
    BY <2>2, <2>3, RevealValue
  <2> QED BY <2>4, <2>5, <2>6, PairEdits
<1> QED BY <1>1, SharesInvariance, PTL

\* What a party that is ahead has finished beyond the next operation of another
\* party: at most one exchange, for the third party stands between them.
LEMMA AheadOfBehind ==
    ASSUME ShInv, NEW p \in Party, NEW q \in Party,
           NEW k \in 1..done[p], program[k].op \notin Local, k > done[q] + 1,
           NEW j \in 1..done[p], program[j].op \notin Local, j > k
    PROVE  FALSE
<1>1. /\ Programs /\ Progress /\ Received
      /\ \A s \in Party : done[s] \in Nat /\ Sent(s) \in Nat /\ Sent(s) <= done[s] + 1
      /\ k \in 1..Len(program) /\ j \in 1..Len(program)
  BY DEF ShInv, Progress, Sent, Programs
<1>2. p # q
  BY <1>1
<1>3. /\ program[k].op \in Forward \/ program[k].op \in Backward
      /\ program[j].op \in Forward \/ program[j].op \in Backward
  BY <1>1, OperationFacts
<1>4. PICK r \in Party : /\ r # p /\ r # q
                         /\ PrevOf(p) = q \/ PrevOf(p) = r
                         /\ NextOf(p) = q \/ NextOf(p) = r
                         /\ PrevOf(p) = r => PrevOf(r) = q
                         /\ NextOf(p) = r => NextOf(r) = q
  BY <1>2, Ring
<1>5. ASSUME NEW s \in Party, NEW i \in 1..done[s], program[i].op \notin Local,
             i = k \/ i = j
      PROVE  /\ program[i].op \in Forward  => i <= done[PrevOf(s)] + 1
             /\ program[i].op \in Backward => i <= done[NextOf(s)] + 1
  <2>1. /\ Sent(PrevOf(s)) \in Nat /\ done[PrevOf(s)] \in Nat
        /\ Sent(PrevOf(s)) <= done[PrevOf(s)] + 1
        /\ Sent(NextOf(s)) \in Nat /\ done[NextOf(s)] \in Nat
        /\ Sent(NextOf(s)) <= done[NextOf(s)] + 1
    BY <1>1, Ring
  <2>2. /\ program[i].op \in Forward  => i <= Sent(PrevOf(s))
        /\ program[i].op \in Backward => i <= Sent(NextOf(s))
    BY <1>1 DEF Received
  <2>3. i \in Nat
    BY <1>1, <1>5
  <2> QED BY <2>1, <2>2, <2>3
<1>6. j <= done[r] + 1
  <2>1. ~ (j <= done[q] + 1)
    BY <1>1
  <2>2. j <= done[PrevOf(p)] + 1 \/ j <= done[NextOf(p)] + 1
    BY <1>3, <1>5
  <2> QED BY <1>4, <2>1, <2>2
<1>7. k \in 1..done[r]
  BY <1>1, <1>6
<1>8. CASE program[k].op \in Forward
  <2>1. PrevOf(p) = r
    <3>1. k <= done[PrevOf(p)] + 1
      BY <1>5, <1>8
    <3> QED BY <1>1, <1>4, <3>1
  <2>2. k <= done[q] + 1
    BY <1>4, <1>5, <1>7, <1>8, <2>1
  <2> QED BY <1>1, <2>2
<1>9. CASE program[k].op \in Backward
  <2>1. NextOf(p) = r
    <3>1. k <= done[NextOf(p)] + 1
      BY <1>5, <1>9
    <3> QED BY <1>1, <1>4, <3>1
  <2>2. k <= done[q] + 1
    BY <1>4, <1>5, <1>7, <1>9, <2>1
  <2> QED BY <1>1, <2>2
<1> QED BY <1>3, <1>8, <1>9

LEMMA AtMostOneMore ==
    ASSUME NEW S, IsFiniteSet(S), NEW x
    PROVE  /\ IsFiniteSet(S \cup {x})
           /\ Cardinality(S) \in Nat /\ Cardinality(S \cup {x}) \in Nat
           /\ Cardinality(S \cup {x}) <= Cardinality(S) + 1
<1>1. /\ IsFiniteSet(S \cup {x})
      /\ Cardinality(S \cup {x}) = IF x \in S THEN Cardinality(S) ELSE Cardinality(S) + 1
  BY FS_AddElement
<1>2. Cardinality(S) \in Nat
  BY FS_CardinalityType
<1> QED BY <1>1, <1>2

\* No party gets more than two exchanges ahead of another: sending waits for
\* nobody, but each receive waits for a neighbour, whose own receives do.
THEOREM PartiesStayClose == Spec => []AtMostTwoAhead
<1>1. ShInv => AtMostTwoAhead
  <2> SUFFICES ASSUME ShInv, NEW p \in Party, NEW q \in Party
               PROVE  Exchanges(p) <= Exchanges(q) + 2
    BY DEF AtMostTwoAhead
  <2> DEFINE Of(n) == {k \in 1..n : program[k].op \notin Local}
             A == Of(done[q])
             far == {k \in Of(done[p]) : k > done[q] + 1}
  <2>1. done[p] \in Nat /\ done[q] \in Nat
    BY DEF ShInv, Progress
  <2>2. \E x \in Nat : far \subseteq {x}
    <3>1. ASSUME NEW x \in far, NEW y \in far PROVE x = y
      <4>1. x \in Nat /\ y \in Nat
        BY <2>1
      <4>2. ~ (x < y) /\ ~ (y < x)
        BY <3>1, AheadOfBehind
      <4> QED BY <4>1, <4>2
    <3>2. CASE far = {}
      BY <3>2
    <3>3. CASE far # {}
      <4>1. PICK x : x \in far
        BY <3>3
      <4>2. x \in Nat
        BY <2>1, <4>1
      <4> QED BY <3>1, <4>1, <4>2
    <3> QED BY <3>2, <3>3
  <2>3. PICK x \in Nat : far \subseteq {x}
    BY <2>2
  <2>4. Of(done[p]) \subseteq (A \cup {done[q] + 1}) \cup {x}
    BY <2>1, <2>3
  <2>5. IsFiniteSet(A) /\ Cardinality(A) \in Nat
    <3>1. IsFiniteSet(1..done[q])
      BY <2>1, FS_Interval
    <3>2. A \in SUBSET (1..done[q])
      OBVIOUS
    <3>3. IsFiniteSet(A)
      BY <3>1, <3>2, FS_Subset
    <3> QED BY <3>3, AtMostOneMore
  <2> HIDE DEF A
  <2>6. /\ IsFiniteSet((A \cup {done[q] + 1}) \cup {x})
        /\ Cardinality((A \cup {done[q] + 1}) \cup {x}) \in Nat
        /\ Cardinality((A \cup {done[q] + 1}) \cup {x}) <= Cardinality(A) + 2
    <3>1. /\ IsFiniteSet(A \cup {done[q] + 1}) /\ Cardinality(A \cup {done[q] + 1}) \in Nat
          /\ Cardinality(A \cup {done[q] + 1}) <= Cardinality(A) + 1
      BY <2>5, AtMostOneMore
    <3> DEFINE B == A \cup {done[q] + 1}
    <3> HIDE DEF B
    <3>2. IsFiniteSet(B \cup {x}) /\ Cardinality(B \cup {x}) \in Nat
          /\ Cardinality(B \cup {x}) <= Cardinality(B) + 1
      <4>1. IsFiniteSet(B) /\ Cardinality(B) \in Nat
        BY <3>1 DEF B
      <4> QED BY <4>1, AtMostOneMore
    <3> QED BY <2>5, <3>1, <3>2 DEF B
  <2>7. Cardinality(Of(done[p])) \in Nat
        /\ Cardinality(Of(done[p])) <= Cardinality((A \cup {done[q] + 1}) \cup {x})
    <3>1. Of(done[p]) \in SUBSET ((A \cup {done[q] + 1}) \cup {x})
      BY <2>4
    <3> HIDE DEF Of
    <3> QED BY <2>6, <3>1, FS_Subset, FS_CardinalityType
  <2>8. Exchanges(p) = Cardinality(Of(done[p])) /\ Exchanges(q) = Cardinality(A)
    BY DEF Exchanges, A
  <2> HIDE DEF Of
  <2> QED BY <2>5, <2>6, <2>7, <2>8
<1> QED BY <1>1, SharesInvariance, PTL
===============================================================================
