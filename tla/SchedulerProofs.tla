--------------------------- MODULE SchedulerProofs ----------------------------
(***************************************************************************)
(* Proofs about Scheduler and Sh3Runtime, for any number of tasks.  The    *)
(* runtime drives its scheduler by steps the scheduler's own specification *)
(* allows, so all that is shown of a scheduler holds of the runtime's.     *)
(* On top of it: its two tables agree, a function runs once and in a round *)
(* after those it waits for, an error is final, and runAll leaves nothing  *)
(* behind.                                                                 *)
(***************************************************************************)
EXTENDS Sh3Runtime, SequenceTheorems, TLAPS

Numbers == INSTANCE CommonLemmas WITH Bits <- {}

-------------------------------------------------------------------------------
(* Queues. *)

\* What appending a new element to a queue does to its set of elements.
LEMMA AppendRange ==
    ASSUME NEW S, NEW s \in Seq(S), NEW e \in S
    PROVE  /\ Append(s, e) \in Seq(S)
           /\ Range(Append(s, e)) = Range(s) \cup {e}
           /\ IsInjective(s) /\ e \notin Range(s) => IsInjective(Append(s, e))
<1>1. /\ DOMAIN Append(s, e) = 1..(Len(s) + 1)
      /\ \A k \in 1..Len(s) : Append(s, e)[k] = s[k]
      /\ Append(s, e)[Len(s) + 1] = e
      /\ DOMAIN s = 1..Len(s) /\ Len(s) \in Nat
  OBVIOUS
<1>2. Range(Append(s, e)) = Range(s) \cup {e}
  BY <1>1 DEF Range
<1>3. ASSUME IsInjective(s), e \notin Range(s) PROVE IsInjective(Append(s, e))
  BY <1>1, <1>3 DEF IsInjective, Range
<1> QED BY <1>2, <1>3

\* Appending leaves the front of a queue alone.
LEMMA AppendFront ==
    ASSUME NEW S, NEW s \in Seq(S), NEW e \in S, s # <<>>
    PROVE  Append(s, e) # <<>> /\ Head(Append(s, e)) = Head(s)
<1>1. Len(s) \in Nat \ {0} /\ Append(s, e)[1] = s[1] /\ Len(Append(s, e)) = Len(s) + 1
  BY EmptySeq
<1>2. Append(s, e) # <<>>
  BY <1>1
<1> QED BY <1>1, <1>2

\* What dropping the front of a queue does to its set of elements.
LEMMA TailRange ==
    ASSUME NEW S, NEW s \in Seq(S), s # <<>>, IsInjective(s)
    PROVE  /\ Head(s) \in Range(s)
           /\ Tail(s) \in Seq(S)
           /\ Range(Tail(s)) = Range(s) \ {Head(s)}
           /\ IsInjective(Tail(s))
<1>1. /\ Len(s) \in Nat \ {0} /\ DOMAIN s = 1..Len(s)
      /\ Tail(s) \in Seq(S) /\ DOMAIN Tail(s) = 1..(Len(s) - 1)
      /\ \A k \in 1..(Len(s) - 1) : Tail(s)[k] = s[k + 1]
      /\ Head(s) = s[1]
  BY EmptySeq, HeadTailProperties
<1>2. IsInjective(Tail(s))
  BY <1>1 DEF IsInjective
<1>3. Range(Tail(s)) \subseteq Range(s) \ {Head(s)}
  BY <1>1 DEF IsInjective, Range
<1>4. ASSUME NEW x \in Range(s), x # Head(s) PROVE x \in Range(Tail(s))
  <2>1. PICK k \in 1..Len(s) : s[k] = x
    BY <1>1 DEF Range
  <2>2. k - 1 \in 1..(Len(s) - 1) /\ Tail(s)[k - 1] = x
    BY <1>1, <1>4, <2>1
  <2> QED BY <1>1, <2>2 DEF Range
<1>5. Range(Tail(s)) = Range(s) \ {Head(s)}
  BY <1>3, <1>4
<1>6. Head(s) \in Range(s)
  BY <1>1 DEF Range
<1> QED BY <1>1, <1>2, <1>5, <1>6

\* What returning from the innermost call does to the stack.
LEMMA FrontRange ==
    ASSUME NEW S, NEW s \in Seq(S), s # <<>>, IsInjective(s)
    PROVE  LET f == SubSeq(s, 1, Len(s) - 1) IN
           /\ f \in Seq(S)
           /\ Len(f) = Len(s) - 1
           /\ \A k \in 1..Len(f) : f[k] = s[k]
           /\ Range(f) = Range(s) \ {s[Len(s)]}
           /\ s[Len(s)] \in Range(s)
           /\ IsInjective(f)
<1> DEFINE f == SubSeq(s, 1, Len(s) - 1)
<1>1. /\ Len(s) \in Nat \ {0} /\ DOMAIN s = 1..Len(s)
      /\ f \in Seq(S) /\ Len(f) = Len(s) - 1 /\ DOMAIN f = 1..(Len(s) - 1)
      /\ \A k \in 1..(Len(s) - 1) : f[k] = s[k]
  <2>1. Len(s) \in Nat \ {0} /\ DOMAIN s = 1..Len(s)
    BY EmptySeq
  <2>2. \A i \in 1..(Len(s) - 1) : s[i] \in S
    BY <2>1
  <2> QED BY <2>1, <2>2, SubSeqProperties
<1> HIDE DEF f
<1>2. IsInjective(f)
  BY <1>1 DEF IsInjective
<1>3. Range(f) \subseteq Range(s) \ {s[Len(s)]}
  BY <1>1 DEF IsInjective, Range
<1>4. ASSUME NEW x \in Range(s), x # s[Len(s)] PROVE x \in Range(f)
  <2>1. PICK k \in 1..Len(s) : s[k] = x
    BY <1>1 DEF Range
  <2>2. k \in 1..(Len(s) - 1) /\ f[k] = x
    BY <1>1, <1>4, <2>1
  <2> QED BY <1>1, <2>2 DEF Range
<1>5. Range(f) = Range(s) \ {s[Len(s)]} /\ s[Len(s)] \in Range(s)
  <2>1. Range(s) \ {s[Len(s)]} \subseteq Range(f)
    BY <1>4
  <2>2. s[Len(s)] \in Range(s)
    BY <1>1 DEF Range
  <2> QED BY <1>3, <2>1, <2>2
<1> QED BY <1>1, <1>2, <1>5 DEF f

\* x stands before y in the sequence.
Before(s, x, y) == \E m, n \in DOMAIN s : m < n /\ s[m] = x /\ s[n] = y

\* Appending keeps the order, and the new element comes after every other.
LEMMA AppendBefore ==
    ASSUME NEW S, NEW s \in Seq(S), NEW e \in S
    PROVE  /\ \A x, y : Before(s, x, y) => Before(Append(s, e), x, y)
           /\ \A x \in Range(s) : Before(Append(s, e), x, e)
<1>1. /\ DOMAIN Append(s, e) = 1..(Len(s) + 1)
      /\ \A k \in 1..Len(s) : Append(s, e)[k] = s[k]
      /\ Append(s, e)[Len(s) + 1] = e
      /\ DOMAIN s = 1..Len(s) /\ Len(s) \in Nat
  OBVIOUS
<1>2. \A x, y : Before(s, x, y) => Before(Append(s, e), x, y)
  BY <1>1 DEF Before
<1>3. ASSUME NEW x \in Range(s) PROVE Before(Append(s, e), x, e)
  <2>1. PICK k \in 1..Len(s) : s[k] = x
    BY <1>1 DEF Range
  <2>2. k < Len(s) + 1 /\ k \in 1..(Len(s) + 1) /\ Len(s) + 1 \in 1..(Len(s) + 1)
    BY <1>1
  <2> QED BY <1>1, <2>1, <2>2 DEF Before
<1> QED BY <1>2, <1>3

\* Nothing stands before the front, and dropping it keeps the order of the rest.
LEMMA TailBefore ==
    ASSUME NEW S, NEW s \in Seq(S), s # <<>>, IsInjective(s)
    PROVE  /\ \A x : ~ Before(s, x, Head(s))
           /\ \A x, y : Before(s, x, y) /\ x # Head(s) => Before(Tail(s), x, y)
<1>1. /\ Len(s) \in Nat \ {0} /\ DOMAIN s = 1..Len(s)
      /\ DOMAIN Tail(s) = 1..(Len(s) - 1)
      /\ \A k \in 1..(Len(s) - 1) : Tail(s)[k] = s[k + 1]
      /\ Head(s) = s[1]
  BY EmptySeq, HeadTailProperties
<1>2. ASSUME NEW x, Before(s, x, Head(s)) PROVE FALSE
  <2>1. PICK m, n \in 1..Len(s) : m < n /\ s[n] = s[1]
    BY <1>1, <1>2 DEF Before
  <2>2. n = 1
    BY <1>1, <2>1 DEF IsInjective
  <2> QED BY <2>1, <2>2
<1>3. ASSUME NEW x, NEW y, Before(s, x, y), x # Head(s) PROVE Before(Tail(s), x, y)
  <2>1. PICK m, n \in 1..Len(s) : m < n /\ s[m] = x /\ s[n] = y
    BY <1>1, <1>3 DEF Before
  <2>2. m # 1
    BY <1>1, <1>3, <2>1
  <2>3. m - 1 \in 1..(Len(s) - 1) /\ n - 1 \in 1..(Len(s) - 1) /\ m - 1 < n - 1
    BY <1>1, <2>1, <2>2
  <2>4. Tail(s)[m - 1] = x /\ Tail(s)[n - 1] = y
    BY <1>1, <2>1, <2>3
  <2> QED BY <1>1, <2>3, <2>4 DEF Before
<1> QED BY <1>2, <1>3

-------------------------------------------------------------------------------
(* What holds of the scheduler's tables. *)

\* Every edge is recorded at both of its ends, leads from a live entry to a
\* live entry, and for scheduled tasks from a smaller index to a larger one.
Edges ==
    /\ \A i \in Ids \ mTasks : mDownstream[i] = {} /\ mClosures[i] = {}
    /\ \A a, x \in Ids : a \in mUpstream[x] <=> x \in mDownstream[a] \cup mClosures[a]
    /\ \A a \in Ids : mDownstream[a] \subseteq mTasks \ closures
    /\ \A a \in Ids : mClosures[a] \subseteq mTasks \cap closures
    /\ \A x \in mTasks \ closures : \A a \in mUpstream[x] : a < x

\* The stack of removals: the front of the queue, then the closures that it
\* was the last to hold back.
Stack ==
    /\ IsInjective(removing)
    /\ \A i \in Leaving : i \in mTasks /\ mUpstream[i] = {}
    /\ removing # <<>> => mReady # <<>> /\ removing[1] = Head(mReady)
    /\ \A k \in 2..Len(removing) : removing[k] \in closures
    /\ \A c \in mTasks \cap closures : mUpstream[c] = {} => c \in Leaving

\* What a task is held back by is what it waited for and is still there.
Waiting ==
    /\ \A i \in Ids : waits[i] \subseteq Handles
    /\ \A i \in mTasks \ closures :
          /\ mUpstream[i] \subseteq waits[i]
          /\ waits[i] \cap Pending \subseteq mUpstream[i]

\* A pending closure is held back by members of its family only, and every
\* live member holds it back, or is itself held back by another member, or has
\* already passed its closures on.
Families ==
    /\ \A c \in Ids : family[c] \subseteq Handles
    /\ \A c \in Ids \ closures : family[c] = {}
    /\ \A c \in mTasks \cap closures : mUpstream[c] \subseteq family[c]
    /\ \A c \in mTasks \cap closures : \A a \in family[c] : mDownstream[a] \subseteq family[c]
    /\ \A c \in Pending \cap closures : \A i \in family[c] \cap mTasks :
          \/ i \in Leaving /\ mDownstream[i] = {}
          \/ i \in mUpstream[c]
          \/ i \notin closures /\ mUpstream[i] \cap family[c] # {}

IInv == TypeOK /\ Edges /\ Stack /\ QueuedOnce /\ Waiting /\ Families /\ ClosureAfterFamily

-------------------------------------------------------------------------------
(* The initial state, and every action, establish the invariant. *)

LEMMA InitIInv == Init => IInv
<1> SUFFICES ASSUME Init PROVE IInv
  OBVIOUS
<1> USE MaxTasksAssumption
<1>1. Leaving = {} /\ Range(mReady) = {} /\ Range(mNextRound) = {}
  BY DEF Init, Leaving, Range
<1>2. TypeOK
  BY DEF Init, TypeOK, Type, Ids, Handles
<1>3. Edges
  BY DEF Init, Edges
<1>4. Stack
  BY <1>1 DEF Init, Stack, IsInjective
<1>5. QueuedOnce
  BY <1>1 DEF Init, QueuedOnce, IsInjective
<1>6. Waiting /\ Families /\ ClosureAfterFamily
  BY <1>1 DEF Init, Waiting, Families, ClosureAfterFamily, Pending
<1> QED BY <1>2, <1>3, <1>4, <1>5, <1>6 DEF IInv

LEMMA LiveIds ==
    ASSUME TypeOK
    PROVE  mTasks \subseteq Ids /\ closures \subseteq Ids /\ Handles \subseteq Ids
BY MaxTasksAssumption DEF TypeOK, Handles, Ids

\* Between two calls nothing is leaving, and the next index is fresh.
LEMMA Quiet ==
    ASSUME IInv, removing = <<>>, mTaskIdx < MaxTasks
    PROVE  /\ Leaving = {} /\ Pending = mTasks
           /\ mTaskIdx \in Ids /\ mTaskIdx \notin mTasks /\ mTaskIdx \notin closures
           /\ mTasks \subseteq Ids /\ closures \subseteq Ids
           /\ \A i \in mTasks : i \in Nat /\ i < mTaskIdx
           /\ \A a \in Ids : mTaskIdx \notin mDownstream[a] /\ mTaskIdx \notin mClosures[a]
           /\ mDownstream[mTaskIdx] = {} /\ mClosures[mTaskIdx] = {}
           /\ mUpstream[mTaskIdx] = {}
           /\ \A x \in Ids : mTaskIdx \notin mUpstream[x]
           /\ \A c \in Ids : mTaskIdx \notin family[c]
<1> USE MaxTasksAssumption DEF IInv, TypeOK, Handles, Ids
<1>1. Leaving = {} /\ Pending = mTasks
  BY DEF Leaving, Pending, Range
<1>2. /\ mTaskIdx \in Ids /\ mTaskIdx \notin mTasks /\ mTaskIdx \notin closures
      /\ mTasks \subseteq Ids /\ closures \subseteq Ids
      /\ \A i \in mTasks : i \in Nat /\ i < mTaskIdx
  OBVIOUS
<1>3. /\ \A a \in Ids : mTaskIdx \notin mDownstream[a] /\ mTaskIdx \notin mClosures[a]
      /\ mDownstream[mTaskIdx] = {} /\ mClosures[mTaskIdx] = {}
  BY <1>2 DEF Edges
<1>4. mUpstream[mTaskIdx] = {} /\ \A x \in Ids : mTaskIdx \notin mUpstream[x]
  BY <1>2, <1>3 DEF Edges
<1>5. \A c \in Ids : mTaskIdx \notin family[c]
  BY DEF Families
<1> QED BY <1>1, <1>2, <1>3, <1>4, <1>5

LEMMA AddTaskIInv ==
    ASSUME IInv, NEW type \in Type, NEW deps \in SUBSET Handles, AddTask(type, deps)
    PROVE  IInv'
<1> DEFINE idx  == mTaskIdx
           live == deps \cap mTasks
<1> USE MaxTasksAssumption
<1>0. /\ removing = <<>> /\ mTaskIdx < MaxTasks
      /\ mTasks' = mTasks \cup {idx}
      /\ mType' = [mType EXCEPT ![idx] = type]
      /\ mUpstream' = [mUpstream EXCEPT ![idx] = live]
      /\ mDownstream' = [a \in Ids |-> IF a \in live THEN mDownstream[a] \cup {idx}
                                                     ELSE mDownstream[a]]
      /\ mReady' = IF live = {} THEN Append(mReady, idx) ELSE mReady
      /\ waits' = [waits EXCEPT ![idx] = live]
      /\ family' = Adopt(family, mTasks, closures, idx, deps)
      /\ mTaskIdx' = mTaskIdx + 1
      /\ UNCHANGED <<mClosures, mNextRound, removing, closures>>
  BY DEF AddTask, TakeIndex
<1>1. TypeOK /\ Edges /\ Stack /\ QueuedOnce /\ Waiting /\ Families /\ ClosureAfterFamily
  BY DEF IInv
<1>2. /\ Leaving = {} /\ Pending = mTasks
      /\ idx \in Ids /\ idx \notin mTasks /\ idx \notin closures
      /\ mTasks \subseteq Ids /\ closures \subseteq Ids
      /\ \A i \in mTasks : i \in Nat /\ i < idx
      /\ \A a \in Ids : idx \notin mDownstream[a] /\ idx \notin mClosures[a]
      /\ mDownstream[idx] = {} /\ mClosures[idx] = {} /\ mUpstream[idx] = {}
      /\ \A x \in Ids : idx \notin mUpstream[x]
      /\ \A c \in Ids : idx \notin family[c]
  BY <1>0, <1>1, Quiet DEF IInv
<1>3. Leaving' = {} /\ Pending' = mTasks'
  BY <1>0, <1>2 DEF Leaving, Pending
<1>4. \A x \in Ids : mUpstream'[x] = IF x = idx THEN live ELSE mUpstream[x]
  BY <1>0, <1>1, <1>2 DEF TypeOK
<1>5. \A x \in Ids : waits'[x] = IF x = idx THEN live ELSE waits[x]
  BY <1>0, <1>1, <1>2 DEF TypeOK
<1>6. \A a \in Ids : mDownstream'[a] = IF a \in live THEN mDownstream[a] \cup {idx}
                                                    ELSE mDownstream[a]
  BY <1>0
<1>7. /\ DOMAIN family' = Ids
      /\ \A c \in Ids : family'[c] = IF c \in mTasks \cap closures /\ live \cap family[c] # {}
                                    THEN family[c] \cup {idx} ELSE family[c]
  <2>1. DOMAIN family = Ids
    BY <1>1 DEF TypeOK
  <2>2. family' = [c \in Ids |-> IF c \in mTasks \cap closures /\ live \cap family[c] # {}
                                THEN family[c] \cup {idx} ELSE family[c]]
    BY <1>0, <2>1 DEF Adopt
  <2> QED BY <2>2
<1>8. TypeOK'
  <2>1. mReady' \in Seq(Ids)
    BY <1>0, <1>1, <1>2, AppendRange DEF TypeOK
  <2>2. family' \in [Ids -> SUBSET Ids]
    <3>1. family' = [c \in Ids |-> IF c \in mTasks \cap closures /\ live \cap family[c] # {}
                                THEN family[c] \cup {idx} ELSE family[c]]
      BY <1>0, <1>1 DEF Adopt, TypeOK
    <3> QED BY <3>1, <1>1, <1>2 DEF TypeOK
  <2>3. mUpstream' \in [Ids -> SUBSET Ids] /\ mDownstream' \in [Ids -> SUBSET Ids]
        /\ waits' \in [Ids -> SUBSET Ids] /\ mType' \in [Ids -> Type]
    BY <1>0, <1>1, <1>2 DEF TypeOK
  <2>4. mTaskIdx' \in 0..MaxTasks /\ mTasks' \subseteq Handles' /\ closures' \subseteq Handles'
    BY <1>0, <1>1, <1>2 DEF TypeOK, Handles
  <2> QED BY <1>0, <1>1, <2>1, <2>2, <2>3, <2>4 DEF TypeOK
<1>9. Edges'
  <2>1. \A i \in Ids \ mTasks' : mDownstream'[i] = {} /\ mClosures'[i] = {}
    BY <1>0, <1>1, <1>2, <1>6 DEF Edges
  <2>2. \A a, x \in Ids : a \in mUpstream'[x] <=> x \in mDownstream'[a] \cup mClosures'[a]
    BY <1>0, <1>1, <1>2, <1>4, <1>6 DEF Edges
  <2>3. \A a \in Ids : mDownstream'[a] \subseteq mTasks' \ closures'
    BY <1>0, <1>1, <1>2, <1>6 DEF Edges
  <2>4. \A a \in Ids : mClosures'[a] \subseteq mTasks' \cap closures'
    BY <1>0, <1>1 DEF Edges
  <2>5. \A x \in mTasks' \ closures' : \A a \in mUpstream'[x] : a < x
    BY <1>0, <1>1, <1>2, <1>4 DEF Edges
  <2> QED BY <2>1, <2>2, <2>3, <2>4, <2>5 DEF Edges
<1>10. Stack'
  <2>1. \A c \in mTasks' \cap closures' : mUpstream'[c] = {} => c \in Leaving'
    BY <1>0, <1>1, <1>2, <1>3, <1>4 DEF Stack
  <2>2. IsInjective(removing') /\ (\A k \in 2..Len(removing') : removing'[k] \in closures')
    BY <1>0, <1>1 DEF Stack
  <2> QED BY <1>0, <1>3, <2>1, <2>2 DEF Stack
<1>11. QueuedOnce'
  <2>1. {i \in mTasks' \ closures' : mUpstream'[i] = {}} =
            {i \in mTasks \ closures : mUpstream[i] = {}} \cup (IF live = {} THEN {idx} ELSE {})
    BY <1>0, <1>2, <1>4
  <2>2. idx \notin Range(mReady) /\ idx \notin Range(mNextRound)
    BY <1>1, <1>2 DEF QueuedOnce
  <2>3. CASE live = {}
    <3>1. Range(mReady') = Range(mReady) \cup {idx} /\ IsInjective(mReady')
      BY <1>0, <1>1, <1>2, <2>2, <2>3, AppendRange DEF TypeOK, QueuedOnce
    <3> QED BY <1>0, <1>1, <2>1, <2>2, <2>3, <3>1 DEF QueuedOnce
  <2>4. CASE live # {}
    BY <1>0, <1>1, <2>1, <2>4 DEF QueuedOnce
  <2> QED BY <2>3, <2>4
<1>12. Waiting'
  <2>1. Handles \subseteq Handles' /\ idx \notin Handles /\ live \subseteq Handles'
    BY <1>0, <1>1 DEF TypeOK, Handles
  <2>2. \A i \in Ids : waits'[i] \subseteq Handles'
    BY <1>1, <1>5, <2>1 DEF Waiting
  <2>3. \A i \in mTasks' \ closures' : /\ mUpstream'[i] \subseteq waits'[i]
                                      /\ waits'[i] \cap Pending' \subseteq mUpstream'[i]
    BY <1>0, <1>1, <1>2, <1>3, <1>4, <1>5, <2>1 DEF Waiting
  <2> QED BY <2>2, <2>3 DEF Waiting
<1>13. Families'
  <2>1. \A c \in Ids : family'[c] \subseteq Handles'
    <3>1. Handles \subseteq Handles' /\ idx \in Handles'
      BY <1>0, <1>1 DEF TypeOK, Handles
    <3> QED BY <1>1, <1>7, <3>1 DEF Families
  <2>2. \A c \in Ids \ closures' : family'[c] = {}
    BY <1>0, <1>1, <1>7 DEF Families
  <2>3. \A c \in mTasks' \cap closures' : mUpstream'[c] \subseteq family'[c]
    BY <1>0, <1>1, <1>2, <1>4, <1>7 DEF Families
  <2>4. \A c \in mTasks' \cap closures' : \A a \in family'[c] : mDownstream'[a] \subseteq family'[c]
    <3> SUFFICES ASSUME NEW c \in mTasks' \cap closures', NEW a \in family'[c],
                        NEW d \in mDownstream'[a]
                 PROVE  d \in family'[c]
      OBVIOUS
    <3>1. c \in mTasks \cap closures /\ c \in Ids
      BY <1>0, <1>2
    <3>2. CASE a = idx
      BY <1>2, <1>6, <3>2
    <3>3. CASE a # idx
      <4>1. a \in family[c] /\ a \in Ids
        BY <1>1, <1>7, <3>1, <3>3 DEF TypeOK
      <4>2. mDownstream[a] \subseteq family[c]
        BY <1>1, <3>1, <4>1 DEF Families
      <4>3. family[c] \subseteq family'[c]
        BY <1>7, <3>1
      <4>4. d \in mDownstream[a] \/ (a \in live /\ d = idx)
        BY <1>6, <4>1
      <4> QED BY <1>7, <3>1, <4>1, <4>2, <4>3, <4>4
    <3> QED BY <3>2, <3>3
  <2>5. \A c \in Pending' \cap closures' : \A i \in family'[c] \cap mTasks' :
           \/ i \in Leaving' /\ mDownstream'[i] = {}
           \/ i \in mUpstream'[c]
           \/ i \notin closures' /\ mUpstream'[i] \cap family'[c] # {}
    <3> SUFFICES ASSUME NEW c \in Pending' \cap closures', NEW i \in family'[c] \cap mTasks'
                 PROVE  \/ i \in mUpstream'[c]
                        \/ i \notin closures' /\ mUpstream'[i] \cap family'[c] # {}
      OBVIOUS
    <3>1. c \in Pending \cap closures /\ c \in Ids /\ c # idx
      BY <1>0, <1>2, <1>3
    <3>2. CASE i = idx
      BY <1>0, <1>2, <1>4, <1>7, <3>1, <3>2
    <3>3. CASE i # idx
      <4>1. i \in family[c] \cap mTasks /\ i \in Ids
        BY <1>0, <1>2, <1>7, <3>1, <3>3
      <4>2. i \in mUpstream[c] \/ (i \notin closures /\ mUpstream[i] \cap family[c] # {})
        BY <1>1, <1>2, <3>1, <4>1 DEF Families
      <4> QED BY <1>0, <1>2, <1>4, <1>7, <3>1, <3>3, <4>1, <4>2
    <3> QED BY <3>2, <3>3
  <2> QED BY <2>1, <2>2, <2>3, <2>4, <2>5 DEF Families
<1>14. ClosureAfterFamily'
  BY <1>0, <1>1, <1>2, <1>3, <1>7 DEF ClosureAfterFamily
<1> QED BY <1>8, <1>9, <1>10, <1>11, <1>12, <1>13, <1>14 DEF IInv

\* The family a closure starts with holds its targets, is closed under being
\* scheduled downstream, and holds nothing else.
LEMMA DescendantsProperties ==
    ASSUME NEW T, NEW P, T \subseteq P, NEW C, NEW W
    PROVE  /\ Descendants(T, P, C, W) \subseteq P
           /\ T \subseteq Descendants(T, P, C, W)
           /\ \A j \in P \ C : W[j] \cap Descendants(T, P, C, W) # {}
                                => j \in Descendants(T, P, C, W)
           /\ \A i \in Descendants(T, P, C, W) \ T :
                 i \notin C /\ W[i] \cap Descendants(T, P, C, W) # {}
<1> DEFINE F == Descendants(T, P, C, W)
           Closed(S) == /\ T \subseteq S
                        /\ \A j \in P \ C : W[j] \cap S # {} => j \in S
<1>1. F = {i \in P : \A S \in SUBSET P : Closed(S) => i \in S}
  BY DEF Descendants
<1> HIDE DEF F
<1>2. F \subseteq P /\ T \subseteq F
  BY <1>1
<1>3. \A j \in P \ C : W[j] \cap F # {} => j \in F
  <2> SUFFICES ASSUME NEW j \in P \ C, W[j] \cap F # {}, NEW S \in SUBSET P, Closed(S)
               PROVE  j \in S
    BY <1>1
  <2>1. W[j] \cap S # {}
    BY <1>1
  <2> QED BY <2>1
<1>4. ASSUME NEW i \in F \ T PROVE i \notin C /\ W[i] \cap F # {}
  <2>1. SUFFICES ASSUME i \in C \/ W[i] \cap F = {} PROVE FALSE
    OBVIOUS
  <2>2. Closed(F \ {i})
    BY <1>2, <1>3, <1>4, <2>1
  <2>3. F \ {i} \in SUBSET P
    BY <1>2
  <2>4. i \in F \ {i}
    BY <1>1, <1>4, <2>2, <2>3
  <2> QED BY <2>4
<1> QED BY <1>2, <1>3, <1>4 DEF F

LEMMA AddClosureIInv ==
    ASSUME IInv, NEW deps \in SUBSET Handles, AddClosure(deps)
    PROVE  IInv'
<1> DEFINE idx  == mTaskIdx
           live == deps \cap mTasks
           F    == Descendants(live, mTasks, closures, waits)
<1> USE MaxTasksAssumption
<1>0. /\ removing = <<>> /\ mTaskIdx < MaxTasks
      /\ mClosures' = [a \in Ids |-> IF a \in live THEN mClosures[a] \cup {idx} ELSE mClosures[a]]
      /\ closures' = closures \cup {idx}
      /\ mTaskIdx' = mTaskIdx + 1
      /\ UNCHANGED <<mDownstream, mReady, mNextRound, removing, waits>>
  BY DEF AddClosure, TakeIndex, queues
<1>1. TypeOK /\ Edges /\ Stack /\ QueuedOnce /\ Waiting /\ Families /\ ClosureAfterFamily
  BY DEF IInv
<1>2. /\ Leaving = {} /\ Pending = mTasks
      /\ idx \in Ids /\ idx \notin mTasks /\ idx \notin closures
      /\ mTasks \subseteq Ids /\ closures \subseteq Ids
      /\ \A i \in mTasks : i \in Nat /\ i < idx
      /\ \A a \in Ids : idx \notin mDownstream[a] /\ idx \notin mClosures[a]
      /\ mDownstream[idx] = {} /\ mClosures[idx] = {} /\ mUpstream[idx] = {}
      /\ \A x \in Ids : idx \notin mUpstream[x]
      /\ \A c \in Ids : idx \notin family[c]
  BY <1>0, <1>1, Quiet DEF IInv
<1>3. /\ Leaving' = {} /\ Pending' = mTasks'
      /\ Handles \subseteq Handles' /\ idx \in Handles' /\ mTaskIdx' \in 0..MaxTasks
  BY <1>0, <1>1, <1>2 DEF Leaving, Pending, Handles, TypeOK
<1>4. \A a \in Ids : mClosures'[a] = IF a \in live THEN mClosures[a] \cup {idx} ELSE mClosures[a]
  BY <1>0
<1>5. mClosures' \in [Ids -> SUBSET Ids]
  BY <1>0, <1>1, <1>2 DEF TypeOK
<1>6. family[idx] = {}
  BY <1>1, <1>2 DEF Families
<1>7. CASE live = {}
  <2>1. UNCHANGED <<mTasks, mType, mUpstream, family>>
    BY <1>7 DEF AddClosure, TakeIndex
  <2>2. mClosures' = mClosures
    BY <1>0, <1>1, <1>7 DEF TypeOK
  <2>3. TypeOK'
    BY <1>0, <1>1, <1>3, <2>1, <2>2 DEF TypeOK
  <2>4. Edges' /\ Stack' /\ QueuedOnce'
    BY <1>0, <1>1, <1>2, <1>3, <2>1, <2>2 DEF Edges, Stack, QueuedOnce
  <2>5. Waiting'
    BY <1>0, <1>1, <1>2, <1>3, <2>1, <2>2 DEF Waiting
  <2>6. Families'
    BY <1>0, <1>1, <1>2, <1>3, <2>1, <2>2 DEF Families
  <2>7. ClosureAfterFamily'
    BY <1>0, <1>1, <1>2, <1>3, <1>6, <2>1 DEF ClosureAfterFamily
  <2> QED BY <2>3, <2>4, <2>5, <2>6, <2>7 DEF IInv
<1>8. CASE live # {}
  <2>1. /\ mTasks' = mTasks \cup {idx}
        /\ mType' = [mType EXCEPT ![idx] = "Continuation"]
        /\ mUpstream' = [mUpstream EXCEPT ![idx] = live]
        /\ family' = [family EXCEPT ![idx] = F]
    BY <1>8 DEF AddClosure, TakeIndex
  <2>2. \A x \in Ids : /\ mUpstream'[x] = IF x = idx THEN live ELSE mUpstream[x]
                       /\ family'[x] = IF x = idx THEN F ELSE family[x]
    BY <1>1, <1>2, <2>1 DEF TypeOK
  <2>3. /\ F \subseteq mTasks /\ live \subseteq F
        /\ \A j \in mTasks \ closures : waits[j] \cap F # {} => j \in F
        /\ \A i \in F \ live : i \notin closures /\ waits[i] \cap F # {}
    <3>1. live \subseteq mTasks
      OBVIOUS
    <3> HIDE DEF live
    <3> QED BY <3>1, DescendantsProperties
  <2> HIDE DEF F
  <2>4. TypeOK'
    BY <1>0, <1>1, <1>2, <1>3, <1>5, <2>1, <2>3 DEF TypeOK, Type
  <2>5. Edges'
    <3>1. \A i \in Ids \ mTasks' : mDownstream'[i] = {} /\ mClosures'[i] = {}
      BY <1>0, <1>1, <1>2, <1>4, <2>1 DEF Edges
    <3>2. \A a, x \in Ids : a \in mUpstream'[x] <=> x \in mDownstream'[a] \cup mClosures'[a]
      BY <1>0, <1>1, <1>2, <1>4, <2>2 DEF Edges
    <3>3. \A a \in Ids : /\ mDownstream'[a] \subseteq mTasks' \ closures'
                         /\ mClosures'[a] \subseteq mTasks' \cap closures'
      BY <1>0, <1>1, <1>2, <1>4, <2>1 DEF Edges
    <3>4. \A x \in mTasks' \ closures' : \A a \in mUpstream'[x] : a < x
      BY <1>0, <1>1, <1>2, <2>1, <2>2 DEF Edges
    <3> QED BY <3>1, <3>2, <3>3, <3>4 DEF Edges
  <2>6. Stack'
    <3>1. \A c \in mTasks' \cap closures' : mUpstream'[c] = {} => c \in Leaving'
      BY <1>0, <1>1, <1>2, <1>3, <1>8, <2>1, <2>2 DEF Stack
    <3> QED BY <1>0, <1>1, <1>3, <3>1 DEF Stack
  <2>7. QueuedOnce'
    <3>1. {i \in mTasks' \ closures' : mUpstream'[i] = {}} = {i \in mTasks \ closures : mUpstream[i] = {}}
      BY <1>0, <1>2, <2>1, <2>2
    <3> QED BY <1>0, <1>1, <3>1 DEF QueuedOnce
  <2>8. Waiting'
    <3>1. \A i \in Ids : waits'[i] \subseteq Handles'
      BY <1>0, <1>1, <1>3 DEF Waiting
    <3>2. \A i \in Ids : idx \notin waits[i]
      BY <1>1 DEF Waiting, Handles, TypeOK
    <3>3. \A i \in mTasks' \ closures' : /\ mUpstream'[i] \subseteq waits'[i]
                                        /\ waits'[i] \cap Pending' \subseteq mUpstream'[i]
      BY <1>0, <1>1, <1>2, <1>3, <2>1, <2>2, <3>2 DEF Waiting
    <3> QED BY <3>1, <3>3 DEF Waiting
  <2>9. Families'
    <3>1. \A c \in Ids : family'[c] \subseteq Handles'
      BY <1>1, <1>3, <2>2, <2>3 DEF Families, TypeOK
    <3>2. \A c \in Ids \ closures' : family'[c] = {}
      BY <1>0, <1>1, <1>2, <2>2 DEF Families
    <3>3. \A c \in mTasks' \cap closures' : mUpstream'[c] \subseteq family'[c]
      BY <1>0, <1>1, <1>2, <2>1, <2>2, <2>3 DEF Families
    <3>4. \A c \in mTasks' \cap closures' : \A a \in family'[c] : mDownstream'[a] \subseteq family'[c]
      <4>1. \A a \in F : mDownstream[a] \subseteq F
        <5> SUFFICES ASSUME NEW a \in F, NEW d \in mDownstream[a] PROVE d \in F
          OBVIOUS
        <5>1. a \in Ids /\ d \in mTasks \ closures /\ d \in Ids
          BY <1>1, <1>2, <2>3 DEF Edges
        <5>2. a \in mUpstream[d]
          BY <1>1, <5>1 DEF Edges
        <5>3. a \in waits[d]
          BY <1>1, <5>1, <5>2 DEF Waiting
        <5> QED BY <2>3, <5>1, <5>3
      <4> QED BY <1>0, <1>1, <1>2, <2>1, <2>2, <4>1 DEF Families
    <3>5. \A c \in Pending' \cap closures' : \A i \in family'[c] \cap mTasks' :
             \/ i \in Leaving' /\ mDownstream'[i] = {}
             \/ i \in mUpstream'[c]
             \/ i \notin closures' /\ mUpstream'[i] \cap family'[c] # {}
      <4> SUFFICES ASSUME NEW c \in Pending' \cap closures', NEW i \in family'[c] \cap mTasks'
                   PROVE  \/ i \in mUpstream'[c]
                          \/ i \notin closures' /\ mUpstream'[i] \cap family'[c] # {}
        OBVIOUS
      <4>1. CASE c = idx
        <5>1. i \in F /\ i # idx /\ i \in Ids /\ i \in mTasks
          BY <1>2, <2>2, <2>3, <4>1
        <5>2. CASE i \in live
          BY <1>2, <2>2, <4>1, <5>2
        <5>3. CASE i \notin live
          <6>1. i \notin closures /\ waits[i] \cap F # {}
            BY <2>3, <5>1, <5>3
          <6>2. waits[i] \cap mTasks \subseteq mUpstream[i]
            BY <1>1, <1>2, <5>1, <6>1 DEF Waiting
          <6> QED BY <1>0, <1>2, <2>2, <2>3, <4>1, <5>1, <6>1, <6>2
        <5> QED BY <5>2, <5>3
      <4>2. CASE c # idx
        <5>1. c \in Pending \cap closures /\ c \in Ids
          BY <1>0, <1>2, <1>3, <2>1, <4>2
        <5>2. i \in family[c] \cap mTasks /\ i \in Ids /\ i # idx
          BY <1>2, <2>1, <2>2, <4>2, <5>1
        <5>3. i \in mUpstream[c] \/ (i \notin closures /\ mUpstream[i] \cap family[c] # {})
          BY <1>1, <1>2, <5>1, <5>2 DEF Families
        <5> QED BY <1>0, <1>2, <2>2, <4>2, <5>1, <5>2, <5>3
      <4> QED BY <4>1, <4>2
    <3> QED BY <3>1, <3>2, <3>3, <3>4, <3>5 DEF Families
  <2>10. ClosureAfterFamily'
    BY <1>0, <1>1, <1>2, <1>3, <2>1, <2>2 DEF ClosureAfterFamily
  <2> QED BY <2>4, <2>5, <2>6, <2>7, <2>8, <2>9, <2>10 DEF IInv
<1> QED BY <1>7, <1>8

LEMMA StartRoundIInv == IInv /\ StartRound => IInv'
<1> SUFFICES ASSUME IInv, StartRound PROVE IInv'
  OBVIOUS
<1>1. TypeOK /\ Edges /\ Stack /\ QueuedOnce /\ Waiting /\ Families /\ ClosureAfterFamily
  BY DEF IInv
<1>2. /\ removing = <<>> /\ mReady = <<>> /\ mReady' = mNextRound /\ mNextRound' = <<>>
      /\ UNCHANGED <<mTaskIdx, mTasks, mType, mUpstream, mDownstream, mClosures, removing,
                     closures, waits, family>>
  BY DEF StartRound, graph, history
<1>3. Leaving' = Leaving /\ Pending' = Pending /\ Handles' = Handles
  BY <1>2 DEF Leaving, Pending, Handles
<1>4. TypeOK' /\ Edges' /\ Waiting' /\ Families' /\ ClosureAfterFamily'
  BY <1>1, <1>2, <1>3 DEF TypeOK, Edges, Waiting, Families, ClosureAfterFamily
<1>5. Stack'
  BY <1>1, <1>2, <1>3 DEF Stack
<1>6. QueuedOnce'
  <2>1. Range(<<>>) = {} /\ IsInjective(<<>>)
    BY DEF Range, IsInjective
  <2> QED BY <1>1, <1>2, <2>1 DEF QueuedOnce
<1> QED BY <1>4, <1>5, <1>6 DEF IInv

LEMMA PopTaskIInv == IInv /\ PopTask => IInv'
<1> SUFFICES ASSUME IInv, PopTask PROVE IInv'
  OBVIOUS
<1> DEFINE t == Head(mReady)
<1>1. TypeOK /\ Edges /\ Stack /\ QueuedOnce /\ Waiting /\ Families /\ ClosureAfterFamily
  BY DEF IInv
<1>2. /\ removing = <<>> /\ mReady # <<>> /\ removing' = <<t>>
      /\ UNCHANGED <<mTaskIdx, mTasks, mType, mUpstream, mDownstream, mClosures, mReady,
                     mNextRound, closures, waits, family>>
  BY DEF PopTask, graph, queues, history
<1>3. t \in Range(mReady)
  BY <1>1, <1>2, TailRange DEF TypeOK, QueuedOnce
<1>4. t \in mTasks \ closures /\ mUpstream[t] = {} /\ t \in Ids
  BY <1>1, <1>3, LiveIds DEF QueuedOnce
<1> HIDE DEF t
<1>5. Leaving = {} /\ Pending = mTasks
  BY <1>2 DEF Leaving, Pending, Range
<1>6. /\ Leaving' = {t} /\ Pending' = mTasks \ {t} /\ Len(removing') = 1 /\ removing'[1] = t
      /\ IsInjective(removing') /\ removing' \in Seq(Ids)
  BY <1>2, <1>4 DEF Leaving, Pending, Range, IsInjective
<1>7. TypeOK' /\ Edges' /\ QueuedOnce'
  BY <1>1, <1>2, <1>6 DEF TypeOK, Handles, Edges, QueuedOnce
<1>8. Stack'
  BY <1>1, <1>2, <1>4, <1>5, <1>6 DEF Stack, t
<1>9. Waiting' /\ Families' /\ ClosureAfterFamily'
  BY <1>1, <1>2, <1>4, <1>5, <1>6 DEF Waiting, Families, ClosureAfterFamily, Handles
<1> QED BY <1>7, <1>8, <1>9 DEF IInv

\* The task being removed is in the table and nothing is upstream of it.
LEMMA RemovedLives ==
    ASSUME IInv, removing # <<>>
    PROVE  /\ Removed \in Leaving /\ Removed \in mTasks /\ Removed \in Ids
           /\ mUpstream[Removed] = {}
<1>1. removing \in Seq(Ids) /\ IsInjective(removing)
  BY DEF IInv, TypeOK, Stack
<1>2. Removed \in Leaving
  BY <1>1, FrontRange DEF Removed, Leaving
<1> QED BY <1>2, LiveIds DEF IInv, Stack

LEMMA VisitDownstreamIInv == IInv /\ VisitDownstream => IInv'
<1> SUFFICES ASSUME IInv, VisitDownstream PROVE IInv'
  OBVIOUS
<1> DEFINE r == Removed
<1>1. TypeOK /\ Edges /\ Stack /\ QueuedOnce /\ Waiting /\ Families /\ ClosureAfterFamily
  BY DEF IInv
<1>2. PICK d \in mDownstream[r] :
        /\ mDownstream' = [mDownstream EXCEPT ![r] = @ \ {d}]
        /\ mUpstream' = [i \in Ids |->
                             IF i = d THEN mUpstream[d] \ {r}
                             ELSE IF i \in mClosures[r] THEN mUpstream[i] \cup {d}
                             ELSE mUpstream[i]]
        /\ mClosures' = [mClosures EXCEPT ![d] = @ \cup mClosures[r]]
        /\ mNextRound' = IF mUpstream[d] \ {r} = {} /\ mType[d] = "Round"
                         THEN Append(mNextRound, d) ELSE mNextRound
        /\ mReady' = IF mUpstream[d] \ {r} = {} /\ mType[d] = "Continuation"
                     THEN Append(mReady, d) ELSE mReady
  BY DEF VisitDownstream
<1>3. /\ removing # <<>>
      /\ UNCHANGED <<mTaskIdx, mTasks, mType, removing, closures, waits, family>>
  BY DEF VisitDownstream, history
<1>4. r \in Leaving /\ r \in mTasks /\ r \in Ids /\ mUpstream[r] = {}
  BY <1>3, RemovedLives
<1> HIDE DEF r
<1>5. /\ d \in mTasks \ closures /\ d \in Ids /\ r \in mUpstream[d] /\ d # r /\ d \notin Leaving
      /\ d \notin mUpstream[d]
  <2>1. d \in mTasks \ closures /\ d \in Ids
    BY <1>1, <1>2, <1>4 DEF Edges, TypeOK
  <2>2. r \in mUpstream[d]
    BY <1>1, <1>2, <1>4, <2>1 DEF Edges
  <2>3. d # r /\ d \notin Leaving
    BY <1>1, <1>4, <2>2 DEF Stack
  <2>4. d \notin mUpstream[d]
    BY <1>1, <2>1, MaxTasksAssumption DEF Edges, Ids
  <2> QED BY <2>1, <2>2, <2>3, <2>4
<1>6. Leaving' = Leaving /\ Pending' = Pending /\ Handles' = Handles
  BY <1>3 DEF Leaving, Pending, Handles
<1>7. \A c \in mClosures[r] : /\ c \in mTasks \cap closures /\ c \in Ids /\ r \in mUpstream[c]
                              /\ c # d /\ c # r /\ c \notin Leaving
  BY <1>1, <1>4, <1>5 DEF Edges, Stack, TypeOK
<1>8. /\ \A x \in Ids : mUpstream'[x] = IF x = d THEN mUpstream[d] \ {r}
                                        ELSE IF x \in mClosures[r] THEN mUpstream[x] \cup {d}
                                        ELSE mUpstream[x]
      /\ \A a \in Ids : mDownstream'[a] = IF a = r THEN mDownstream[r] \ {d} ELSE mDownstream[a]
      /\ \A a \in Ids : mClosures'[a] = IF a = d THEN mClosures[d] \cup mClosures[r]
                                                 ELSE mClosures[a]
  BY <1>1, <1>2, <1>4, <1>5 DEF TypeOK
<1>9. TypeOK'
  <2>1. mReady' \in Seq(Ids) /\ mNextRound' \in Seq(Ids)
    BY <1>1, <1>2, <1>5, AppendRange DEF TypeOK
  <2>2. /\ mUpstream' \in [Ids -> SUBSET Ids] /\ mDownstream' \in [Ids -> SUBSET Ids]
        /\ mClosures' \in [Ids -> SUBSET Ids]
    BY <1>1, <1>2, <1>4, <1>5 DEF TypeOK
  <2> QED BY <1>1, <1>3, <1>6, <2>1, <2>2 DEF TypeOK
<1>10. Edges'
  <2>1. \A i \in Ids \ mTasks' : mDownstream'[i] = {} /\ mClosures'[i] = {}
    BY <1>1, <1>3, <1>4, <1>5, <1>8 DEF Edges
  <2>2. \A a \in Ids : /\ mDownstream'[a] \subseteq mTasks' \ closures'
                       /\ mClosures'[a] \subseteq mTasks' \cap closures'
    BY <1>1, <1>3, <1>5, <1>7, <1>8 DEF Edges
  <2>3. ASSUME NEW a \in Ids, NEW x \in Ids
        PROVE  a \in mUpstream'[x] <=> x \in mDownstream'[a] \cup mClosures'[a]
    <3>1. a \in mUpstream[x] <=> x \in mDownstream[a] \cup mClosures[a]
      BY <1>1 DEF Edges
    <3>2. d \notin mClosures[a] /\ d \notin mDownstream[d]
      BY <1>1, <1>5 DEF Edges
    <3>3. d \notin mClosures[r]
      BY <1>7
    <3>4. mUpstream'[x] = IF x = d THEN mUpstream[d] \ {r}
                          ELSE IF x \in mClosures[r] THEN mUpstream[x] \cup {d} ELSE mUpstream[x]
      BY <1>8
    <3>5. CASE a = r
      <4>1. mDownstream'[a] = mDownstream[r] \ {d} /\ mClosures'[a] = mClosures[r]
        BY <1>5, <1>8, <3>5
      <4> QED BY <1>5, <3>1, <3>3, <3>4, <3>5, <4>1
    <3>6. CASE a = d
      <4>1. mDownstream'[a] = mDownstream[d] /\ mClosures'[a] = mClosures[d] \cup mClosures[r]
        BY <1>5, <1>8, <3>6
      <4> QED BY <1>5, <3>1, <3>2, <3>3, <3>4, <3>6, <4>1
    <3>7. CASE a # r /\ a # d
      <4>1. mDownstream'[a] = mDownstream[a] /\ mClosures'[a] = mClosures[a]
        BY <1>8, <3>7
      <4> QED BY <3>1, <3>4, <3>7, <4>1
    <3> QED BY <3>5, <3>6, <3>7
  <2>4. \A x \in mTasks' \ closures' : \A a \in mUpstream'[x] : a < x
    <3>1. \A x \in mTasks' \ closures' : x \in Ids /\ mUpstream'[x] \subseteq mUpstream[x]
      <4> SUFFICES ASSUME NEW x \in mTasks \ closures
                   PROVE  x \in Ids /\ mUpstream'[x] \subseteq mUpstream[x]
        BY <1>3
      <4>1. x \in Ids /\ x \notin mClosures[r]
        BY <1>1, <1>7, LiveIds
      <4> QED BY <1>8, <4>1
    <3> QED BY <1>1, <1>3, <3>1 DEF Edges
  <2> QED BY <2>1, <2>2, <2>3, <2>4 DEF Edges
<1>11. Stack'
  <2>1. \A i \in Leaving : i \in mTasks' /\ mUpstream'[i] = {}
    <3>1. \A i \in Leaving : i \in Ids /\ i # d /\ i \notin mClosures[r]
      BY <1>1, <1>5, <1>7, LiveIds DEF Stack
    <3> QED BY <1>1, <1>3, <1>8, <3>1 DEF Stack
  <2>2. \A c \in mTasks' \cap closures' : mUpstream'[c] = {} => c \in Leaving'
    <3>1. \A c \in mTasks \cap closures : c \in Ids /\ c # d
      BY <1>1, <1>5, LiveIds
    <3> QED BY <1>1, <1>3, <1>6, <1>8, <3>1 DEF Stack
  <2>3. mReady # <<>> /\ removing[1] = Head(mReady)
    BY <1>1, <1>3 DEF Stack
  <2>4. mReady' # <<>> /\ Head(mReady') = Head(mReady)
    BY <1>1, <1>2, <1>5, <2>3 DEF TypeOK
  <2> QED BY <1>1, <1>3, <1>6, <2>1, <2>2, <2>3, <2>4 DEF Stack
<1>12. QueuedOnce'
  <2>1. d \notin Range(mReady) /\ d \notin Range(mNextRound)
    BY <1>1, <1>5 DEF QueuedOnce
  <2>2. {i \in mTasks' \ closures' : mUpstream'[i] = {}} =
            {i \in mTasks \ closures : mUpstream[i] = {}}
                \cup (IF mUpstream[d] \ {r} = {} THEN {d} ELSE {})
    <3>1. \A i \in mTasks \ closures : i \in Ids /\ i \notin mClosures[r]
      BY <1>1, <1>7, LiveIds
    <3> QED BY <1>3, <1>5, <1>8, <3>1
  <2>3. mType[d] \in Type
    BY <1>1, <1>5 DEF TypeOK
  <2>4. CASE mUpstream[d] \ {r} = {} /\ mType[d] = "Round"
    <3>1. Range(mNextRound') = Range(mNextRound) \cup {d} /\ IsInjective(mNextRound')
      BY <1>1, <1>2, <1>5, <2>1, <2>4, AppendRange DEF TypeOK, QueuedOnce
    <3>2. mReady' = mReady
      BY <1>2, <2>4
    <3> QED BY <1>1, <2>1, <2>2, <2>4, <3>1, <3>2 DEF QueuedOnce
  <2>5. CASE mUpstream[d] \ {r} = {} /\ mType[d] = "Continuation"
    <3>1. Range(mReady') = Range(mReady) \cup {d} /\ IsInjective(mReady')
      BY <1>1, <1>2, <1>5, <2>1, <2>5, AppendRange DEF TypeOK, QueuedOnce
    <3>2. mNextRound' = mNextRound
      BY <1>2, <2>5
    <3> QED BY <1>1, <2>1, <2>2, <2>5, <3>1, <3>2 DEF QueuedOnce
  <2>6. CASE mUpstream[d] \ {r} # {}
    BY <1>1, <1>2, <2>2, <2>6 DEF QueuedOnce
  <2> QED BY <2>3, <2>4, <2>5, <2>6 DEF Type
<1>13. Waiting'
  <2>1. \A i \in mTasks \ closures : i \in Ids /\ i \notin mClosures[r]
    BY <1>1, <1>7, LiveIds
  <2>2. r \notin Pending
    BY <1>4 DEF Pending
  <2> QED BY <1>1, <1>3, <1>6, <1>8, <2>1, <2>2 DEF Waiting
<1>14. Families'
  <2>1. \A c \in mTasks \cap closures : c \in Ids /\ c # d
    BY <1>1, <1>5, LiveIds
  <2>2. \A c \in mClosures[r] : r \in family[c] /\ d \in family[c]
    BY <1>1, <1>2, <1>7 DEF Families
  <2>3. \A c \in mTasks' \cap closures' : mUpstream'[c] \subseteq family'[c]
    <3> SUFFICES ASSUME NEW c \in mTasks \cap closures, NEW a \in mUpstream'[c]
                 PROVE  a \in family[c]
      BY <1>3
    <3>1. mUpstream[c] \subseteq family[c]
      BY <1>1 DEF Families
    <3>2. a \in mUpstream[c] \/ (c \in mClosures[r] /\ a = d)
      BY <1>8, <2>1
    <3> QED BY <2>2, <3>1, <3>2
  <2>4. \A c \in mTasks' \cap closures' : \A a \in family'[c] : mDownstream'[a] \subseteq family'[c]
    <3>1. \A c \in Ids : family[c] \subseteq Ids
      BY <1>1 DEF TypeOK
    <3>2. \A a \in Ids : mDownstream'[a] \subseteq mDownstream[a]
      BY <1>8
    <3> QED BY <1>1, <1>3, <2>1, <3>1, <3>2 DEF Families
  <2>5. ASSUME NEW c \in Pending' \cap closures', NEW i \in family'[c] \cap mTasks'
        PROVE  \/ i \in Leaving' /\ mDownstream'[i] = {}
               \/ i \in mUpstream'[c]
               \/ i \notin closures' /\ mUpstream'[i] \cap family'[c] # {}
    <3>1. c \in Pending \cap closures /\ c \in mTasks /\ c \in Ids /\ c # d /\ family'[c] = family[c]
      BY <1>3, <1>6, <2>1 DEF Pending
    <3>2. i \in family[c] \cap mTasks /\ i \in Ids
      BY <1>1, <1>3, <3>1 DEF TypeOK
    <3>3. \/ i \in Leaving /\ mDownstream[i] = {}
          \/ i \in mUpstream[c]
          \/ i \notin closures /\ mUpstream[i] \cap family[c] # {}
      BY <1>1, <3>1, <3>2 DEF Families
    <3>4. CASE i \in Leaving /\ mDownstream[i] = {}
      BY <1>6, <1>8, <3>2, <3>4
    <3>5. CASE i \in mUpstream[c]
      BY <1>8, <3>1, <3>5
    <3>6. CASE i \notin closures /\ mUpstream[i] \cap family[c] # {}
      <4>1. i \notin mClosures[r]
        BY <1>7, <3>6
      <4>2. CASE i # d
        BY <1>3, <1>8, <3>1, <3>2, <3>6, <4>1, <4>2
      <4>3. CASE i = d /\ mUpstream[d] \cap family[c] # {r}
        <5>1. PICK u \in mUpstream[d] \cap family[c] : u # r
          BY <3>6, <4>3
        <5>2. u \in mUpstream'[d] /\ u \in family'[c]
          BY <1>5, <1>8, <3>1, <5>1
        <5> QED BY <1>3, <3>6, <4>3, <5>2
      <4>4. CASE i = d /\ mUpstream[d] \cap family[c] = {r}
        <5>1. r \in family[c] \cap mTasks
          BY <1>4, <4>4
        <5>2. r \in mUpstream[c]
          BY <1>1, <1>2, <1>4, <3>1, <5>1 DEF Families
        <5>3. c \in mClosures[r]
          BY <1>1, <1>4, <3>1, <5>2 DEF Edges
        <5> QED BY <1>8, <3>1, <4>4, <5>3
      <4> QED BY <4>2, <4>3, <4>4
    <3> QED BY <3>3, <3>4, <3>5, <3>6
  <2> QED BY <1>1, <1>3, <1>6, <2>3, <2>4, <2>5 DEF Families
<1>15. ClosureAfterFamily'
  BY <1>1, <1>3, <1>6 DEF ClosureAfterFamily
<1> QED BY <1>9, <1>10, <1>11, <1>12, <1>13, <1>14, <1>15 DEF IInv

\* When nothing holds a closure back but the task being removed, its family has
\* completed: a pending member would be held back by an older pending member,
\* and so on without end.
LEMMA FamilyComplete ==
    ASSUME IInv, removing # <<>>, mDownstream[Removed] = {},
           NEW c \in mClosures[Removed], mUpstream[c] \subseteq {Removed}
    PROVE  family[c] \cap Pending = {}
<1> DEFINE r == Removed
           B == {i \in family[c] \cap mTasks : ~ (i \in Leaving /\ mDownstream[i] = {})}
<1>1. TypeOK /\ Edges /\ Stack /\ Families
  BY DEF IInv
<1>2. r \in Leaving /\ r \in mTasks /\ r \in Ids /\ mUpstream[r] = {}
  BY RemovedLives
<1>3. c \in mTasks \cap closures /\ c \in Ids /\ r \in mUpstream[c] /\ c \in Pending
  BY <1>1, <1>2 DEF Edges, Stack, TypeOK, Pending
<1>4. SUFFICES ASSUME B # {} PROVE FALSE
  BY DEF Pending
<1>5. B \subseteq Ids /\ B \subseteq Nat
  BY <1>1, <1>3 DEF TypeOK, Ids
<1>6. PICK i \in B : \A y \in B : i <= y
  BY <1>4, <1>5, Numbers!LeastElement
<1>7. i \in family[c] \cap mTasks /\ ~ (i \in Leaving /\ mDownstream[i] = {}) /\ i \in Ids
  BY <1>5
<1>8. i \notin mUpstream[c]
  BY <1>2, <1>7
<1>9. i \notin closures /\ mUpstream[i] \cap family[c] # {}
  BY <1>1, <1>3, <1>7, <1>8 DEF Families
<1>10. PICK u \in mUpstream[i] \cap family[c] : TRUE
  BY <1>9
<1>11. u \in Ids /\ i \in mDownstream[u] /\ u < i
  BY <1>1, <1>7, <1>9, <1>10 DEF Edges, TypeOK
<1>12. u \in mTasks
  BY <1>1, <1>11 DEF Edges
<1>13. u \in B
  BY <1>10, <1>11, <1>12
<1> QED BY <1>5, <1>6, <1>11, <1>13

LEMMA VisitClosureIInv == IInv /\ VisitClosure => IInv'
<1> SUFFICES ASSUME IInv, VisitClosure PROVE IInv'
  OBVIOUS
<1> DEFINE r == Removed
<1>1. TypeOK /\ Edges /\ Stack /\ QueuedOnce /\ Waiting /\ Families /\ ClosureAfterFamily
  BY DEF IInv
<1>2. PICK c \in mClosures[r] :
        /\ mClosures' = [mClosures EXCEPT ![r] = @ \ {c}]
        /\ mUpstream' = [mUpstream EXCEPT ![c] = @ \ {r}]
        /\ removing' = IF mUpstream[c] \ {r} = {} THEN Append(removing, c) ELSE removing
  BY DEF VisitClosure
<1>3. /\ removing # <<>> /\ mDownstream[r] = {}
      /\ UNCHANGED <<mTaskIdx, mTasks, mType, mDownstream, mReady, mNextRound,
                     closures, waits, family>>
  BY DEF VisitClosure, queues, history
<1>4. r \in Leaving /\ r \in mTasks /\ r \in Ids /\ mUpstream[r] = {}
  BY <1>3, RemovedLives
<1>5. /\ c \in mTasks \cap closures /\ c \in Ids /\ r \in mUpstream[c]
      /\ c \notin Leaving /\ c # r /\ c \in Pending
  BY <1>1, <1>4 DEF Edges, Stack, TypeOK, Pending
<1>6. /\ \A x \in Ids : mUpstream'[x] = IF x = c THEN mUpstream[c] \ {r} ELSE mUpstream[x]
      /\ \A a \in Ids : mClosures'[a] = IF a = r THEN mClosures[r] \ {c} ELSE mClosures[a]
  BY <1>1, <1>2, <1>4, <1>5 DEF TypeOK
<1>7. mUpstream[c] \ {r} = {} => family[c] \cap Pending = {}
  BY <1>3, FamilyComplete
<1> HIDE DEF r
<1>8. /\ removing' \in Seq(Ids)
      /\ Leaving' = IF mUpstream[c] \ {r} = {} THEN Leaving \cup {c} ELSE Leaving
      /\ IsInjective(removing')
      /\ removing' # <<>> /\ removing'[1] = removing[1]
      /\ \A k \in 2..Len(removing') : removing'[k] \in closures
  <2>1. removing \in Seq(Ids) /\ IsInjective(removing) /\ c \notin Range(removing)
    BY <1>1, <1>5 DEF TypeOK, Stack, Leaving
  <2>2. \A k \in 2..Len(removing) : removing[k] \in closures
    BY <1>1 DEF Stack
  <2>3. CASE mUpstream[c] \ {r} = {}
    <3>1. removing' = Append(removing, c)
      BY <1>2, <2>3
    <3>2. /\ removing' \in Seq(Ids) /\ IsInjective(removing')
          /\ Range(removing') = Range(removing) \cup {c}
      BY <1>5, <2>1, <3>1, AppendRange
    <3>3. /\ removing' # <<>> /\ removing'[1] = removing[1]
          /\ \A k \in 2..Len(removing') : removing'[k] \in closures
      BY <1>3, <1>5, <2>1, <2>2, <3>1
    <3> QED BY <2>3, <3>2, <3>3 DEF Leaving
  <2>4. CASE mUpstream[c] \ {r} # {}
    <3>1. removing' = removing
      BY <1>2, <2>4
    <3> QED BY <1>3, <2>1, <2>2, <2>4, <3>1 DEF Leaving
  <2> QED BY <2>3, <2>4
<1>9. /\ Leaving \subseteq Leaving' /\ Handles' = Handles
      /\ Pending' \subseteq Pending
      /\ (mUpstream[c] \ {r} = {}) => c \in Leaving'
      /\ \A i \in Leaving' : i \in Leaving \/ (i = c /\ mUpstream[c] \ {r} = {})
      /\ \A i \in Pending : i \in Pending' \/ (i = c /\ mUpstream[c] \ {r} = {})
  BY <1>3, <1>8 DEF Pending, Handles
<1>10. TypeOK'
  <2>1. mUpstream' \in [Ids -> SUBSET Ids] /\ mClosures' \in [Ids -> SUBSET Ids]
    BY <1>1, <1>2, <1>4, <1>5 DEF TypeOK
  <2> QED BY <1>1, <1>3, <1>8, <1>9, <2>1 DEF TypeOK
<1>11. Edges'
  <2>1. \A i \in Ids \ mTasks' : mDownstream'[i] = {} /\ mClosures'[i] = {}
    BY <1>1, <1>3, <1>4, <1>6 DEF Edges
  <2>2. \A a \in Ids : /\ mDownstream'[a] \subseteq mTasks' \ closures'
                       /\ mClosures'[a] \subseteq mTasks' \cap closures'
    BY <1>1, <1>3, <1>6 DEF Edges
  <2>3. ASSUME NEW a \in Ids, NEW x \in Ids
        PROVE  a \in mUpstream'[x] <=> x \in mDownstream'[a] \cup mClosures'[a]
    <3>1. a \in mUpstream[x] <=> x \in mDownstream[a] \cup mClosures[a]
      BY <1>1 DEF Edges
    <3>2. c \notin mDownstream[r]
      BY <1>3
    <3> QED BY <1>3, <1>5, <1>6, <3>1, <3>2
  <2>4. \A x \in mTasks' \ closures' : \A a \in mUpstream'[x] : a < x
    <3>1. \A x \in mTasks \ closures : x \in Ids /\ mUpstream'[x] = mUpstream[x]
      BY <1>1, <1>5, <1>6, LiveIds
    <3> QED BY <1>1, <1>3, <3>1 DEF Edges
  <2> QED BY <2>1, <2>2, <2>3, <2>4 DEF Edges
<1>12. Stack'
  <2>1. \A i \in Leaving' : i \in mTasks' /\ mUpstream'[i] = {}
    <3> SUFFICES ASSUME NEW i \in Leaving' PROVE i \in mTasks /\ mUpstream'[i] = {}
      BY <1>3
    <3>1. CASE i \in Leaving
      BY <1>1, <1>5, <1>6, <3>1, LiveIds DEF Stack
    <3>2. CASE i = c /\ mUpstream[c] \ {r} = {}
      BY <1>5, <1>6, <3>2
    <3> QED BY <1>9, <3>1, <3>2
  <2>2. \A x \in mTasks' \cap closures' : mUpstream'[x] = {} => x \in Leaving'
    <3> SUFFICES ASSUME NEW x \in mTasks \cap closures, mUpstream'[x] = {} PROVE x \in Leaving'
      BY <1>3
    <3>1. x \in Ids
      BY <1>1, LiveIds
    <3> QED BY <1>1, <1>6, <1>9, <3>1 DEF Stack
  <2> QED BY <1>1, <1>3, <1>8, <2>1, <2>2 DEF Stack
<1>13. QueuedOnce'
  <2>1. {i \in mTasks' \ closures' : mUpstream'[i] = {}} = {i \in mTasks \ closures : mUpstream[i] = {}}
    <3>1. \A i \in mTasks \ closures : i \in Ids /\ mUpstream'[i] = mUpstream[i]
      BY <1>1, <1>5, <1>6, LiveIds
    <3> QED BY <1>3, <3>1
  <2> QED BY <1>1, <1>3, <2>1 DEF QueuedOnce
<1>14. Waiting'
  <2>1. \A i \in mTasks \ closures : i \in Ids /\ mUpstream'[i] = mUpstream[i]
    BY <1>1, <1>5, <1>6, LiveIds
  <2> QED BY <1>1, <1>3, <1>9, <2>1 DEF Waiting
<1>15. Families'
  <2>1. \A x \in mTasks \cap closures : x \in Ids /\ mUpstream'[x] \subseteq mUpstream[x]
    BY <1>1, <1>6, LiveIds
  <2>2. \A x \in mTasks' \cap closures' : mUpstream'[x] \subseteq family'[x]
    BY <1>1, <1>3, <2>1 DEF Families
  <2>3. ASSUME NEW x \in Pending' \cap closures', NEW i \in family'[x] \cap mTasks'
        PROVE  \/ i \in Leaving' /\ mDownstream'[i] = {}
               \/ i \in mUpstream'[x]
               \/ i \notin closures' /\ mUpstream'[i] \cap family'[x] # {}
    <3>1. x \in Pending \cap closures /\ x \in Ids /\ i \in family[x] \cap mTasks /\ i \in Ids
      BY <1>1, <1>3, <1>9, LiveIds DEF Pending
    <3>2. CASE i \in Leaving /\ mDownstream[i] = {}
      BY <1>3, <1>9, <3>2
    <3>3. CASE i \in mUpstream[x]
      BY <1>3, <1>4, <1>6, <1>9, <3>1, <3>3
    <3>4. CASE i \notin closures /\ mUpstream[i] \cap family[x] # {}
      BY <1>3, <1>5, <1>6, <3>1, <3>4
    <3> QED BY <1>1, <3>1, <3>2, <3>3, <3>4 DEF Families
  <2> QED BY <1>1, <1>3, <1>9, <2>2, <2>3 DEF Families
<1>16. ClosureAfterFamily'
  <2> SUFFICES ASSUME NEW x \in closures, x \notin Pending' PROVE family[x] \cap Pending' = {}
    BY <1>3 DEF ClosureAfterFamily
  <2>1. CASE x \notin Pending
    BY <1>1, <1>9, <2>1 DEF ClosureAfterFamily
  <2>2. CASE x \in Pending
    BY <1>7, <1>9, <2>2
  <2> QED BY <2>1, <2>2
<1> QED BY <1>10, <1>11, <1>12, <1>13, <1>14, <1>15, <1>16 DEF IInv

LEMMA EraseTaskIInv == IInv /\ EraseTask => IInv'
<1> SUFFICES ASSUME IInv, EraseTask PROVE IInv'
  OBVIOUS
<1> DEFINE r == Removed
           n == Len(removing)
<1>1. TypeOK /\ Edges /\ Stack /\ QueuedOnce /\ Waiting /\ Families /\ ClosureAfterFamily
  BY DEF IInv
<1>2. /\ removing # <<>> /\ mDownstream[r] = {} /\ mClosures[r] = {}
      /\ mTasks' = mTasks \ {r}
      /\ removing' = SubSeq(removing, 1, n - 1)
      /\ mReady' = IF n = 1 THEN Tail(mReady) ELSE mReady
      /\ UNCHANGED <<mTaskIdx, mType, mUpstream, mDownstream, mClosures, mNextRound,
                     closures, waits, family>>
  BY DEF EraseTask, graph, history
<1>3. r \in Leaving /\ r \in mTasks /\ r \in Ids /\ mUpstream[r] = {}
  BY <1>2, RemovedLives
<1>4. /\ removing \in Seq(Ids) /\ IsInjective(removing) /\ n \in Nat \ {0} /\ removing[n] = r
      /\ mReady \in Seq(Ids) /\ mReady # <<>> /\ IsInjective(mReady) /\ removing[1] = Head(mReady)
      /\ \A k \in 2..n : removing[k] \in closures
  BY <1>1, <1>2, EmptySeq DEF TypeOK, Stack, QueuedOnce, Removed
<1>5. /\ removing' \in Seq(Ids) /\ IsInjective(removing') /\ Len(removing') = n - 1
      /\ \A k \in 1..(n - 1) : removing'[k] = removing[k]
      /\ Leaving' = Leaving \ {r}
  BY <1>2, <1>4, FrontRange DEF Leaving
<1> HIDE DEF r, n
<1>6. Pending' = Pending /\ Handles' = Handles
  BY <1>2, <1>3, <1>5 DEF Pending, Handles
<1>7. \A a \in Ids : r \notin mDownstream[a] /\ r \notin mClosures[a] /\ r \notin mUpstream[a]
  BY <1>1, <1>2, <1>3 DEF Edges
<1>8. TypeOK'
  <2>1. mReady' \in Seq(Ids)
    BY <1>2, <1>4, TailRange
  <2> QED BY <1>1, <1>2, <1>5, <1>6, <2>1 DEF TypeOK
<1>9. Edges'
  BY <1>1, <1>2, <1>3, <1>7 DEF Edges
<1>10. Stack'
  <2>1. ASSUME removing' # <<>> PROVE mReady' # <<>> /\ removing'[1] = Head(mReady')
    <3>1. n # 1
      BY <1>4, <1>5, <2>1
    <3> QED BY <1>2, <1>4, <1>5, <3>1
  <2>2. \A k \in 2..Len(removing') : removing'[k] \in closures'
    BY <1>2, <1>4, <1>5
  <2> QED BY <1>1, <1>2, <1>5, <2>1, <2>2 DEF Stack
<1>11. QueuedOnce'
  <2>1. CASE n = 1
    <3>1. r = Head(mReady)
      BY <1>4, <2>1
    <3>2. Range(mReady') = Range(mReady) \ {r} /\ IsInjective(mReady') /\ r \in Range(mReady)
      BY <1>2, <1>4, <2>1, <3>1, TailRange
    <3> QED BY <1>1, <1>2, <3>2 DEF QueuedOnce
  <2>2. CASE n # 1
    <3>1. r \in closures
      <4>1. n \in 2..n
        BY <1>4, <2>2
      <4> QED BY <1>4, <4>1
    <3>2. {i \in mTasks' \ closures' : mUpstream'[i] = {}} = {i \in mTasks \ closures : mUpstream[i] = {}}
      BY <1>2, <3>1
    <3>3. mReady' = mReady /\ mNextRound' = mNextRound
      BY <1>2, <2>2
    <3> QED BY <1>1, <3>2, <3>3 DEF QueuedOnce
  <2> QED BY <2>1, <2>2
<1>12. Waiting' /\ ClosureAfterFamily'
  BY <1>1, <1>2, <1>6 DEF Waiting, ClosureAfterFamily
<1>13. Families'
  <2>1. ASSUME NEW c \in Pending' \cap closures', NEW i \in family'[c] \cap mTasks'
        PROVE  \/ i \in Leaving' /\ mDownstream'[i] = {}
               \/ i \in mUpstream'[c]
               \/ i \notin closures' /\ mUpstream'[i] \cap family'[c] # {}
    <3>1. c \in Pending \cap closures /\ i \in family[c] \cap mTasks /\ i # r
      BY <1>2, <1>6
    <3> QED BY <1>1, <1>2, <1>5, <3>1 DEF Families
  <2> QED BY <1>1, <1>2, <1>6, <2>1 DEF Families
<1> QED BY <1>8, <1>9, <1>10, <1>11, <1>12, <1>13 DEF IInv

LEMMA StutterIInv == IInv /\ UNCHANGED vars => IInv'
<1> SUFFICES ASSUME IInv, UNCHANGED vars PROVE IInv'
  OBVIOUS
<1>1. TypeOK /\ Edges /\ Stack /\ QueuedOnce /\ Waiting /\ Families /\ ClosureAfterFamily
  BY DEF IInv
<1>2. UNCHANGED <<mTaskIdx, mTasks, mType, mUpstream, mDownstream, mClosures, mReady,
                  mNextRound, removing, closures, waits, family>>
  BY DEF vars, graph, queues, history
<1>3. Leaving' = Leaving /\ Pending' = Pending /\ Handles' = Handles
  BY <1>2 DEF Leaving, Pending, Handles
<1>4. TypeOK' /\ Edges' /\ Stack' /\ QueuedOnce'
  BY <1>1, <1>2, <1>3 DEF TypeOK, Edges, Stack, QueuedOnce
<1>5. Waiting' /\ Families' /\ ClosureAfterFamily'
  BY <1>1, <1>2, <1>3 DEF Waiting, Families, ClosureAfterFamily
<1> QED BY <1>4, <1>5 DEF IInv

LEMMA NextIInv == IInv /\ [Next]_vars => IInv'
<1> SUFFICES ASSUME IInv, [Next]_vars PROVE IInv'
  OBVIOUS
<1>1. ASSUME NEW type \in Type, NEW deps \in SUBSET Handles, AddTask(type, deps) PROVE IInv'
  BY <1>1, AddTaskIInv
<1>2. ASSUME NEW deps \in SUBSET Handles, AddClosure(deps) PROVE IInv'
  BY <1>2, AddClosureIInv
<1>3. CASE StartRound
  BY <1>3, StartRoundIInv
<1>4. CASE PopTask
  BY <1>4, PopTaskIInv
<1>5. CASE VisitDownstream
  BY <1>5, VisitDownstreamIInv
<1>6. CASE VisitClosure
  BY <1>6, VisitClosureIInv
<1>7. CASE EraseTask
  BY <1>7, EraseTaskIInv
<1>8. CASE UNCHANGED vars
  BY <1>8, StutterIInv
<1> QED BY <1>1, <1>2, <1>3, <1>4, <1>5, <1>6, <1>7, <1>8 DEF Next, Run, RemoveTask

\* The task graph is as the scheduler's functions take it to be, in every state.
THEOREM Invariance == Spec => []IInv
<1>1. Init => IInv
  BY InitIInv
<1>2. IInv /\ [Next]_vars => IInv'
  BY NextIInv
<1> QED BY <1>1, <1>2, PTL DEF Spec

-------------------------------------------------------------------------------
(* What a caller relies on. *)

\* The types of the state, for every bound on the number of tasks.
THEOREM TypeCorrect == Spec => []TypeOK
BY Invariance, PTL DEF IInv

LEMMA IInvNoThrow == IInv => NoThrow
<1> SUFFICES ASSUME IInv PROVE NoThrow
  OBVIOUS
<1>1. TypeOK /\ Edges /\ Stack /\ QueuedOnce
  BY DEF IInv
<1>2. \A i \in Leaving : i \in mTasks /\ mUpstream[i] = {} /\ i \in Ids
  BY <1>1, LiveIds DEF Stack
<1>3. \A i \in Leaving : \A x \in mDownstream[i] \cup mClosures[i] :
          x \in mTasks /\ i \in mUpstream[x]
  BY <1>1, <1>2, LiveIds DEF Edges
<1>4. \A i \in Range(mReady) \cup Range(mNextRound) : i \in mTasks /\ mUpstream[i] = {}
  BY <1>1 DEF QueuedOnce
<1> QED BY <1>2, <1>3, <1>4 DEF NoThrow

\* No internal check of the scheduler fails and no edge leads out of the table,
\* whatever tasks and closures the callers add and in whatever order.
THEOREM SchedulerNeverThrows == Spec => []NoThrow
BY Invariance, IInvNoThrow, PTL

\* No task is lost and none is queued twice.
THEOREM TasksQueuedOnce == Spec => []QueuedOnce
BY Invariance, PTL DEF IInv

\* A closure completes after its whole family.
THEOREM ClosuresAreClosed == Spec => []ClosureAfterFamily
BY Invariance, PTL DEF IInv

\* When callers avoid cycles of waiting, a table that is not empty always has a
\* task to run: in the set of all live entries some entry waits for none of
\* them, and the bookkeeping has put it into a queue.
LEMMA QueueNotEmpty == IInv /\ Acyclic => NeverStuck
<1> SUFFICES ASSUME IInv, Acyclic, removing = <<>>, mTasks # {}
             PROVE  mReady # <<>> \/ mNextRound # <<>>
  BY DEF NeverStuck
<1>1. TypeOK /\ Edges /\ Stack /\ QueuedOnce /\ Waiting /\ Families
  BY DEF IInv
<1>2. Leaving = {} /\ Pending = mTasks
  BY DEF Leaving, Pending, Range
<1>3. PICK i \in mTasks : WaitsFor(i, mTasks, closures, waits, family) \cap mTasks = {}
  BY <1>2 DEF Acyclic, NoCycle
<1>4. i \in Ids
  BY <1>1, LiveIds
<1>5. mUpstream[i] \subseteq mTasks
  BY <1>1, <1>4 DEF Edges, TypeOK
<1>6. mUpstream[i] = {}
  <2>1. CASE i \in closures
    BY <1>1, <1>3, <1>5, <2>1 DEF WaitsFor, Families
  <2>2. CASE i \notin closures
    BY <1>1, <1>3, <1>5, <2>2 DEF WaitsFor, Waiting
  <2> QED BY <2>1, <2>2
<1>7. i \notin closures
  BY <1>1, <1>2, <1>3, <1>6 DEF Stack
<1>8. i \in Range(mReady) \cup Range(mNextRound)
  BY <1>1, <1>6, <1>7 DEF QueuedOnce
<1>9. Range(<<>>) = {}
  BY DEF Range
<1> QED BY <1>8, <1>9

\* currentTask finds both queues empty while a task is in the table only if
\* callers have made entries wait for one another.
THEOREM CallersMakeProgress == Spec => []StuckOnlyInCycle
<1>1. IInv => StuckOnlyInCycle
  BY QueueNotEmpty DEF StuckOnlyInCycle
<1> QED BY <1>1, Invariance, PTL

-------------------------------------------------------------------------------
(* The order in which tasks of one type reach the front of the queue. *)

\* What two pending tasks of one type have to do with the queues: the older
\* one, when it waits for no more than the younger one, is ahead of it.  A task
\* that is put off to the next round was held back by something; a removal
\* visits its closures only when no downstream task is left to visit.
InOrder ==
    /\ \A x, y \in mTasks \ closures :
          x < y /\ mType[x] = mType[y] /\ waits[x] \subseteq waits[y] =>
              /\ y \in Range(mReady) => Before(mReady, x, y)
              /\ y \in Range(mNextRound) => x \in Range(mReady) \/ Before(mNextRound, x, y)
    /\ \A x \in Range(mNextRound) : mType[x] = "Round" /\ waits[x] # {}
    /\ \A k \in 1..(Len(removing) - 1) : mDownstream[removing[k]] = {}

LEMMA InitInOrder == Init => InOrder
<1> SUFFICES ASSUME Init PROVE InOrder
  OBVIOUS
<1>1. Range(mNextRound) = {} /\ Len(removing) = 0
  BY DEF Init, Range
<1> QED BY <1>1 DEF Init, InOrder

LEMMA AddTaskInOrder ==
    ASSUME IInv, InOrder, NEW type \in Type, NEW deps \in SUBSET Handles, AddTask(type, deps)
    PROVE  InOrder'
<1> DEFINE idx  == mTaskIdx
           live == deps \cap mTasks
<1>0. /\ removing = <<>> /\ mTaskIdx < MaxTasks
      /\ mTasks' = mTasks \cup {idx}
      /\ mType' = [mType EXCEPT ![idx] = type]
      /\ mReady' = IF live = {} THEN Append(mReady, idx) ELSE mReady
      /\ waits' = [waits EXCEPT ![idx] = live]
      /\ UNCHANGED <<mNextRound, removing, closures>>
  BY DEF AddTask, TakeIndex
<1>1. TypeOK /\ QueuedOnce /\ Edges /\ Waiting
  BY DEF IInv
<1>2. /\ Pending = mTasks /\ idx \in Ids /\ idx \notin mTasks
      /\ mTasks \subseteq Ids /\ \A i \in mTasks : i \in Nat /\ i < idx
  BY <1>0, Quiet
<1>3. \A x \in mTasks : waits'[x] = waits[x] /\ mType'[x] = mType[x]
  BY <1>0, <1>1, <1>2 DEF TypeOK
<1>4. waits'[idx] = live /\ mType'[idx] = type
  BY <1>0, <1>1, <1>2 DEF TypeOK
<1>5. /\ Range(mReady) \subseteq mTasks \ closures /\ Range(mNextRound) \subseteq mTasks \ closures
      /\ mReady \in Seq(Ids)
  BY <1>1 DEF QueuedOnce, TypeOK
<1>6. /\ Range(mReady') = IF live = {} THEN Range(mReady) \cup {idx} ELSE Range(mReady)
      /\ \A x, y : Before(mReady, x, y) => Before(mReady', x, y)
      /\ live = {} => \A x \in Range(mReady) : Before(mReady', x, idx)
  BY <1>0, <1>2, <1>5, AppendRange, AppendBefore
<1>7. ASSUME NEW x \in mTasks' \ closures', NEW y \in mTasks' \ closures',
             x < y, mType'[x] = mType'[y], waits'[x] \subseteq waits'[y]
      PROVE  /\ y \in Range(mReady') => Before(mReady', x, y)
             /\ y \in Range(mNextRound') => x \in Range(mReady') \/ Before(mNextRound', x, y)
  <2>1. x \in mTasks \ closures
    <3>1. idx \in Nat
      BY <1>1, MaxTasksAssumption DEF TypeOK
    <3>2. y \in mTasks \cup {idx}
      BY <1>0, <1>7
    <3>3. y \in Nat /\ y <= idx
      BY <1>2, <3>1, <3>2
    <3>4. x # idx
      BY <1>7, <3>1, <3>3
    <3> QED BY <1>0, <1>7, <3>4
  <2>2. CASE y = idx
    <3> SUFFICES ASSUME live = {} PROVE Before(mReady', x, y)
      BY <1>0, <1>2, <1>5, <1>6, <2>2
    <3>1. waits[x] = {}
      BY <1>3, <1>4, <1>7, <2>1, <2>2
    <3>2. mUpstream[x] = {}
      BY <1>1, <2>1, <3>1 DEF Waiting
    <3>3. x \in Range(mReady) \cup Range(mNextRound)
      BY <1>1, <2>1, <3>2 DEF QueuedOnce
    <3>4. x \in Range(mReady)
      BY <3>1, <3>3 DEF InOrder
    <3> QED BY <1>6, <2>2, <3>4
  <2>3. CASE y # idx
    <3>1. y \in mTasks \ closures /\ mType[x] = mType[y] /\ waits[x] \subseteq waits[y]
      BY <1>0, <1>3, <1>7, <2>1, <2>3
    <3>2. y \in Range(mReady') <=> y \in Range(mReady)
      BY <1>6, <2>3
    <3> QED BY <1>0, <1>6, <1>7, <2>1, <3>1, <3>2 DEF InOrder
  <2> QED BY <2>2, <2>3
<1>8. \A x \in Range(mNextRound') : mType'[x] = "Round" /\ waits'[x] # {}
  BY <1>0, <1>3, <1>5 DEF InOrder
<1>9. \A k \in 1..(Len(removing') - 1) : mDownstream'[removing'[k]] = {}
  BY <1>0
<1> QED BY <1>7, <1>8, <1>9 DEF InOrder

LEMMA AddClosureInOrder ==
    ASSUME IInv, InOrder, NEW deps \in SUBSET Handles, AddClosure(deps)
    PROVE  InOrder'
<1>1. /\ removing = <<>> /\ mTaskIdx < MaxTasks
      /\ closures' = closures \cup {mTaskIdx}
      /\ mTasks' \subseteq mTasks \cup {mTaskIdx}
      /\ mType' = mType \/ mType' = [mType EXCEPT ![mTaskIdx] = "Continuation"]
      /\ UNCHANGED <<mDownstream, mReady, mNextRound, removing, waits>>
  BY DEF AddClosure, TakeIndex, queues
<1>2. TypeOK /\ QueuedOnce /\ mTaskIdx \in Ids /\ mTaskIdx \notin mTasks /\ mTasks \subseteq Ids
  BY <1>1, Quiet DEF IInv
<1>3. \A x \in mTasks : mType'[x] = mType[x]
  BY <1>1, <1>2 DEF TypeOK
<1>4. mTasks' \ closures' \subseteq mTasks \ closures /\ Range(mNextRound) \subseteq mTasks
  BY <1>1, <1>2 DEF QueuedOnce
<1> QED BY <1>1, <1>3, <1>4 DEF InOrder

LEMMA StartRoundInOrder == IInv /\ InOrder /\ StartRound => InOrder'
<1> SUFFICES ASSUME IInv, InOrder, StartRound PROVE InOrder'
  OBVIOUS
<1>1. /\ removing = <<>> /\ mReady = <<>> /\ mReady' = mNextRound /\ mNextRound' = <<>>
      /\ UNCHANGED <<mTasks, mType, mDownstream, removing, closures, waits>>
  BY DEF StartRound, graph, history
<1>2. Range(mReady) = {} /\ Range(mNextRound') = {} /\ Len(removing) = 0
  BY <1>1 DEF Range
<1> QED BY <1>1, <1>2 DEF InOrder

LEMMA PopTaskInOrder == IInv /\ InOrder /\ PopTask => InOrder'
<1> SUFFICES ASSUME IInv, InOrder, PopTask PROVE InOrder'
  OBVIOUS
<1>1. /\ Len(removing') = 1
      /\ UNCHANGED <<mTasks, mType, mDownstream, mReady, mNextRound, closures, waits>>
  BY DEF PopTask, graph, queues, history
<1> QED BY <1>1 DEF InOrder

\* A removal visits the downstream tasks of one task by ascending index: an
\* older task that waits for no more than the visited one is in a queue by now.
LEMMA VisitedInOrder ==
    ASSUME IInv, InOrder, removing # <<>>,
           NEW d \in mDownstream[Removed], \A e \in mDownstream[Removed] : d <= e,
           mUpstream[d] \ {Removed} = {},
           NEW x \in mTasks \ closures, x < d, waits[x] \subseteq waits[d]
    PROVE  x \in Range(mReady) \cup Range(mNextRound)
<1>1. TypeOK /\ Edges /\ Stack /\ QueuedOnce /\ Waiting
  BY DEF IInv
<1>2. Removed \in Leaving /\ Removed \in Ids /\ mTasks \subseteq Ids
  BY RemovedLives, LiveIds, <1>1
<1>3. d \in mTasks \ closures /\ d \in Ids /\ d \notin Leaving
  <2>1. d \in mTasks \ closures /\ d \in Ids
    BY <1>1, <1>2 DEF Edges
  <2>2. Removed \in mUpstream[d]
    BY <1>1, <1>2, <2>1 DEF Edges
  <2> QED BY <1>1, <2>1, <2>2 DEF Stack
<1>4. waits[d] \cap Pending = {}
  BY <1>1, <1>2, <1>3 DEF Waiting, Pending
<1>5. ASSUME NEW a \in mUpstream[x] PROVE FALSE
  <2>1. a \in Ids /\ x \in Ids /\ x \in mDownstream[a] /\ a \in mTasks
    BY <1>1, <1>2, <1>5 DEF Edges, TypeOK
  <2>2. a \in Leaving
    BY <1>1, <1>4, <1>5, <2>1 DEF Waiting, Pending
  <2>3. PICK k \in 1..Len(removing) : removing[k] = a
    BY <1>1, <2>2 DEF Leaving, Range, TypeOK
  <2>4. Len(removing) \in Nat
    BY <1>1 DEF TypeOK
  <2>5. k = Len(removing)
    <3>1. k \in 1..(Len(removing) - 1) => mDownstream[a] = {}
      BY <2>3 DEF InOrder
    <3> QED BY <2>1, <2>3, <2>4, <3>1
  <2>6. x \in mDownstream[Removed]
    BY <2>1, <2>3, <2>5 DEF Removed
  <2>7. d \in Nat /\ x \in Nat
    BY <1>3, <2>1, MaxTasksAssumption DEF Ids
  <2> QED BY <2>6, <2>7
<1>6. mUpstream[x] = {}
  BY <1>5
<1> QED BY <1>1, <1>6 DEF QueuedOnce

LEMMA VisitDownstreamInOrder == IInv /\ InOrder /\ VisitDownstream => InOrder'
<1> SUFFICES ASSUME IInv, InOrder, VisitDownstream PROVE InOrder'
  OBVIOUS
<1> DEFINE r == Removed
<1>1. TypeOK /\ Edges /\ Stack /\ QueuedOnce /\ Waiting
  BY DEF IInv
<1>2. PICK d \in mDownstream[r] :
        /\ \A e \in mDownstream[r] : d <= e
        /\ mDownstream' = [mDownstream EXCEPT ![r] = @ \ {d}]
        /\ mNextRound' = IF mUpstream[d] \ {r} = {} /\ mType[d] = "Round"
                         THEN Append(mNextRound, d) ELSE mNextRound
        /\ mReady' = IF mUpstream[d] \ {r} = {} /\ mType[d] = "Continuation"
                     THEN Append(mReady, d) ELSE mReady
  BY DEF VisitDownstream
<1>3. removing # <<>> /\ UNCHANGED <<mTasks, mType, removing, closures, waits>>
  BY DEF VisitDownstream, history
<1>4. r \in Ids /\ mTasks \subseteq Ids /\ r \in mTasks
  BY <1>1, <1>3, RemovedLives, LiveIds
<1>5. /\ d \in mTasks \ closures /\ d \in Ids /\ r \in mUpstream[d] /\ waits[d] # {}
      /\ d \notin Range(mReady) /\ d \notin Range(mNextRound)
  <2>1. d \in mTasks \ closures /\ d \in Ids
    BY <1>1, <1>4 DEF Edges
  <2>2. r \in mUpstream[d]
    BY <1>1, <1>4, <2>1 DEF Edges
  <2>3. d \notin Range(mReady) /\ d \notin Range(mNextRound)
    BY <1>1, <2>2 DEF QueuedOnce
  <2> QED BY <1>1, <2>1, <2>2, <2>3 DEF Waiting
<1>6. mReady \in Seq(Ids) /\ mNextRound \in Seq(Ids)
  BY <1>1 DEF TypeOK
<1>7. /\ \A x, y : Before(mReady, x, y) => Before(mReady', x, y)
      /\ \A x, y : Before(mNextRound, x, y) => Before(mNextRound', x, y)
  BY <1>2, <1>5, <1>6, AppendBefore
<1>8. /\ \A y : y # d => /\ y \in Range(mReady') <=> y \in Range(mReady)
                         /\ y \in Range(mNextRound') <=> y \in Range(mNextRound)
      /\ Range(mReady) \subseteq Range(mReady') /\ Range(mNextRound) \subseteq Range(mNextRound')
  BY <1>2, <1>5, <1>6, AppendRange
<1>9. /\ d \in Range(mReady') =>
            /\ mUpstream[d] \ {r} = {} /\ mType[d] = "Continuation"
            /\ \A x \in Range(mReady) : Before(mReady', x, d)
      /\ d \in Range(mNextRound') =>
            /\ mUpstream[d] \ {r} = {} /\ mType[d] = "Round"
            /\ \A x \in Range(mNextRound) : Before(mNextRound', x, d)
  BY <1>2, <1>5, <1>6, AppendBefore
<1>10. ASSUME NEW x \in mTasks' \ closures', NEW y \in mTasks' \ closures',
              x < y, mType'[x] = mType'[y], waits'[x] \subseteq waits'[y]
       PROVE  /\ y \in Range(mReady') => Before(mReady', x, y)
              /\ y \in Range(mNextRound') => x \in Range(mReady') \/ Before(mNextRound', x, y)
  <2>1. x \in mTasks \ closures /\ mType[x] = mType[y] /\ waits[x] \subseteq waits[y]
    BY <1>3, <1>10
  <2>2. CASE y = d
    <3> SUFFICES ASSUME d \in Range(mReady') \cup Range(mNextRound')
                 PROVE  /\ d \in Range(mReady') => Before(mReady', x, d)
                        /\ d \in Range(mNextRound') => x \in Range(mReady') \/ Before(mNextRound', x, d)
      BY <2>2
    <3>1. x \in Range(mReady) \cup Range(mNextRound)
      BY <1>2, <1>3, <1>9, <1>10, <2>1, <2>2, VisitedInOrder
    <3>2. mType[x] = "Continuation" => x \notin Range(mNextRound)
      BY DEF InOrder
    <3> QED BY <1>8, <1>9, <2>1, <2>2, <3>1, <3>2
  <2>3. CASE y # d
    <3>1. y \in mTasks \ closures /\ x < y
      BY <1>3, <1>10
    <3> QED BY <1>7, <1>8, <2>1, <2>3, <3>1 DEF InOrder
  <2> QED BY <2>2, <2>3
<1>11. \A x \in Range(mNextRound') : mType'[x] = "Round" /\ waits'[x] # {}
  BY <1>3, <1>5, <1>8, <1>9 DEF InOrder
<1>12. \A k \in 1..(Len(removing') - 1) : mDownstream'[removing'[k]] = {}
  <2> SUFFICES ASSUME NEW k \in 1..(Len(removing) - 1) PROVE mDownstream'[removing[k]] = {}
    BY <1>3
  <2>1. mDownstream[removing[k]] = {} /\ removing[k] \in Ids
    BY <1>1 DEF InOrder, TypeOK
  <2> QED BY <1>1, <1>2, <2>1 DEF TypeOK
<1> QED BY <1>10, <1>11, <1>12 DEF InOrder

LEMMA VisitClosureInOrder == IInv /\ InOrder /\ VisitClosure => InOrder'
<1> SUFFICES ASSUME IInv, InOrder, VisitClosure PROVE InOrder'
  OBVIOUS
<1>1. /\ removing # <<>> /\ mDownstream[Removed] = {}
      /\ UNCHANGED <<mTasks, mType, mDownstream, mReady, mNextRound, closures, waits>>
      /\ removing \in Seq(Ids)
  BY DEF VisitClosure, history, queues, IInv, TypeOK
<1>2. PICK c \in mClosures[Removed] :
        removing' = IF mUpstream[c] \ {Removed} = {} THEN Append(removing, c) ELSE removing
  BY DEF VisitClosure
<1>3. \A k \in 1..(Len(removing') - 1) : mDownstream'[removing'[k]] = {}
  <2> SUFFICES ASSUME NEW k \in 1..(Len(removing') - 1) PROVE mDownstream[removing'[k]] = {}
    BY <1>1
  <2>1. CASE removing' = removing
    BY <2>1 DEF InOrder
  <2>2. CASE removing' = Append(removing, c)
    <3>1. Len(removing') = Len(removing) + 1 /\ Len(removing) \in Nat
      BY <1>1, <2>2
    <3>2. k \in 1..Len(removing) /\ removing'[k] = removing[k]
      BY <1>1, <2>2, <3>1
    <3>3. CASE k = Len(removing)
      BY <1>1, <3>2, <3>3 DEF Removed
    <3>4. CASE k # Len(removing)
      <4>1. k \in 1..(Len(removing) - 1)
        BY <3>1, <3>2, <3>4
      <4> QED BY <3>2, <4>1 DEF InOrder
    <3> QED BY <3>3, <3>4
  <2> QED BY <1>2, <2>1, <2>2
<1> QED BY <1>1, <1>3 DEF InOrder

LEMMA EraseTaskInOrder == IInv /\ InOrder /\ EraseTask => InOrder'
<1> SUFFICES ASSUME IInv, InOrder, EraseTask PROVE InOrder'
  OBVIOUS
<1> DEFINE n == Len(removing)
<1>1. TypeOK /\ Stack /\ QueuedOnce
  BY DEF IInv
<1>2. /\ removing # <<>>
      /\ mTasks' = mTasks \ {Removed}
      /\ removing' = SubSeq(removing, 1, n - 1)
      /\ mReady' = IF n = 1 THEN Tail(mReady) ELSE mReady
      /\ UNCHANGED <<mType, mDownstream, mNextRound, closures, waits>>
  BY DEF EraseTask, graph, history
<1>3. /\ removing \in Seq(Ids) /\ IsInjective(removing) /\ n \in Nat \ {0}
      /\ mReady \in Seq(Ids) /\ mReady # <<>> /\ IsInjective(mReady) /\ removing[1] = Head(mReady)
  BY <1>1, <1>2, EmptySeq DEF TypeOK, Stack, QueuedOnce
<1>4. Len(removing') = n - 1 /\ \A k \in 1..(n - 1) : removing'[k] = removing[k]
  BY <1>2, <1>3, FrontRange
<1>5. \A k \in 1..(Len(removing') - 1) : mDownstream'[removing'[k]] = {}
  BY <1>2, <1>3, <1>4 DEF InOrder
<1>6. CASE n = 1
  <2>1. mReady' = Tail(mReady) /\ Removed = Head(mReady)
    BY <1>2, <1>3, <1>6 DEF Removed
  <2>2. /\ Range(mReady') = Range(mReady) \ {Removed}
        /\ \A x, y : Before(mReady, x, y) /\ x # Removed => Before(mReady', x, y)
    BY <1>3, <2>1, TailRange, TailBefore
  <2> QED BY <1>2, <1>5, <2>2 DEF InOrder
<1>7. CASE n # 1
  BY <1>2, <1>5, <1>7 DEF InOrder
<1> QED BY <1>6, <1>7

LEMMA NextInOrder == IInv /\ InOrder /\ [Next]_vars => InOrder'
<1> SUFFICES ASSUME IInv, InOrder, [Next]_vars PROVE InOrder'
  OBVIOUS
<1>1. ASSUME NEW type \in Type, NEW deps \in SUBSET Handles, AddTask(type, deps) PROVE InOrder'
  BY <1>1, AddTaskInOrder
<1>2. ASSUME NEW deps \in SUBSET Handles, AddClosure(deps) PROVE InOrder'
  BY <1>2, AddClosureInOrder
<1>3. CASE UNCHANGED vars
  BY <1>3 DEF vars, graph, queues, history, InOrder
<1> QED BY <1>1, <1>2, <1>3, StartRoundInOrder, PopTaskInOrder, VisitDownstreamInOrder,
           VisitClosureInOrder, EraseTaskInOrder
        DEF Next, Run, RemoveTask

LEMMA InOrderDependency == IInv /\ InOrder => DependencyOrder
<1> SUFFICES ASSUME IInv, InOrder, mReady # <<>>
             PROVE  LET j == Head(mReady) IN
                    /\ waits[j] \cap Pending = {}
                    /\ \A i \in Pending \ closures :
                          i < j /\ mType[i] = mType[j] => ~(waits[i] \subseteq waits[j])
  BY DEF DependencyOrder
<1> DEFINE j == Head(mReady)
<1>1. TypeOK /\ QueuedOnce /\ Waiting
  BY DEF IInv
<1>2. j \in Range(mReady) /\ \A x : ~ Before(mReady, x, j)
  BY <1>1, TailRange, TailBefore DEF TypeOK, QueuedOnce
<1>3. j \in mTasks \ closures /\ mUpstream[j] = {}
  BY <1>1, <1>2 DEF QueuedOnce
<1>4. waits[j] \cap Pending = {}
  BY <1>1, <1>3 DEF Waiting
<1>5. \A i \in Pending \ closures :
          i < j /\ mType[i] = mType[j] => ~(waits[i] \subseteq waits[j])
  BY <1>2, <1>3 DEF InOrder, Pending
<1> QED BY <1>4, <1>5

\* The task at the front of the queue has nothing left to wait for, and no
\* older task of its type that waited for no more than it did is still to run:
\* a send that is scheduled before the receive it belongs to runs before it.
THEOREM TasksRunInOrder == Spec => []DependencyOrder
<1>1. Init => IInv /\ InOrder
  BY InitIInv, InitInOrder
<1>2. (IInv /\ InOrder) /\ [Next]_vars => (IInv /\ InOrder)'
  BY NextIInv, NextInOrder
<1>3. IInv /\ InOrder => DependencyOrder
  BY InOrderDependency
<1> QED BY <1>1, <1>2, <1>3, PTL DEF Spec

-------------------------------------------------------------------------------
(* The scheduler implements the abstract task graph. *)

LEMMA InitAbstract == Init => Abstract!Init
BY MaxTasksAssumption DEF Init, Abstract!Init, Ids, Abstract!Ids, Pending

LEMMA NextAbstract == IInv /\ [Next]_vars => [Abstract!Next]_(Abstract!vars)
<1> SUFFICES ASSUME IInv, [Next]_vars PROVE Abstract!Next \/ UNCHANGED Abstract!vars
  OBVIOUS
<1>0. TypeOK /\ Edges /\ Stack /\ QueuedOnce /\ Waiting /\ Families /\ ClosureAfterFamily /\ IInv'
  BY NextIInv DEF IInv
<1>1. ASSUME NEW type \in Type, NEW deps \in SUBSET Handles, AddTask(type, deps)
      PROVE  Abstract!Submit(deps)
  <2>1. Leaving = {} /\ Pending = mTasks /\ removing = <<>> /\ mTaskIdx < MaxTasks
    BY <1>1, Quiet DEF AddTask, TakeIndex
  <2>2. Leaving' = Leaving
    BY <1>1 DEF AddTask, TakeIndex, Leaving
  <2>3. /\ mTaskIdx' = mTaskIdx + 1 /\ mTasks' = mTasks \cup {mTaskIdx}
        /\ waits' = [waits EXCEPT ![mTaskIdx] = deps \cap mTasks]
        /\ family' = Adopt(family, mTasks, closures, mTaskIdx, deps)
        /\ UNCHANGED closures
    BY <1>1 DEF AddTask, TakeIndex
  <2>4. Pending' = mTasks'
    BY <2>1, <2>2 DEF Pending
  <2> QED BY <2>1, <2>3, <2>4 DEF Abstract!Submit, Adopt, Abstract!Adopt
<1>2. ASSUME NEW deps \in SUBSET Handles, AddClosure(deps)
      PROVE  Abstract!SubmitClosure(deps)
  <2>1. Leaving = {} /\ Pending = mTasks /\ removing = <<>> /\ mTaskIdx < MaxTasks
    BY <1>2, Quiet DEF AddClosure, TakeIndex
  <2>2. Leaving' = Leaving
    BY <1>2 DEF AddClosure, TakeIndex, Leaving
  <2>3. /\ mTaskIdx' = mTaskIdx + 1 /\ closures' = closures \cup {mTaskIdx}
        /\ UNCHANGED waits
        /\ IF deps \cap mTasks = {}
           THEN UNCHANGED <<mTasks, family>>
           ELSE /\ mTasks' = mTasks \cup {mTaskIdx}
                /\ family' = [family EXCEPT ![mTaskIdx] =
                                  Descendants(deps \cap mTasks, mTasks, closures, waits)]
    BY <1>2 DEF AddClosure, TakeIndex
  <2>4. Pending' = mTasks'
    BY <2>1, <2>2 DEF Pending
  <2> QED BY <2>1, <2>3, <2>4 DEF Abstract!SubmitClosure, Descendants, Abstract!Descendants
<1>3. CASE StartRound
  BY <1>3 DEF StartRound, graph, history, Abstract!vars, Pending, Leaving
<1>4. CASE PopTask
  <2> DEFINE t == Head(mReady)
  <2>1. t \in mTasks \ closures /\ mUpstream[t] = {}
    BY <1>0, <1>4, TailRange DEF PopTask, QueuedOnce, TypeOK
  <2>2. t \in Ids
    BY <1>0, <2>1, LiveIds
  <2>3. removing = <<>> /\ removing' = <<t>>
        /\ UNCHANGED <<mTaskIdx, mTasks, closures, waits, family>>
    BY <1>4 DEF PopTask, history
  <2> HIDE DEF t
  <2>4. Pending = mTasks /\ Pending' = Pending \ {t} /\ t \in Pending
    BY <2>1, <2>3 DEF Pending, Leaving, Range
  <2>5. waits[t] \cap Pending = {}
    BY <1>0, <2>1 DEF Waiting
  <2>6. Abstract!Complete(t)
    BY <2>1, <2>3, <2>4, <2>5 DEF Abstract!Complete
  <2> QED BY <2>2, <2>6 DEF Abstract!Next, Ids, Abstract!Ids
<1>5. CASE VisitDownstream
  BY <1>5 DEF VisitDownstream, history, Abstract!vars, Pending, Leaving
<1>6. CASE VisitClosure
  <2> DEFINE r == Removed
  <2>1. PICK c \in mClosures[r] :
          removing' = IF mUpstream[c] \ {r} = {} THEN Append(removing, c) ELSE removing
    BY <1>6 DEF VisitClosure
  <2>2. /\ removing # <<>> /\ mDownstream[r] = {}
        /\ UNCHANGED <<mTaskIdx, mTasks, closures, waits, family>>
    BY <1>6 DEF VisitClosure, history
  <2>3. CASE mUpstream[c] \ {r} # {}
    BY <2>1, <2>2, <2>3 DEF Abstract!vars, Pending, Leaving
  <2>4. CASE mUpstream[c] \ {r} = {}
    <3>1. family[c] \cap Pending = {}
      BY <2>2, <2>4, FamilyComplete
    <3>2. r \in Leaving /\ r \in Ids
      BY <2>2, RemovedLives
    <3>3. c \in mTasks \cap closures /\ c \in Ids /\ r \in mUpstream[c] /\ c \in Pending
      BY <1>0, <3>2 DEF Edges, Stack, TypeOK, Pending
    <3>4. Leaving' = Leaving \cup {c}
      BY <1>0, <2>1, <2>4, <3>3, AppendRange DEF Leaving, TypeOK
    <3>5. Abstract!CompleteClosure(c)
      BY <2>2, <3>1, <3>3, <3>4 DEF Abstract!CompleteClosure, Pending
    <3> QED BY <3>3, <3>5 DEF Abstract!Next, Ids, Abstract!Ids
  <2> QED BY <2>3, <2>4
<1>7. CASE EraseTask
  <2>1. removing # <<>> /\ removing' = SubSeq(removing, 1, Len(removing) - 1)
        /\ mTasks' = mTasks \ {Removed} /\ UNCHANGED <<mTaskIdx, closures, waits, family>>
    BY <1>7 DEF EraseTask, history
  <2>2. Leaving' = Leaving \ {Removed} /\ Removed \in Leaving
    BY <1>0, <2>1, FrontRange DEF Leaving, TypeOK, Stack, Removed
  <2>3. Pending' = Pending
    BY <2>1, <2>2 DEF Pending
  <2> QED BY <2>1, <2>3 DEF Abstract!vars
<1>8. CASE UNCHANGED vars
  BY <1>8 DEF vars, history, Abstract!vars, Pending, Leaving
<1>9. Handles = Abstract!Handles
  BY DEF Handles, Abstract!Handles
<1> QED BY <1>1, <1>2, <1>3, <1>4, <1>5, <1>6, <1>7, <1>8, <1>9
        DEF Next, Run, RemoveTask, Abstract!Next

\* Every step of the scheduler is a step of the abstract task graph, or leaves
\* it as it is.
THEOREM Refinement == Spec => ImplementsTaskGraph
<1>1. Init => Abstract!Init
  BY InitAbstract
<1>2. IInv /\ [Next]_vars => [Abstract!Next]_(Abstract!vars)
  BY NextAbstract
<1> QED BY <1>1, <1>2, Invariance, PTL DEF Spec, ImplementsTaskGraph, Abstract!Spec

-------------------------------------------------------------------------------
(* The runtime. *)

\* A step of the runtime, seen from the scheduler.
LEMMA RuntimeStep == [RtNext]_rtVars => [Next]_vars
<1> SUFFICES ASSUME [RtNext]_rtVars PROVE [Next]_vars
  OBVIOUS
<1>1. ASSUME NEW k \in Kind, NEW deps \in SUBSET Handles, Schedule(k, deps) PROVE Next
  BY <1>1 DEF Schedule, Next, Type
<1>2. ASSUME NEW k \in Kind, NEW deps \in SUBSET Handles, Then(k, deps) PROVE Next
  BY <1>1, <1>2 DEF Then
<1>3. ASSUME NEW a \in Handles, NEW b \in Handles, And(a, b) PROVE Next
  <2>1. {a, b} \in SUBSET Handles /\ "and" \in Kind
    BY DEF Kind
  <2> QED BY <1>1, <1>3, <2>1 DEF And
<1>4. ASSUME NEW h \in Handles, GetClosure(h) PROVE Next
  BY <1>4 DEF GetClosure, Next
<1>5. ASSUME NEW h \in Handles, Get(h) PROVE UNCHANGED vars
  BY <1>5 DEF Get, Enter
<1>6. CASE RunAll \/ RunOneRound
  BY <1>6 DEF RunAll, RunOneRound, Enter
<1>7. CASE Return \/ NoCurrentTask \/ RunNextThrows
  BY <1>7 DEF Return, NoCurrentTask, RunNextThrows, Leave
<1>8. CASE EnterRound \/ BeginFunction \/ FunctionThrows
  BY <1>8 DEF EnterRound, BeginFunction, FunctionThrows
<1>9. CASE NewRound \/ FunctionReturns \/ RemoveEntry
  BY <1>9 DEF NewRound, FunctionReturns, RemoveEntry, Next, Run
<1>10. CASE UNCHANGED rtVars
  BY <1>10 DEF rtVars
<1>11. \A h \in Handles : {h} \in SUBSET Handles
  OBVIOUS
<1> QED BY <1>2, <1>3, <1>4, <1>5, <1>6, <1>7, <1>8, <1>9, <1>10, <1>11 DEF RtNext, Progress

\* The runtime's scheduler is a Scheduler.
THEOREM RuntimeRunsScheduler == RtSpec => Spec
<1>1. RtInit => Init
  BY DEF RtInit
<1> QED BY <1>1, RuntimeStep, PTL DEF RtSpec, Spec

-------------------------------------------------------------------------------

\* What task j was scheduled to wait for: its dependencies, and for a closure
\* among them the family of the closure.
Awaited(j) == (waits[j] \cup UNION {family[c] : c \in waits[j] \cap closures}) \ closures

\* A function runs with mIsActive set; nothing is removed while it is set; and
\* only the one at the front of the queue may have run and still be there.
Active ==
    /\ executing # None => mIsActive /\ ranIn[executing] # 0
    /\ removing # <<>> => ~mIsActive
    /\ \A i \in functions : ranIn[i] # 0 => mIsActive /\ mReady # <<>> /\ i = Head(mReady)

\* What has left the table of functions has run, in this round or an earlier
\* one; what has run had nothing left to wait for; and what is queued for this
\* round waited for nothing that ran in this round.
Rounds ==
    /\ round \in Nat \ {0}
    /\ ranIn \in [Ids -> 0..round]
    /\ \A i \in Ids : ranIn[i] # 0 => i \in Handles \ closures /\ waits[i] \cap Pending = {}
    /\ \A i \in Handles \ closures : i \notin functions => ranIn[i] # 0
    /\ \A i \in mTasks \ closures : mType[i] = "Round"
    /\ \A j \in Range(mReady) : \A i \in Awaited(j) : ranIn[i] # 0 /\ ranIn[i] < round

\* RoundSeparation in terms of Awaited.
Separated ==
    \A j \in Ids : ranIn[j] # 0 => \A i \in Awaited(j) : ranIn[i] # 0 /\ ranIn[i] < ranIn[j]

RtInv == TablesAgree /\ Active /\ Rounds /\ Separated

LEMMA InitRtInv == RtInit => RtInv
<1> SUFFICES ASSUME RtInit PROVE RtInv
  OBVIOUS
<1> USE MaxTasksAssumption
<1>1. /\ mTaskIdx = 0 /\ mTasks = {} /\ mReady = <<>> /\ removing = <<>> /\ closures = {}
      /\ functions = {} /\ executing = None /\ mIsActive = FALSE /\ round = 1
      /\ ranIn = [i \in Ids |-> 0]
  BY DEF RtInit, Init
<1>2. Range(mReady) = {} /\ Handles = {}
  BY <1>1 DEF Range, Handles
<1>3. TablesAgree /\ Active
  BY <1>1 DEF TablesAgree, Active
<1>4. Rounds /\ Separated
  BY <1>1, <1>2 DEF Rounds, Separated
<1> QED BY <1>3, <1>4 DEF RtInv

\* What a task waited for has run, once none of it is pending.
LEMMA AwaitedRan ==
    ASSUME IInv, TablesAgree, Rounds, NEW j \in Ids, waits[j] \cap Pending = {},
           NEW i \in Awaited(j)
    PROVE  i \in Handles \ closures /\ ranIn[i] # 0
<1>1. TypeOK /\ Stack /\ Waiting /\ Families /\ ClosureAfterFamily
  BY DEF IInv
<1>2. i \in Handles \ closures /\ i \notin Pending
  <2>1. CASE i \in waits[j]
    BY <1>1, <2>1 DEF Awaited, Waiting
  <2>2. CASE i \notin waits[j]
    <3>1. PICK c \in waits[j] \cap closures : i \in family[c]
      BY <2>2 DEF Awaited
    <3>2. c \in Ids /\ c \notin Pending
      BY <1>1, LiveIds
    <3>3. family[c] \subseteq Handles /\ family[c] \cap Pending = {}
      BY <1>1, <3>1, <3>2 DEF Families, ClosureAfterFamily
    <3> QED BY <3>1, <3>3 DEF Awaited
  <2> QED BY <2>1, <2>2
<1>3. i \notin functions
  <2> SUFFICES ASSUME i \in functions PROVE FALSE
    OBVIOUS
  <2>1. i \in Leaving
    BY <1>2 DEF TablesAgree, Pending
  <2>2. PICK k \in 1..Len(removing) : removing[k] = i
    BY <1>1, <2>1 DEF Leaving, Range, TypeOK
  <2>3. Len(removing) \in Nat /\ removing # <<>>
    BY <1>1, <2>2 DEF TypeOK
  <2>4. k # 1
    BY <2>2, <2>3 DEF TablesAgree
  <2>5. k \in 2..Len(removing)
    BY <2>2, <2>3, <2>4
  <2> QED BY <1>1, <1>2, <2>2, <2>5 DEF Stack
<1> QED BY <1>2, <1>3 DEF Rounds

\* What is queued has nothing left to wait for.
LEMMA QueuedWaitsForNothing ==
    ASSUME IInv, NEW j \in Range(mReady) \cup Range(mNextRound)
    PROVE  j \in Ids /\ j \in mTasks \ closures /\ waits[j] \cap Pending = {}
<1>1. TypeOK /\ QueuedOnce /\ Waiting
  BY DEF IInv
<1>2. j \in mTasks \ closures /\ mUpstream[j] = {}
  BY <1>1 DEF QueuedOnce
<1> QED BY <1>1, <1>2, LiveIds DEF Waiting

\* A new entry is awaited by no task that has nothing left to wait for.
LEMMA ScheduleRtInv ==
    ASSUME IInv, RtInv, NEW k \in Kind, NEW deps \in SUBSET Handles, Schedule(k, deps)
    PROVE  RtInv'
<1> DEFINE idx  == mTaskIdx
           live == deps \cap mTasks
<1> USE MaxTasksAssumption
<1>1. /\ removing = <<>> /\ mTaskIdx < MaxTasks /\ mTaskIdx' = mTaskIdx + 1
      /\ mTasks' = mTasks \cup {idx}
      /\ mType' = [mType EXCEPT ![idx] = "Round"]
      /\ mReady' = IF live = {} THEN Append(mReady, idx) ELSE mReady
      /\ waits' = [waits EXCEPT ![idx] = live]
      /\ family' = Adopt(family, mTasks, closures, idx, deps)
      /\ UNCHANGED <<mNextRound, removing, closures>>
      /\ functions' = functions \cup {idx}
      /\ UNCHANGED <<mIsActive, executing, round, ranIn>>
  BY DEF Schedule, AddTask, TakeIndex
<1>2. TypeOK /\ QueuedOnce /\ Waiting /\ Families /\ TablesAgree /\ Active /\ Rounds /\ Separated
  BY DEF IInv, RtInv
<1>3. /\ Pending = mTasks /\ Leaving = {} /\ idx \in Ids /\ idx \notin mTasks /\ idx \notin closures
      /\ mTasks \subseteq Ids /\ closures \subseteq Ids
  BY <1>1, Quiet
<1>4. /\ Handles' = Handles \cup {idx} /\ idx \notin Handles /\ Handles \subseteq Ids
      /\ Pending' = mTasks \cup {idx}
  BY <1>1, <1>2, <1>3, LiveIds DEF Handles, Pending, Leaving, TypeOK
<1>5. ranIn[idx] = 0
  BY <1>2, <1>3, <1>4 DEF Rounds
<1>6. waits'[idx] = live /\ \A j \in Ids : j # idx => waits'[j] = waits[j]
  BY <1>1, <1>2, <1>3 DEF TypeOK
<1>7. \A c \in Ids : c \notin mTasks => family'[c] = family[c]
  BY <1>1, <1>2 DEF Adopt, TypeOK
<1>8. ASSUME NEW j \in Ids, j # idx, waits[j] \cap Pending = {}
      PROVE  Awaited(j)' = Awaited(j) /\ waits'[j] \cap Pending' = {}
  <2>1. waits'[j] = waits[j] /\ waits[j] \subseteq Handles
    BY <1>2, <1>6, <1>8 DEF Waiting
  <2>2. \A c \in waits[j] \cap closures : family'[c] = family[c]
    BY <1>3, <1>7, <1>8
  <2> QED BY <1>1, <1>3, <1>4, <1>8, <2>1, <2>2 DEF Awaited
<1>9. mReady \in Seq(Ids) /\ (mReady # <<>> => mReady' # <<>> /\ Head(mReady') = Head(mReady))
  BY <1>1, <1>2, <1>3, AppendFront DEF TypeOK
<1>10. TablesAgree'
  BY <1>1, <1>2, <1>3, <1>9 DEF TablesAgree
<1>11. Active'
  BY <1>1, <1>2, <1>5, <1>9 DEF Active
<1>12. \A i \in Ids : ranIn[i] # 0 => i # idx /\ waits[i] \cap Pending = {}
  BY <1>2, <1>5 DEF Rounds
<1>13. Rounds'
  <2>1. \A i \in Ids : ranIn'[i] # 0 => i \in Handles' \ closures' /\ waits'[i] \cap Pending' = {}
    BY <1>1, <1>2, <1>4, <1>8, <1>12 DEF Rounds
  <2>2. \A i \in Handles' \ closures' : i \notin functions' => ranIn'[i] # 0
    BY <1>1, <1>2, <1>4 DEF Rounds
  <2>3. \A i \in mTasks' \ closures' : mType'[i] = "Round"
    BY <1>1, <1>2, <1>3 DEF Rounds, TypeOK
  <2>4. ASSUME NEW j \in Range(mReady)', NEW i \in Awaited(j)'
        PROVE  ranIn'[i] # 0 /\ ranIn'[i] < round'
    <3>1. CASE j = idx
      <4>1. idx \notin Range(mReady)
        BY <1>3, QueuedWaitsForNothing
      <4>2. live = {}
        BY <1>1, <2>4, <3>1, <4>1
      <4>3. waits'[j] = {}
        BY <1>6, <3>1, <4>2
      <4>4. Awaited(j)' = {}
        BY <4>3 DEF Awaited
      <4> QED BY <2>4, <4>4
    <3>2. CASE j # idx
      <4>1. j \in Range(mReady)
        BY <1>1, <1>3, <1>9, <2>4, <3>2, AppendRange
      <4>2. j \in Ids /\ waits[j] \cap Pending = {}
        BY <4>1, QueuedWaitsForNothing
      <4>3. i \in Awaited(j)
        BY <1>8, <2>4, <3>2, <4>2
      <4> QED BY <1>1, <1>2, <4>1, <4>3 DEF Rounds
    <3> QED BY <3>1, <3>2
  <2>5. round' \in Nat \ {0} /\ ranIn' \in [Ids -> 0..round']
    BY <1>1, <1>2 DEF Rounds
  <2> QED BY <2>1, <2>2, <2>3, <2>4, <2>5 DEF Rounds
<1>14. Separated'
  <2> SUFFICES ASSUME NEW j \in Ids, ranIn[j] # 0, NEW i \in Awaited(j)'
               PROVE  ranIn[i] # 0 /\ ranIn[i] < ranIn[j]
    BY <1>1 DEF Separated
  <2>1. i \in Awaited(j)
    BY <1>8, <1>12
  <2> QED BY <1>2, <2>1 DEF Separated
<1> QED BY <1>10, <1>11, <1>13, <1>14 DEF RtInv

LEMMA GetClosureRtInv ==
    ASSUME IInv, RtInv, NEW h \in Handles, GetClosure(h)
    PROVE  RtInv'
<1> DEFINE idx == mTaskIdx
<1> USE MaxTasksAssumption
<1>1. /\ removing = <<>> /\ mTaskIdx < MaxTasks /\ mTaskIdx' = mTaskIdx + 1
      /\ closures' = closures \cup {idx}
      /\ mTasks' \subseteq mTasks \cup {idx} /\ mTasks \subseteq mTasks'
      /\ mType' = mType \/ mType' = [mType EXCEPT ![idx] = "Continuation"]
      /\ \A c \in Ids : c # idx => family'[c] = family[c]
      /\ UNCHANGED <<mReady, mNextRound, removing, waits, functions, mIsActive, executing, round,
                     ranIn>>
  BY DEF GetClosure, AddClosure, TakeIndex, runtime, rounds, queues, IInv, TypeOK
<1>2. TypeOK /\ QueuedOnce /\ Waiting /\ Families /\ TablesAgree /\ Active /\ Rounds /\ Separated
  BY DEF IInv, RtInv
<1>3. /\ Pending = mTasks /\ idx \in Ids /\ idx \notin mTasks /\ idx \notin closures
      /\ mTasks \subseteq Ids /\ closures \subseteq Ids
  BY <1>1, Quiet
<1>4. /\ Handles' = Handles \cup {idx} /\ idx \notin Handles
      /\ Pending' \subseteq Pending \cup {idx} /\ Handles' \ closures' = Handles \ closures
  <2>1. Handles' = Handles \cup {idx} /\ idx \notin Handles
    BY <1>1, <1>2 DEF Handles, TypeOK
  <2>2. Pending' \subseteq Pending \cup {idx}
    BY <1>1, <1>3 DEF Pending
  <2> QED BY <1>1, <2>1, <2>2
<1>5. \A j \in Ids : Awaited(j)' = Awaited(j) /\ waits'[j] \cap Pending' \subseteq waits[j] \cap Pending
  <2> SUFFICES ASSUME NEW j \in Ids
               PROVE  Awaited(j)' = Awaited(j) /\ waits'[j] \cap Pending' \subseteq waits[j] \cap Pending
    OBVIOUS
  <2>1. waits[j] \subseteq Handles /\ \A c \in Ids : family[c] \subseteq Handles
    BY <1>2 DEF Waiting, Families
  <2>2. waits[j] \cap closures' = waits[j] \cap closures
    BY <1>1, <1>4, <2>1
  <2>3. \A c \in waits[j] \cap closures : family'[c] = family[c] /\ idx \notin family[c]
    BY <1>1, <1>3, <1>4, <2>1
  <2> QED BY <1>1, <1>4, <2>1, <2>2, <2>3 DEF Awaited
<1>6. mTasks' \ closures' = mTasks \ closures /\ \A i \in mTasks : mType'[i] = mType[i]
  <2>1. mTasks' \ closures' = mTasks \ closures
    BY <1>1, <1>3
  <2>2. \A i \in mTasks : i \in Ids /\ i # idx
    BY <1>3
  <2>3. mType \in [Ids -> Type]
    BY <1>2 DEF TypeOK
  <2> QED BY <1>1, <2>1, <2>2, <2>3
<1>7. TablesAgree' /\ Active'
  BY <1>1, <1>2, <1>6 DEF TablesAgree, Active
<1>8. \A i \in Ids : ranIn[i] # 0 => i \in Handles' \ closures' /\ waits'[i] \cap Pending' = {}
  BY <1>2, <1>4, <1>5 DEF Rounds
<1>9. \A j \in Range(mReady) : j \in Ids
  BY QueuedWaitsForNothing
<1>10. Rounds'
  BY <1>1, <1>2, <1>4, <1>5, <1>6, <1>8, <1>9 DEF Rounds
<1>11. Separated'
  BY <1>1, <1>2, <1>5 DEF Separated
<1> QED BY <1>7, <1>10, <1>11 DEF RtInv

\* A step that leaves the scheduler and the flags alone.
LEMMA CallRtInv ==
    ASSUME IInv, RtInv, UNCHANGED <<vars, functions, mIsActive, executing, rounds>>
    PROVE  RtInv'
<1>1. /\ UNCHANGED <<mTaskIdx, mTasks, mType, mReady, removing, closures, waits, family>>
      /\ UNCHANGED <<functions, mIsActive, executing, round, ranIn>>
  BY DEF vars, graph, queues, history, rounds
<1>2. /\ Pending' = Pending /\ Handles' = Handles /\ \A j : Awaited(j)' = Awaited(j)
  BY <1>1 DEF Pending, Leaving, Handles, Awaited
<1>3. TablesAgree' /\ Active'
  BY <1>1 DEF RtInv, TablesAgree, Active
<1>4. Rounds' /\ Separated'
  BY <1>1, <1>2 DEF RtInv, Rounds, Separated
<1> QED BY <1>3, <1>4 DEF RtInv

LEMMA NewRoundRtInv == IInv /\ RtInv /\ NewRound => RtInv'
<1> SUFFICES ASSUME IInv, RtInv, NewRound PROVE RtInv'
  OBVIOUS
<1>1. /\ executing = None /\ removing = <<>> /\ mReady = <<>> /\ mReady' = mNextRound
      /\ round' = round + 1
      /\ UNCHANGED <<mTaskIdx, mTasks, mType, removing, closures, waits, family, functions,
                     mIsActive, executing, ranIn>>
  BY DEF NewRound, InLoop, StartRound, graph, history, runtime
<1>2. TablesAgree /\ Active /\ Rounds /\ Separated
  BY DEF RtInv
<1>3. Pending' = Pending /\ Handles' = Handles /\ \A j \in Ids : Awaited(j)' = Awaited(j)
  BY <1>1 DEF Pending, Leaving, Handles, Awaited
<1>4. TablesAgree' /\ Active' /\ Separated'
  BY <1>1, <1>2, <1>3 DEF TablesAgree, Active, Separated
<1>5. ASSUME NEW j \in Range(mReady)', NEW i \in Awaited(j)'
      PROVE  ranIn'[i] # 0 /\ ranIn'[i] < round'
  <2>1. j \in Ids /\ waits[j] \cap Pending = {}
    BY <1>1, <1>5, QueuedWaitsForNothing
  <2>2. i \in Awaited(j)
    BY <1>3, <1>5, <2>1
  <2>3. ranIn[i] # 0 /\ i \in Handles
    BY <1>2, <2>1, <2>2, AwaitedRan
  <2>4. ranIn[i] \in 0..round /\ round \in Nat
    BY <1>2, <2>3, LiveIds DEF Rounds, IInv
  <2> QED BY <1>1, <2>3, <2>4
<1>6. round' \in Nat \ {0} /\ ranIn' \in [Ids -> 0..round']
  BY <1>1, <1>2 DEF Rounds
<1>7. Rounds'
  BY <1>1, <1>2, <1>3, <1>5, <1>6 DEF Rounds
<1> QED BY <1>4, <1>7 DEF RtInv

\* The function at the front of the queue is in the table and has not run.
LEMMA FrontHasNotRun ==
    ASSUME IInv, RtInv, removing = <<>>, ~mIsActive, mReady # <<>>
    PROVE  Head(mReady) \in Ids /\ Head(mReady) \in functions /\ ranIn[Head(mReady)] = 0
<1>1. Head(mReady) \in Range(mReady)
  BY TailRange DEF IInv, TypeOK, QueuedOnce
<1>2. Head(mReady) \in Ids /\ Head(mReady) \in mTasks \ closures
  BY <1>1, QueuedWaitsForNothing
<1> QED BY <1>2 DEF RtInv, TablesAgree, Active

LEMMA BeginFunctionRtInv == IInv /\ RtInv /\ BeginFunction => RtInv'
<1> SUFFICES ASSUME IInv, RtInv, BeginFunction PROVE RtInv'
  OBVIOUS
<1> DEFINE h == Head(mReady)
<1>1. /\ removing = <<>> /\ mReady # <<>> /\ ~mIsActive /\ mIsActive' = TRUE /\ executing' = h
      /\ ranIn' = [ranIn EXCEPT ![h] = round]
      /\ UNCHANGED <<mTaskIdx, mTasks, mType, mReady, removing, closures, waits, family,
                     functions, round>>
  BY DEF BeginFunction, InLoop, vars, graph, queues, history
<1>2. TablesAgree /\ Active /\ Rounds /\ Separated
  BY DEF RtInv
<1>3. h \in Ids /\ h \in functions /\ ranIn[h] = 0
  BY <1>1, FrontHasNotRun
<1>4. h \in Range(mReady)
  BY <1>1, TailRange DEF IInv, TypeOK, QueuedOnce
<1>5. waits[h] \cap Pending = {} /\ h \in mTasks \ closures
  BY <1>4, QueuedWaitsForNothing
<1>6. h \in Handles
  BY <1>5 DEF IInv, TypeOK
<1>7. ranIn'[h] = round /\ \A i : i # h => ranIn'[i] = ranIn[i]
  BY <1>1, <1>2, <1>3 DEF Rounds
<1> HIDE DEF h
<1>8. Pending' = Pending /\ Handles' = Handles /\ \A j \in Ids : Awaited(j)' = Awaited(j)
  BY <1>1 DEF Pending, Leaving, Handles, Awaited
<1>9. round \in Nat \ {0}
  BY <1>2 DEF Rounds
<1>10. TablesAgree'
  BY <1>1, <1>2 DEF TablesAgree, h
<1>11. Active'
  <2>1. \A i \in functions : ranIn'[i] # 0 => i = h
    BY <1>1, <1>2, <1>7 DEF Active
  <2> QED BY <1>1, <1>2, <1>7, <1>9, <2>1 DEF Active, h
<1>12. Rounds'
  <2>1. ranIn' \in [Ids -> 0..round']
    BY <1>1, <1>2, <1>3, <1>9 DEF Rounds
  <2>2. \A i \in Ids : ranIn'[i] # 0 => i \in Handles' \ closures' /\ waits'[i] \cap Pending' = {}
    BY <1>1, <1>2, <1>5, <1>6, <1>7, <1>8 DEF Rounds
  <2>3. \A i \in Handles' \ closures' : i \notin functions' => ranIn'[i] # 0
    BY <1>1, <1>2, <1>7, <1>8, <1>9 DEF Rounds
  <2>4. \A j \in Range(mReady) : j \in Ids
    BY QueuedWaitsForNothing
  <2>5. \A j \in Range(mReady)' : \A i \in Awaited(j)' : ranIn'[i] # 0 /\ ranIn'[i] < round'
    <3> SUFFICES ASSUME NEW j \in Range(mReady), NEW i \in Awaited(j)
                 PROVE  ranIn'[i] # 0 /\ ranIn'[i] < round
      BY <1>1, <1>8, <2>4
    <3>1. ranIn[i] # 0 /\ ranIn[i] < round
      BY <1>2 DEF Rounds
    <3> QED BY <1>3, <1>7, <3>1
  <2>6. round' \in Nat \ {0} /\ \A i \in mTasks' \ closures' : mType'[i] = "Round"
    BY <1>1, <1>2 DEF Rounds
  <2> QED BY <2>1, <2>2, <2>3, <2>5, <2>6 DEF Rounds
<1>13. Separated'
  <2> SUFFICES ASSUME NEW j \in Ids, ranIn'[j] # 0, NEW i \in Awaited(j)
               PROVE  ranIn'[i] # 0 /\ ranIn'[i] < ranIn'[j]
    BY <1>8 DEF Separated
  <2>1. CASE j = h
    <3>1. ranIn[i] # 0 /\ ranIn[i] < round
      BY <1>2, <1>4, <2>1 DEF Rounds
    <3> QED BY <1>3, <1>7, <2>1, <3>1
  <2>2. CASE j # h
    <3>1. ranIn[i] # 0 /\ ranIn[i] < ranIn[j]
      BY <1>2, <1>7, <2>2 DEF Separated
    <3> QED BY <1>3, <1>7, <2>2, <3>1
  <2> QED BY <2>1, <2>2
<1> QED BY <1>10, <1>11, <1>12, <1>13 DEF RtInv

LEMMA FunctionReturnsRtInv == IInv /\ RtInv /\ FunctionReturns => RtInv'
<1> SUFFICES ASSUME IInv, RtInv, FunctionReturns PROVE RtInv'
  OBVIOUS
<1> DEFINE h == Head(mReady)
<1>1. /\ executing # None /\ functions' = functions \ {executing} /\ mIsActive' = FALSE
      /\ executing' = None /\ removing = <<>> /\ mReady # <<>> /\ removing' = <<h>>
      /\ UNCHANGED <<mTaskIdx, mTasks, mType, mReady, closures, waits, family, round, ranIn>>
  BY DEF FunctionReturns, PopTask, graph, queues, history, rounds
<1>2. TablesAgree /\ Active /\ Rounds /\ Separated
  BY DEF RtInv
<1>3. executing = h /\ ranIn[h] # 0
  BY <1>1, <1>2 DEF TablesAgree, Active
<1> HIDE DEF h
<1>4. /\ removing'[1] = h /\ removing' # <<>> /\ Handles' = Handles /\ Pending' \subseteq Pending
      /\ \A j : Awaited(j)' = Awaited(j)
  BY <1>1 DEF Handles, Pending, Leaving, Awaited, Range
<1>5. TablesAgree'
  BY <1>1, <1>2, <1>3, <1>4 DEF TablesAgree
<1>6. Active'
  BY <1>1, <1>2, <1>3, <1>4 DEF Active, h
<1>7. Rounds' /\ Separated'
  BY <1>1, <1>2, <1>3, <1>4 DEF Rounds, Separated
<1> QED BY <1>5, <1>6, <1>7 DEF RtInv

LEMMA FunctionThrowsRtInv == IInv /\ RtInv /\ FunctionThrows => RtInv'
<1> SUFFICES ASSUME IInv, RtInv, FunctionThrows PROVE RtInv'
  OBVIOUS
<1>1. /\ executing' = None
      /\ UNCHANGED <<mTaskIdx, mTasks, mType, mReady, removing, closures, waits, family,
                     functions, mIsActive, round, ranIn>>
  BY DEF FunctionThrows, vars, graph, queues, history, rounds
<1>2. /\ Pending' = Pending /\ Handles' = Handles /\ \A j : Awaited(j)' = Awaited(j)
  BY <1>1 DEF Pending, Leaving, Handles, Awaited
<1>3. TablesAgree' /\ Active'
  BY <1>1 DEF RtInv, TablesAgree, Active
<1>4. Rounds' /\ Separated'
  BY <1>1, <1>2 DEF RtInv, Rounds, Separated
<1> QED BY <1>3, <1>4 DEF RtInv

LEMMA RemoveEntryRtInv == IInv /\ RtInv /\ RemoveEntry => RtInv'
<1> SUFFICES ASSUME IInv, RtInv, RemoveEntry PROVE RtInv'
  OBVIOUS
<1> DEFINE n == Len(removing)
<1>1. /\ removing # <<>>
      /\ UNCHANGED <<mTaskIdx, mType, closures, waits, family, functions, mIsActive, executing,
                     round, ranIn>>
  BY DEF RemoveEntry, RemoveTask, VisitDownstream, VisitClosure, EraseTask, graph, history,
         runtime, rounds
<1>2. TypeOK /\ Edges /\ Stack /\ QueuedOnce /\ TablesAgree /\ Active /\ Rounds /\ Separated
  BY DEF IInv, RtInv
<1>3. executing = None /\ ~mIsActive /\ \A i \in functions : ranIn[i] = 0
  BY <1>1, <1>2 DEF TablesAgree, Active
<1>4. removing \in Seq(Ids) /\ n \in Nat \ {0}
  BY <1>1, <1>2, EmptySeq DEF TypeOK
<1>5. /\ functions = (mTasks' \ closures) \ (IF removing' = <<>> THEN {} ELSE {removing'[1]})
      /\ mTasks' \subseteq mTasks
      /\ Pending' \subseteq Pending
      /\ Range(mReady') \subseteq Range(mReady)
  <2>1. CASE VisitDownstream
    <3>1. PICK d \in mDownstream[Removed] :
            mReady' = IF mUpstream[d] \ {Removed} = {} /\ mType[d] = "Continuation"
                      THEN Append(mReady, d) ELSE mReady
      BY <2>1 DEF VisitDownstream
    <3>2. Removed \in Ids
      BY <1>1, RemovedLives
    <3>3. d \in mTasks \ closures
      BY <1>2, <3>2 DEF Edges
    <3>4. mType[d] = "Round"
      BY <1>2, <3>3 DEF Rounds
    <3>5. UNCHANGED <<mTasks, removing>>
      BY <2>1 DEF VisitDownstream
    <3> QED BY <1>1, <1>2, <3>1, <3>4, <3>5 DEF TablesAgree, Pending, Leaving
  <2>2. CASE VisitClosure
    <3>1. PICK c \in mClosures[Removed] :
            removing' = IF mUpstream[c] \ {Removed} = {} THEN Append(removing, c) ELSE removing
      BY <2>2 DEF VisitClosure
    <3>2. UNCHANGED <<mTasks, mReady>>
      BY <2>2 DEF VisitClosure, queues
    <3>3. Removed \in Ids
      BY <1>1, RemovedLives
    <3>4. c \in Ids
      BY <1>2, <3>3 DEF TypeOK
    <3>5. removing' # <<>> /\ removing'[1] = removing[1] /\ Range(removing) \subseteq Range(removing')
      <4>1. CASE removing' = removing
        BY <1>1, <4>1
      <4>2. CASE removing' = Append(removing, c)
        <5>1. Append(removing, c)[1] = removing[1] /\ Len(Append(removing, c)) = n + 1
          BY <1>4, <3>4
        <5>2. Append(removing, c) # <<>>
          BY <1>1, <1>4, <3>4, AppendFront
        <5>3. Range(Append(removing, c)) = Range(removing) \cup {c}
          BY <1>4, <3>4, AppendRange
        <5> QED BY <4>2, <5>1, <5>2, <5>3
      <4> QED BY <3>1, <4>1, <4>2
    <3> QED BY <1>1, <1>2, <3>2, <3>5 DEF TablesAgree, Pending, Leaving
  <2>3. CASE EraseTask
    <3>1. /\ mTasks' = mTasks \ {Removed} /\ removing' = SubSeq(removing, 1, n - 1)
          /\ mReady' = IF n = 1 THEN Tail(mReady) ELSE mReady
      BY <2>3 DEF EraseTask
    <3>2. /\ Len(removing') = n - 1 /\ \A k \in 1..(n - 1) : removing'[k] = removing[k]
          /\ Leaving' = Leaving \ {Removed} /\ removing' \in Seq(Ids)
      BY <1>1, <1>2, <1>4, <3>1, FrontRange DEF Leaving, Stack, Removed
    <3>3. Pending' \subseteq Pending /\ mTasks' \subseteq mTasks
      BY <3>1, <3>2 DEF Pending
    <3>4. Range(mReady') \subseteq Range(mReady)
      BY <1>1, <1>2, <3>1, TailRange DEF TypeOK, QueuedOnce, Stack
    <3>5. CASE n = 1
      <4>1. removing' = <<>> /\ Removed = removing[1]
        <5>1. Len(removing') = 0
          BY <3>2, <3>5
        <5> QED BY <3>2, <3>5, <5>1, EmptySeq DEF Removed
      <4> QED BY <1>1, <1>2, <3>1, <3>3, <3>4, <4>1 DEF TablesAgree
    <3>6. CASE n # 1
      <4>1. n \in 2..n /\ 1 \in 1..(n - 1)
        <5>1. \A m \in Nat \ {0} : m # 1 => m \in 2..m /\ 1 \in 1..(m - 1)
          OBVIOUS
        <5> QED BY <1>4, <3>6, <5>1
      <4>2. Removed \in closures /\ removing'[1] = removing[1] /\ removing' # <<>>
        BY <1>2, <3>2, <4>1 DEF Stack, Removed
      <4> QED BY <1>1, <1>2, <3>1, <3>3, <3>4, <4>2 DEF TablesAgree
    <3> QED BY <3>5, <3>6
  <2> QED BY <2>1, <2>2, <2>3 DEF RemoveEntry, RemoveTask
<1>6. Handles' = Handles /\ \A j : Awaited(j)' = Awaited(j)
  BY <1>1 DEF Handles, Awaited
<1>7. TablesAgree' /\ Active'
  BY <1>1, <1>2, <1>3, <1>5 DEF TablesAgree, Active
<1>8. Rounds'
  BY <1>1, <1>2, <1>5, <1>6 DEF Rounds
<1>9. Separated'
  BY <1>1, <1>2, <1>6 DEF Separated
<1> QED BY <1>7, <1>8, <1>9 DEF RtInv

LEMMA NextRtInv == IInv /\ RtInv /\ [RtNext]_rtVars => RtInv'
<1> SUFFICES ASSUME IInv, RtInv, [RtNext]_rtVars PROVE RtInv'
  OBVIOUS
<1>1. ASSUME NEW k \in Kind, NEW deps \in SUBSET Handles, Then(k, deps) PROVE RtInv'
  BY <1>1, ScheduleRtInv DEF Then
<1>2. ASSUME NEW a \in Handles, NEW b \in Handles, And(a, b) PROVE RtInv'
  <2>1. {a, b} \in SUBSET Handles /\ "and" \in Kind
    BY DEF Kind
  <2> QED BY <1>2, <2>1, ScheduleRtInv DEF And
<1>3. ASSUME NEW h \in Handles, GetClosure(h) PROVE RtInv'
  BY <1>3, GetClosureRtInv
<1>4. ASSUME NEW h \in Handles, Get(h) PROVE RtInv'
  BY <1>4, CallRtInv DEF Get, Enter
<1>5. CASE RunAll \/ RunOneRound
  BY <1>5, CallRtInv DEF RunAll, RunOneRound, Enter
<1>6. CASE Return \/ NoCurrentTask \/ RunNextThrows \/ EnterRound
  BY <1>6, CallRtInv DEF Return, NoCurrentTask, RunNextThrows, EnterRound, Leave
<1>7. CASE UNCHANGED rtVars
  BY <1>7, CallRtInv DEF rtVars, runtime
<1>8. \A h \in Handles : {h} \in SUBSET Handles
  OBVIOUS
<1> QED BY <1>1, <1>2, <1>3, <1>4, <1>5, <1>6, <1>7, <1>8, NewRoundRtInv, BeginFunctionRtInv,
           FunctionReturnsRtInv, FunctionThrowsRtInv, RemoveEntryRtInv
        DEF RtNext, Progress

\* The invariants hold of the runtime in whatever state its rounds are.
THEOREM RuntimeInvariance == RtSpec => [](IInv /\ RtInv)
<1>1. RtInit => IInv /\ RtInv
  BY InitIInv, InitRtInv DEF RtInit
<1>2. (IInv /\ RtInv) /\ [RtNext]_rtVars => (IInv /\ RtInv)'
  BY RuntimeStep, NextIInv, NextRtInv
<1> QED BY <1>1, <1>2, PTL DEF RtSpec

-------------------------------------------------------------------------------
(* What a caller relies on. *)

\* runNext's look-up of the function of the current task never misses, and what
\* it pops is the task whose function it has run.
THEOREM RuntimeTablesAgree == RtSpec => []TablesAgree
BY RuntimeInvariance, PTL DEF RtInv

\* A task runs in a later round than everything it was scheduled to wait for,
\* whatever functions schedule while they run and wherever they throw.
THEOREM RoundsSeparate == RtSpec => []RoundSeparation
<1>1. Separated => RoundSeparation
  BY DEF Separated, RoundSeparation, Awaited
<1> QED BY <1>1, RuntimeInvariance, PTL DEF RtInv

\* No function is called twice, not even one that threw: its shares would be
\* sent a second time.
THEOREM FunctionsRunOnce == RtSpec => RunsOnce
<1>1. IInv /\ RtInv => (BeginFunction => ranIn[Head(mReady)] = 0)
  BY FrontHasNotRun DEF BeginFunction, InLoop
<1> QED BY <1>1, RuntimeInvariance, PTL DEF RtSpec, RunsOnce

\* Once a function has thrown the runtime completes nothing more.
THEOREM ErrorsAreFinal == RtSpec => FailureIsFinal
<1>1. ASSUME RtInv, RtNext, mIsActive, executing = None PROVE mIsActive' /\ mTasks \subseteq mTasks'
  <2>1. removing = <<>>
    BY <1>1 DEF RtInv, Active
  <2>2. ~FunctionReturns /\ ~FunctionThrows /\ ~RemoveEntry
    BY <1>1, <2>1
    DEF FunctionReturns, FunctionThrows, RemoveEntry, RemoveTask, VisitDownstream,
        VisitClosure, EraseTask
  <2>3. ASSUME NEW k \in Kind, NEW deps \in SUBSET Handles, Schedule(k, deps)
        PROVE  mIsActive' = mIsActive /\ mTasks \subseteq mTasks'
    BY <2>3 DEF Schedule, AddTask
  <2>4. ASSUME NEW h \in Handles, GetClosure(h)
        PROVE  mIsActive' = mIsActive /\ mTasks \subseteq mTasks'
    BY <2>4 DEF GetClosure, AddClosure, runtime
  <2>5. ASSUME NEW h \in Handles, Get(h) PROVE UNCHANGED <<mIsActive, mTasks>>
    BY <2>5 DEF Get, Enter, vars
  <2>6. CASE RunAll \/ RunOneRound
    BY <1>1, <2>6 DEF RunAll, RunOneRound, Enter, vars
  <2>7. CASE Return \/ NoCurrentTask \/ RunNextThrows \/ EnterRound
    BY <1>1, <2>7 DEF Return, NoCurrentTask, RunNextThrows, EnterRound, Leave, vars
  <2>8. CASE NewRound
    BY <1>1, <2>8 DEF NewRound, StartRound, runtime
  <2>9. CASE BeginFunction
    BY <1>1, <2>9 DEF BeginFunction
  <2>10. {} \in SUBSET Handles /\ "and" \in Kind
         /\ \A a, b \in Handles : {a} \in SUBSET Handles /\ {a, b} \in SUBSET Handles
    BY DEF Kind
  <2>11. CASE (\E k \in Kind : Then(k, {})) \/ (\E k \in Kind, h \in Handles : Then(k, {h}))
              \/ (\E a, b \in Handles : And(a, b))
    BY <1>1, <2>3, <2>10, <2>11 DEF Then, And
  <2> QED BY <1>1, <2>2, <2>4, <2>5, <2>6, <2>7, <2>8, <2>9, <2>11 DEF RtNext, Progress
<1>2. IInv /\ RtInv /\ [RtNext]_rtVars =>
          (mIsActive /\ executing = None => mIsActive' /\ mTasks \subseteq mTasks')
          \/ UNCHANGED rtVars
  BY <1>1
<1> QED BY <1>2, RuntimeInvariance, PTL DEF RtSpec, FailureIsFinal

\* A closure waits only for tasks and for closures that are older.
ClosuresWaitForOlder == \A x \in mTasks : \A a \in mUpstream[x] \cap closures : a < x

LEMMA NextClosuresWait == IInv /\ ClosuresWaitForOlder /\ [Next]_vars => ClosuresWaitForOlder'
<1> SUFFICES ASSUME IInv, ClosuresWaitForOlder, [Next]_vars PROVE ClosuresWaitForOlder'
  OBVIOUS
<1>1. TypeOK /\ Edges
  BY DEF IInv
<1>2. ASSUME NEW type \in Type, NEW deps \in SUBSET Handles, AddTask(type, deps)
      PROVE  ClosuresWaitForOlder'
  <2>1. /\ removing = <<>> /\ mTaskIdx < MaxTasks /\ mTasks' = mTasks \cup {mTaskIdx}
        /\ mUpstream' = [mUpstream EXCEPT ![mTaskIdx] = deps \cap mTasks] /\ closures' = closures
    BY <1>2 DEF AddTask, TakeIndex
  <2>2. mTaskIdx \in Ids /\ mTasks \subseteq Ids /\ \A i \in mTasks : i < mTaskIdx
    BY <2>1, Quiet
  <2>3. \A x \in mTasks' : mUpstream'[x] = IF x = mTaskIdx THEN deps \cap mTasks ELSE mUpstream[x]
    BY <1>1, <2>1, <2>2 DEF TypeOK
  <2> QED BY <2>1, <2>2, <2>3 DEF ClosuresWaitForOlder
<1>3. ASSUME NEW deps \in SUBSET Handles, AddClosure(deps) PROVE ClosuresWaitForOlder'
  <2>1. /\ removing = <<>> /\ mTaskIdx < MaxTasks /\ closures' = closures \cup {mTaskIdx}
        /\ \/ UNCHANGED <<mTasks, mUpstream>>
           \/ /\ mTasks' = mTasks \cup {mTaskIdx}
              /\ mUpstream' = [mUpstream EXCEPT ![mTaskIdx] = deps \cap mTasks]
    BY <1>3 DEF AddClosure, TakeIndex
  <2>2. /\ mTaskIdx \in Ids /\ mTaskIdx \notin mTasks /\ mTasks \subseteq Ids
        /\ \A i \in mTasks : i < mTaskIdx
        /\ \A x \in Ids : mTaskIdx \notin mUpstream[x]
    BY <2>1, Quiet
  <2>3. \A x \in mTasks : mUpstream'[x] = mUpstream[x]
    BY <1>1, <2>1, <2>2 DEF TypeOK
  <2>4. mTaskIdx \in mTasks' => mUpstream'[mTaskIdx] = deps \cap mTasks
    BY <1>1, <2>1, <2>2 DEF TypeOK
  <2>5. mTasks' \subseteq mTasks \cup {mTaskIdx}
    BY <2>1
  <2> QED BY <2>1, <2>2, <2>3, <2>4, <2>5 DEF ClosuresWaitForOlder
<1>4. CASE VisitDownstream
  <2>1. PICK d \in mDownstream[Removed] :
          mUpstream' = [i \in Ids |-> IF i = d THEN mUpstream[d] \ {Removed}
                                      ELSE IF i \in mClosures[Removed] THEN mUpstream[i] \cup {d}
                                      ELSE mUpstream[i]]
    BY <1>4 DEF VisitDownstream
  <2>2. UNCHANGED <<mTasks, closures>> /\ mTasks \subseteq Ids
    BY <1>1, <1>4, LiveIds DEF VisitDownstream, history
  <2>3. d \notin closures
    BY <1>1, <1>4, RemovedLives DEF Edges, VisitDownstream
  <2>4. \A x \in mTasks : mUpstream'[x] \subseteq mUpstream[x] \cup {d}
    BY <2>1, <2>2
  <2> QED BY <2>2, <2>3, <2>4 DEF ClosuresWaitForOlder
<1>5. CASE VisitClosure
  <2>1. \E c : mUpstream' = [mUpstream EXCEPT ![c] = @ \ {Removed}]
    BY <1>5 DEF VisitClosure
  <2>2. UNCHANGED <<mTasks, closures>> /\ mTasks \subseteq Ids
    BY <1>1, <1>5, LiveIds DEF VisitClosure, history
  <2>3. \A x \in mTasks : mUpstream'[x] \subseteq mUpstream[x]
    BY <1>1, <2>1, <2>2 DEF TypeOK
  <2> QED BY <2>2, <2>3 DEF ClosuresWaitForOlder
<1>6. CASE EraseTask
  BY <1>6 DEF EraseTask, graph, history, ClosuresWaitForOlder
<1>7. CASE StartRound \/ PopTask \/ UNCHANGED vars
  BY <1>7 DEF StartRound, PopTask, vars, graph, history, ClosuresWaitForOlder
<1> QED BY <1>2, <1>3, <1>4, <1>5, <1>6, <1>7 DEF Next, Run, RemoveTask

\* When the last task has gone, so has the last closure: the oldest one would
\* have nothing left to wait for.
LEMMA NoTasksNoClosures ==
    ASSUME IInv, ClosuresWaitForOlder, removing = <<>>, mTasks \subseteq closures
    PROVE  mTasks = {} /\ mNextRound = <<>>
<1>1. TypeOK /\ Edges /\ Stack /\ QueuedOnce
  BY DEF IInv
<1>2. Leaving = {} /\ mTasks \subseteq Ids /\ mTasks \subseteq Nat
  BY <1>1, LiveIds, MaxTasksAssumption DEF Leaving, Range, Ids
<1>3. mTasks = {}
  <2> SUFFICES ASSUME mTasks # {} PROVE FALSE
    OBVIOUS
  <2>1. PICK c \in mTasks : \A y \in mTasks : c <= y
    BY <1>2, Numbers!LeastElement
  <2>2. mUpstream[c] \subseteq mTasks \cap closures
    BY <1>1, <1>2 DEF Edges, TypeOK
  <2>3. ASSUME NEW a \in mUpstream[c] PROVE FALSE
    <3>1. a \in mTasks /\ a < c
      BY <2>2, <2>3 DEF ClosuresWaitForOlder
    <3>2. c <= a /\ a \in Nat /\ c \in Nat
      BY <1>2, <2>1, <3>1
    <3> QED BY <3>1, <3>2
  <2>4. mUpstream[c] = {}
    BY <2>3
  <2> QED BY <1>1, <1>2, <2>4 DEF Stack
<1>4. Range(mNextRound) = {}
  BY <1>1, <1>3 DEF QueuedOnce
<1>5. mNextRound = <<>>
  <2> SUFFICES ASSUME mNextRound # <<>> PROVE FALSE
    OBVIOUS
  <2>1. Head(mNextRound) \in Range(mNextRound)
    BY <1>1, TailRange DEF TypeOK, QueuedOnce
  <2> QED BY <1>4, <2>1
<1> QED BY <1>3, <1>5

\* A runAll that returns leaves no task and no closure behind.
THEOREM RunAllLeavesNothing == RtSpec => RunAllDrains
<1>1. RtInit => ClosuresWaitForOlder
  BY DEF RtInit, Init, ClosuresWaitForOlder
<1>2. IInv /\ ClosuresWaitForOlder /\ [RtNext]_rtVars => ClosuresWaitForOlder'
  BY RuntimeStep, NextClosuresWait
<1>3. ASSUME IInv, RtInv, ClosuresWaitForOlder, call.op = "runAll", Return
      PROVE  mTasks = {} /\ mNextRound = <<>>
  <2>1. removing = <<>> /\ functions = {}
    BY <1>3 DEF Return, InLoop, LoopOver
  <2>2. mTasks \subseteq closures
    BY <1>3, <2>1 DEF RtInv, TablesAgree
  <2> QED BY <1>3, <2>1, <2>2, NoTasksNoClosures
<1>4. RtSpec => [](IInv /\ RtInv /\ ClosuresWaitForOlder)
  BY <1>1, <1>2, RuntimeInvariance, PTL DEF RtSpec
<1>5. IInv /\ RtInv /\ ClosuresWaitForOlder =>
          (call.op = "runAll" /\ Return => mTasks = {} /\ mNextRound = <<>>)
  BY <1>3
<1> QED BY <1>4, <1>5, PTL DEF RtSpec, RunAllDrains
===============================================================================
