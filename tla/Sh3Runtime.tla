------------------------------ MODULE Sh3Runtime ------------------------------
(***************************************************************************)
(* aby3/sh3/Sh3Runtime: one party's runtime on top of its Scheduler.  User *)
(* code schedules functions (`then', `&&', `getClosure') and blocks in     *)
(* get, runAll or runOneRound, which run them one at a time.  A function   *)
(* is user code too: it may schedule more, and it may throw, its own error *)
(* or the one that a recursive get() meets.                                *)
(*                                                                         *)
(* What a function computes is left out: a run of it is the interval from  *)
(* BeginFunction to FunctionReturns or FunctionThrows.                     *)
(***************************************************************************)
EXTENDS Scheduler, Integers

None == -1         \* the index of the null task
Kind == {"round", "continuation", "and"}

VARIABLES
    functions,      \* the indices in Sh3Runtime::mTasks
    mIsActive,
    executing,      \* the task whose function is running, or None
    call,           \* the blocking call in progress, and the task it waits for
    \* History.  No action reads these.
    kind,           \* kind[i]: what the function of i was scheduled as
    round,          \* the number of the current round
    ranIn           \* ranIn[i]: the round that i was run in, 0 for never

runtime == <<functions, mIsActive, executing, call>>
rounds  == <<kind, round, ranIn>>
rtVars  == <<vars, runtime, rounds>>

Idle == [op |-> "none"]
Calls == {Idle} \cup [op : {"get"}, task : Ids]
                \cup [op : {"runAll", "currentTask", "runOneRound"}]

-------------------------------------------------------------------------------

RtInit == /\ Init
          /\ functions = {}
          /\ mIsActive = FALSE
          /\ executing = None
          /\ call = Idle
          /\ kind = [i \in Ids |-> "round"]
          /\ round = 1
          /\ ranIn = [i \in Ids |-> 0]

\* User code runs between blocking calls and inside the functions.
UserCode == \/ call = Idle
            \/ executing # None /\ kind[executing] # "and"

\* Slips (see Scheduler): the function is stored under the next index; the kind
\* of task decides its type in the scheduler.
ScheduleAtNextIndex(k, deps) ==
    /\ UserCode
    /\ AddTask("Round", deps)
    /\ functions' = functions \cup {mTaskIdx + 1}
    /\ kind' = [kind EXCEPT ![mTaskIdx] = k]
    /\ UNCHANGED <<mIsActive, executing, call, round, ranIn>>

ScheduleByKind(k, deps) ==
    /\ UserCode
    /\ AddTask(IF k = "round" THEN "Round" ELSE "Continuation", deps)
    /\ functions' = functions \cup {mTaskIdx}
    /\ kind' = [kind EXCEPT ![mTaskIdx] = k]
    /\ UNCHANGED <<mIsActive, executing, call, round, ranIn>>

\* addTask and addAnd: all three kinds enter the scheduler as Type::Round.
Schedule(k, deps) ==
    /\ UserCode
    /\ AddTask("Round", deps)
    /\ functions' = functions \cup {mTaskIdx}
    /\ kind' = [kind EXCEPT ![mTaskIdx] = k]
    /\ UNCHANGED <<mIsActive, executing, call, round, ranIn>>

\* A handle's `then'; the null task of the runtime has no dependencies.
Then(k, deps) == k # "and" /\ Schedule(k, deps)

And(a, b) == Schedule("and", {a, b})

GetClosure(h) ==
    /\ UserCode
    /\ AddClosure({h})
    /\ UNCHANGED <<runtime, rounds>>

-------------------------------------------------------------------------------
\* The blocking calls.

Enter(c) == /\ call = Idle
            /\ call' = c
            /\ UNCHANGED <<vars, functions, mIsActive, executing, rounds>>

Get(h) == Enter([op |-> "get", task |-> h])

RunAll == Enter([op |-> "runAll"])

RunOneRound == mTasks # {} /\ Enter([op |-> "currentTask"])

\* The loop of the call has control: no function runs, no removal is going on.
InLoop == call # Idle /\ executing = None /\ removing = <<>>

\* Slip: runAll stops when no task is ready.
LoopOverUnlessReady ==
    \/ call.op = "get" /\ call.task \notin mTasks
    \/ call.op \in {"runAll", "runOneRound"} /\ mReady = <<>>

LoopOver == \/ call.op = "get" /\ call.task \notin mTasks
            \/ call.op = "runAll" /\ functions = {}
            \/ call.op = "runOneRound" /\ mReady = <<>>

Leave == call' = Idle /\ UNCHANGED <<vars, functions, mIsActive, executing, rounds>>

Return == InLoop /\ LoopOver /\ Leave

\* Slip: it waits for a task instead.
NoCurrentTaskWaits ==
    InLoop /\ ~LoopOver /\ mReady = <<>> /\ mNextRound = <<>> /\ UNCHANGED rtVars

\* Scheduler::currentTask throws when both queues are empty.
NoCurrentTask == InLoop /\ ~LoopOver /\ mReady = <<>> /\ mNextRound = <<>> /\ Leave

\* runOneRound calls currentTask once before its loop.
EnterRound ==
    /\ InLoop
    /\ call.op = "currentTask"
    /\ mReady # <<>>
    /\ call' = [op |-> "runOneRound"]
    /\ UNCHANGED <<vars, functions, mIsActive, executing, rounds>>

\* currentTask swaps the queues; runNext gets there only when it is not active.
NewRound ==
    /\ InLoop
    /\ ~LoopOver
    /\ call.op # "currentTask" => ~mIsActive
    /\ StartRound
    /\ round' = round + 1
    /\ UNCHANGED <<runtime, kind, ranIn>>

\* runNext up to the call of the function.
BeginFunction ==
    /\ InLoop
    /\ ~LoopOver
    /\ call.op # "currentTask"
    /\ ~mIsActive
    /\ mReady # <<>>
    /\ mIsActive' = TRUE
    /\ executing' = Head(mReady)
    /\ ranIn' = [ranIn EXCEPT ![Head(mReady)] = round]
    /\ UNCHANGED <<vars, functions, call, kind, round>>

\* Slip: the error clears the flag.
RunNextThrowsAndResets ==
    /\ InLoop /\ ~LoopOver /\ call.op # "currentTask" /\ mIsActive
    /\ call' = Idle
    /\ mIsActive' = FALSE
    /\ UNCHANGED <<vars, functions, executing, rounds>>

\* runNext while a function is running, or after one has thrown.
RunNextThrows == InLoop /\ ~LoopOver /\ call.op # "currentTask" /\ mIsActive /\ Leave

\* The rest of runNext.  The removal that popTask starts goes on in RemoveEntry.
FunctionReturns ==
    /\ executing # None
    /\ functions' = functions \ {executing}
    /\ mIsActive' = FALSE
    /\ executing' = None
    /\ PopTask
    /\ UNCHANGED <<call, rounds>>

\* Slip: the flag is cleared when the function throws (a guard object would).
FunctionThrowsAndResets ==
    /\ executing # None /\ kind[executing] # "and"
    /\ executing' = None
    /\ call' = Idle
    /\ mIsActive' = FALSE
    /\ UNCHANGED <<vars, functions, rounds>>

\* The exception leaves runNext and the loop that called it; nothing is undone.
FunctionThrows ==
    /\ executing # None
    /\ kind[executing] # "and"
    /\ executing' = None
    /\ call' = Idle
    /\ UNCHANGED <<vars, functions, mIsActive, rounds>>

RemoveEntry == RemoveTask /\ UNCHANGED <<runtime, rounds>>

Progress == \/ Return \/ NoCurrentTask \/ EnterRound \/ NewRound \/ BeginFunction
            \/ RunNextThrows \/ FunctionReturns \/ FunctionThrows \/ RemoveEntry

RtNext == \/ \E k \in Kind : Then(k, {}) \/ \E h \in Handles : Then(k, {h})
          \/ \E a, b \in Handles : And(a, b)
          \/ \E h \in Handles : GetClosure(h) \/ Get(h)
          \/ RunAll
          \/ RunOneRound
          \/ Progress

RtSpec == RtInit /\ [][RtNext]_rtVars

\* The thread in a blocking call keeps running, and every function ends.
RtFairSpec == RtSpec /\ WF_rtVars(Progress)

-------------------------------------------------------------------------------

\* The runtime's table of functions and the scheduler's table of tasks change
\* at different places of runNext, yet the look-up of line 284 never misses:
\* they hold the same tasks, except for one that is being removed, and the
\* function that runs is the one at the front of the queue that popTask drops.
TablesAgree ==
    /\ functions = (mTasks \ closures) \ (IF removing = <<>> THEN {} ELSE {removing[1]})
    /\ executing # None => mReady # <<>> /\ executing = Head(mReady) /\ removing = <<>>

\* A task that waits for others runs in a later round than every one of them,
\* and than every member of the closures among them: `task' in Sh3Runtime.h:32,
\* "executed in the following round".
RoundSeparation ==
    \A j \in Ids : ranIn[j] # 0 =>
        \A i \in (waits[j] \cup UNION {family[c] : c \in waits[j] \cap closures}) \ closures :
            ranIn[i] # 0 /\ ranIn[i] < ranIn[j]

\* No function is run twice, not even one that threw and is still at the front
\* of the queue: a second run would send its shares a second time.
RunsOnce == [][BeginFunction => ranIn[Head(mReady)] = 0]_rtVars

\* Nothing completes after a function has thrown.
FailureIsFinal ==
    [][mIsActive /\ executing = None => mIsActive' /\ mTasks \subseteq mTasks']_rtVars

\* A runAll that returns without an exception leaves nothing behind, not even a
\* closure: the destructor's "Runtime not empty" is not printed after it.  (It
\* tests the table of functions, which holds no closures.)
RunAllDrains ==
    [][call.op = "runAll" /\ Return => mTasks = {} /\ mNextRound = <<>>]_rtVars

\* Every blocking call ends, by returning or by throwing.
EveryCallReturns == call # Idle ~> call = Idle

\* Sh3Runtime.h:35 and :41 say that a continuation "can be executed in the same
\* round as this task".
ContinuationInSameRound ==
    \A j \in Ids : \A i \in waits[j] :
        kind[j] = "continuation" /\ ranIn[j] # 0 /\ i \notin closures => ranIn[j] = ranIn[i]
===============================================================================
