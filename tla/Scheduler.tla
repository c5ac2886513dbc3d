------------------------------ MODULE Scheduler -------------------------------
(***************************************************************************)
(* The Scheduler of aby3/Common/Task.h: the table of live tasks with their *)
(* up-, downstream and closure edges, the queue of ready tasks and the     *)
(* queue of the next round.                                                *)
(*                                                                         *)
(* Two things are abstracted.  The edge vectors, which never hold an index *)
(* twice, are sets; mDownstream is appended to with fresh indices only, so *)
(* walking it in order is walking it by ascending index.  removeTask walks *)
(* the vectors of the task it removes and then erases the task: here each  *)
(* iteration is one step that takes the visited index out of the set, and  *)
(* `removing' is the stack of the recursive calls in progress.  Callers    *)
(* run in the scheduler's thread, so nothing else happens until the stack  *)
(* is empty again.                                                         *)
(***************************************************************************)
EXTENDS Naturals, Sequences, Functions, TaskFamily

CONSTANT MaxTasks       \* bound on the number of indices handed out

ASSUME MaxTasksAssumption == MaxTasks \in Nat

Ids  == 0..(MaxTasks - 1)
Type == {"Round", "Continuation"}

VARIABLES
    mTaskIdx,       \* the next index
    mTasks,         \* the indices in the table
    mType,          \* mType[i], mUpstream[i], ...: the fields of TaskBase
    mUpstream,
    mDownstream,
    mClosures,
    mReady,         \* queue of the current round
    mNextRound,     \* queue of the next round
    removing,       \* stack of removeTask calls in progress
    \* History: what the callers asked for.  No action reads these.
    closures,       \* indices handed out by addClosure
    waits,          \* waits[i]: the live dependencies of i when it was added
    family          \* family[c]: the tasks that closure c stands for

graph   == <<mType, mUpstream, mDownstream, mClosures>>
queues  == <<mReady, mNextRound>>
history == <<closures, waits, family>>
vars    == <<mTaskIdx, mTasks, graph, queues, removing, history>>

Handles == 0..(mTaskIdx - 1)

Leaving == Range(removing)
Pending == mTasks \ Leaving
Removed == removing[Len(removing)]      \* by the innermost call

-------------------------------------------------------------------------------

Init == /\ mTaskIdx = 0
        /\ mTasks = {}
        /\ mType = [i \in Ids |-> "Round"]
        /\ mUpstream = [i \in Ids |-> {}]
        /\ mDownstream = [i \in Ids |-> {}]
        /\ mClosures = [i \in Ids |-> {}]
        /\ mReady = <<>>
        /\ mNextRound = <<>>
        /\ removing = <<>>
        /\ closures = {}
        /\ waits = [i \in Ids |-> {}]
        /\ family = [i \in Ids |-> {}]

-------------------------------------------------------------------------------
\* Slips: what some definitions below would be with a plausible mistake.  Only
\* runs that show that a property notices the mistake use them.

TakeIndexTwice == mTaskIdx < MaxTasks /\ UNCHANGED mTaskIdx

\* The swap replaced by clearing the queue, or by popping from its back.
StartRoundForgets ==
    /\ removing = <<>> /\ mReady = <<>> /\ mNextRound # <<>>
    /\ mNextRound' = <<>>
    /\ UNCHANGED <<mTaskIdx, mTasks, mReady, graph, removing, history>>

StartRoundReverses ==
    /\ removing = <<>> /\ mReady = <<>> /\ mNextRound # <<>>
    /\ mReady' = [n \in 1..Len(mNextRound) |-> mNextRound[Len(mNextRound) + 1 - n]]
    /\ mNextRound' = <<>>
    /\ UNCHANGED <<mTaskIdx, mTasks, graph, removing, history>>

\* A downstream task does not take the closures over.
VisitDownstreamDropsClosures ==
    /\ removing # <<>>
    /\ \E d \in mDownstream[Removed] :
        LET released == mUpstream[d] \ {Removed} = {}
        IN /\ \A e \in mDownstream[Removed] : d <= e
           /\ mDownstream' = [mDownstream EXCEPT ![Removed] = @ \ {d}]
           /\ mUpstream' = [mUpstream EXCEPT ![d] = @ \ {Removed}]
           /\ mNextRound' = IF released /\ mType[d] = "Round"
                            THEN Append(mNextRound, d) ELSE mNextRound
           /\ mReady' = IF released /\ mType[d] = "Continuation"
                        THEN Append(mReady, d) ELSE mReady
    /\ UNCHANGED <<mTaskIdx, mTasks, mType, mClosures, removing, history>>

\* popTask forgets to drop the front of the queue.
EraseTaskKeepsFront ==
    /\ removing # <<>> /\ mDownstream[Removed] = {} /\ mClosures[Removed] = {}
    /\ mTasks' = mTasks \ {Removed}
    /\ removing' = SubSeq(removing, 1, Len(removing) - 1)
    /\ UNCHANGED <<mTaskIdx, graph, queues, history>>
-------------------------------------------------------------------------------

\* Both kinds of entry take the next index.
TakeIndex == mTaskIdx < MaxTasks /\ mTaskIdx' = mTaskIdx + 1

\* addTask: dependencies that have left the table are complete and are not
\* linked; a task that is linked to nothing is ready at once.
AddTask(type, deps) ==
    /\ removing = <<>>
    /\ TakeIndex
    /\ LET idx  == mTaskIdx
           live == deps \cap mTasks
       IN /\ mTasks' = mTasks \cup {idx}
          /\ mType' = [mType EXCEPT ![idx] = type]
          /\ mUpstream' = [mUpstream EXCEPT ![idx] = live]
          /\ mDownstream' = [a \in Ids |-> IF a \in live
                                           THEN mDownstream[a] \cup {idx}
                                           ELSE mDownstream[a]]
          /\ mReady' = IF live = {} THEN Append(mReady, idx) ELSE mReady
          /\ waits' = [waits EXCEPT ![idx] = live]
          /\ family' = Adopt(family, mTasks, closures, idx, deps)
    /\ UNCHANGED <<mClosures, mNextRound, removing, closures>>

\* addClosure: the new entry is linked from the mClosures of its dependencies
\* and enters the table only when one of them is still there.
AddClosure(deps) ==
    /\ removing = <<>>
    /\ TakeIndex
    /\ LET idx  == mTaskIdx
           live == deps \cap mTasks
       IN /\ mClosures' = [a \in Ids |-> IF a \in live
                                         THEN mClosures[a] \cup {idx}
                                         ELSE mClosures[a]]
          /\ closures' = closures \cup {idx}
          /\ IF live = {}
             THEN UNCHANGED <<mTasks, mType, mUpstream, family>>
             ELSE /\ mTasks' = mTasks \cup {idx}
                  /\ mType' = [mType EXCEPT ![idx] = "Continuation"]
                  /\ mUpstream' = [mUpstream EXCEPT ![idx] = live]
                  /\ family' = [family EXCEPT ![idx] =
                                    Descendants(live, mTasks, closures, waits)]
    /\ UNCHANGED <<mDownstream, queues, removing, waits>>

\* currentTask when the current round is over.
StartRound ==
    /\ removing = <<>>
    /\ mReady = <<>>
    /\ mNextRound # <<>>
    /\ mReady' = mNextRound
    /\ mNextRound' = <<>>
    /\ UNCHANGED <<mTaskIdx, mTasks, graph, removing, history>>

\* popTask calls removeTask on the front of the queue.
PopTask ==
    /\ removing = <<>>
    /\ mReady # <<>>
    /\ removing' = <<Head(mReady)>>
    /\ UNCHANGED <<mTaskIdx, mTasks, graph, queues, history>>

\* First loop of removeTask: release a downstream task, queue it when nothing
\* holds it back any more, and hand the closures of the removed task on to it.
VisitDownstream ==
    /\ removing # <<>>
    /\ \E d \in mDownstream[Removed] :
        LET idx      == Removed
            released == mUpstream[d] \ {idx} = {}
        IN /\ \A e \in mDownstream[idx] : d <= e
           /\ mDownstream' = [mDownstream EXCEPT ![idx] = @ \ {d}]
           /\ mUpstream' = [i \in Ids |->
                                IF i = d THEN mUpstream[d] \ {idx}
                                ELSE IF i \in mClosures[idx] THEN mUpstream[i] \cup {d}
                                ELSE mUpstream[i]]
           /\ mClosures' = [mClosures EXCEPT ![d] = @ \cup mClosures[idx]]
           /\ mNextRound' = IF released /\ mType[d] = "Round"
                            THEN Append(mNextRound, d) ELSE mNextRound
           /\ mReady' = IF released /\ mType[d] = "Continuation"
                        THEN Append(mReady, d) ELSE mReady
    /\ UNCHANGED <<mTaskIdx, mTasks, mType, removing, history>>

\* Second loop: a closure that nothing holds back any more is removed in turn.
VisitClosure ==
    /\ removing # <<>>
    /\ mDownstream[Removed] = {}
    /\ \E c \in mClosures[Removed] :
        LET idx == Removed
        IN /\ mClosures' = [mClosures EXCEPT ![idx] = @ \ {c}]
           /\ mUpstream' = [mUpstream EXCEPT ![c] = @ \ {idx}]
           /\ removing' = IF mUpstream[c] \ {idx} = {}
                          THEN Append(removing, c) ELSE removing
    /\ UNCHANGED <<mTaskIdx, mTasks, mType, mDownstream, queues, history>>

\* End of removeTask; the outermost call returns to popTask, which drops the
\* front of the queue.
EraseTask ==
    /\ removing # <<>>
    /\ mDownstream[Removed] = {}
    /\ mClosures[Removed] = {}
    /\ mTasks' = mTasks \ {Removed}
    /\ removing' = SubSeq(removing, 1, Len(removing) - 1)
    /\ mReady' = IF Len(removing) = 1 THEN Tail(mReady) ELSE mReady
    /\ UNCHANGED <<mTaskIdx, graph, mNextRound, history>>

RemoveTask == VisitDownstream \/ VisitClosure \/ EraseTask

Run == StartRound \/ PopTask \/ RemoveTask

Next == \/ \E type \in Type, deps \in SUBSET Handles : AddTask(type, deps)
        \/ \E deps \in SUBSET Handles : AddClosure(deps)
        \/ Run

Spec == Init /\ [][Next]_vars

\* The caller of a handle's get() keeps calling currentTask and popTask.
FairSpec == Spec /\ WF_vars(Run)
-------------------------------------------------------------------------------

TypeOK == /\ mTaskIdx \in 0..MaxTasks
          /\ mTasks \subseteq Handles
          /\ mType \in [Ids -> Type]
          /\ mUpstream \in [Ids -> SUBSET Ids]
          /\ mDownstream \in [Ids -> SUBSET Ids]
          /\ mClosures \in [Ids -> SUBSET Ids]
          /\ mReady \in Seq(Ids)
          /\ mNextRound \in Seq(Ids)
          /\ removing \in Seq(Ids)
          /\ closures \subseteq Handles
          /\ waits \in [Ids -> SUBSET Ids]
          /\ family \in [Ids -> SUBSET Ids]

\* No `throw RTE_LOC' of removeTask, removeUpstream, addReady, addNextRound or
\* popTask is reachable, and line 266 never dereferences the end of the table:
\* whatever is being removed or queued is in the table with nothing upstream,
\* and every edge that a removal will walk leads to a live entry that still
\* counts the removed task among its upstream.
NoThrow ==
    /\ \A i \in Leaving : i \in mTasks /\ mUpstream[i] = {}
    /\ \A i \in Leaving : \A x \in mDownstream[i] \cup mClosures[i] :
            x \in mTasks /\ i \in mUpstream[x]
    /\ \A i \in Range(mReady) \cup Range(mNextRound) :
            i \in mTasks /\ mUpstream[i] = {}

\* The two queues together hold exactly the tasks that nothing holds back,
\* each of them once: no task is lost, none can run twice, and a closure,
\* which has no function to run, is never queued.
QueuedOnce ==
    /\ IsInjective(mReady) /\ IsInjective(mNextRound)
    /\ Range(mReady) \cap Range(mNextRound) = {}
    /\ Range(mReady) \cup Range(mNextRound) =
            {i \in mTasks \ closures : mUpstream[i] = {}}

\* A closure leaves the table only after its whole family has, the tasks that
\* were scheduled downstream of a member while the closure was pending too.
ClosureAfterFamily ==
    \A c \in closures : c \notin Pending => family[c] \cap Pending = {}

\* A task reaches the front of the queue only when all it was scheduled
\* downstream of has completed, and never ahead of an older task of its type
\* that waited for no more than it did.  Sh3Encryptor::revealAll and every
\* exchange of shares rely on it: the task that sends is added before the task
\* that blocks receiving, at all three parties.
DependencyOrder ==
    \A j \in Ids : (mReady # <<>> /\ j = Head(mReady)) =>
        /\ waits[j] \cap Pending = {}
        /\ \A i \in Pending \ closures :
              i < j /\ mType[i] = mType[j] => ~(waits[i] \subseteq waits[j])

\* currentTask finds a task whenever the table is not empty: a caller that waits
\* for a handle never meets the `throw RTE_LOC' of an empty queue.
NeverStuck ==
    removing = <<>> /\ mTasks # {} => mReady # <<>> \/ mNextRound # <<>>

\* No two entries wait for one another.
Acyclic == NoCycle(Pending, closures, waits, family)

\* An empty queue is met only by callers that have made entries wait for one
\* another, a task for a closure and the closure for the task.
StuckOnlyInCycle == Acyclic => NeverStuck

\* The scheduler implements the abstract task graph.
Abstract == INSTANCE TaskGraph WITH next <- mTaskIdx, pending <- Pending

ImplementsTaskGraph == Abstract!Spec

\* Everything that is scheduled completes, closures included, unless a cycle is
\* made before.
EverythingCompletes == \A i \in Ids : i \in mTasks ~> i \notin mTasks \/ ~Acyclic
===============================================================================
