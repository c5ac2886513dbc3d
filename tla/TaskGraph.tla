------------------------------ MODULE TaskGraph -------------------------------
(***************************************************************************)
(* The abstract specification of the task scheduler: what a caller of      *)
(* Sh3Runtime may rely on, without queues, edges or their bookkeeping.     *)
(*   - a task completes after everything it was scheduled downstream of;   *)
(*   - a closure completes after its whole family, including the tasks     *)
(*     that joined the family while it was running.                        *)
(* The order among tasks that wait for nothing is left open.               *)
(***************************************************************************)
EXTENDS Naturals, TaskFamily

CONSTANT MaxTasks       \* bound on the number of handles ever given out

Ids == 0..(MaxTasks - 1)

VARIABLES next,         \* the next handle
          pending,      \* handles given out and not completed
          closures,     \* handles that are closures
          waits,        \* waits[i]: what i was waiting for when scheduled
          family        \* family[c]: the tasks closure c stands for

vars == <<next, pending, closures, waits, family>>

Handles == 0..(next - 1)

Init == /\ next = 0
        /\ pending = {}
        /\ closures = {}
        /\ waits = [i \in Ids |-> {}]
        /\ family = [i \in Ids |-> {}]

Submit(D) ==
    /\ next < MaxTasks
    /\ next' = next + 1
    /\ pending' = pending \cup {next}
    /\ waits' = [waits EXCEPT ![next] = D \cap pending]
    /\ family' = Adopt(family, pending, closures, next, D)
    /\ UNCHANGED closures

\* A closure of tasks that are all complete is complete from the start.
SubmitClosure(T) ==
    /\ next < MaxTasks
    /\ next' = next + 1
    /\ closures' = closures \cup {next}
    /\ IF T \cap pending = {}
       THEN UNCHANGED <<pending, family>>
       ELSE /\ pending' = pending \cup {next}
            /\ family' = [family EXCEPT ![next] =
                              Descendants(T \cap pending, pending, closures, waits)]
    /\ UNCHANGED waits

Complete(i) ==
    /\ i \in pending \ closures
    /\ waits[i] \cap pending = {}
    /\ pending' = pending \ {i}
    /\ UNCHANGED <<next, closures, waits, family>>

CompleteClosure(c) ==
    /\ c \in pending \cap closures
    /\ family[c] \cap pending = {}
    /\ pending' = pending \ {c}
    /\ UNCHANGED <<next, closures, waits, family>>

Next == \/ \E D \in SUBSET Handles : Submit(D) \/ SubmitClosure(D)
        \/ \E i \in Ids : Complete(i) \/ CompleteClosure(i)

Spec == Init /\ [][Next]_vars
===============================================================================
