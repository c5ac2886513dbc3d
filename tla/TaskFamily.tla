------------------------------ MODULE TaskFamily ------------------------------
(***************************************************************************)
(* What the comments of Sh3Runtime.h promise of task graphs, as operators  *)
(* shared by the abstract specification (TaskGraph) and by the history     *)
(* variables of the detailed one (Scheduler).                              *)
(*                                                                         *)
(* A task i that is scheduled with dependencies D waits for the members of *)
(* D that are still pending at that moment.  A closure c of T stands for T *)
(* and for everything scheduled, directly or not, downstream of T: this    *)
(* set is called the family of c, and it grows as long as c is pending.    *)
(***************************************************************************)

\* The least set of pending tasks that contains T and every scheduled task
\* that waits for one of its members.
Descendants(T, pending, closures, waits) ==
    {i \in pending :
        \A S \in SUBSET pending :
            (/\ T \subseteq S
             /\ \A j \in pending \ closures : waits[j] \cap S # {} => j \in S)
            => i \in S}

\* The families after task i has been scheduled downstream of D: a pending
\* closure adopts i when i waits for one of the pending members of its family.
Adopt(family, pending, closures, i, D) ==
    [c \in DOMAIN family |->
        IF c \in pending \cap closures /\ D \cap pending \cap family[c] # {}
        THEN family[c] \cup {i}
        ELSE family[c]]

\* What a pending task is waiting for.
WaitsFor(i, pending, closures, waits, family) ==
    (IF i \in closures THEN family[i] ELSE waits[i]) \cap pending

\* No set of tasks whose members all wait for one another.  A caller that
\* schedules a task downstream of both T and the closure of T breaks this:
\* the closure then waits for the task and the task for the closure.
NoCycle(pending, closures, waits, family) ==
    \A S \in SUBSET pending :
        S # {} =>
        \E i \in S : WaitsFor(i, pending, closures, waits, family) \cap S = {}
===============================================================================
