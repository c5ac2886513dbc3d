----------------------------- MODULE MCScheduler ------------------------------
(* The scheduler with at most MaxTasks indices, every dependency pattern. *)
EXTENDS Scheduler
===============================================================================
