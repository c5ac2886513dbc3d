------------------------------ MODULE MCRuntime -------------------------------
(* One party's runtime with at most MaxTasks tasks and closures. *)
EXTENDS Sh3Runtime
===============================================================================
