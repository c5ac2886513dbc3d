---------------------------- MODULE MCDecisionTree ----------------------------
(* Every binary tree of at most MaxNodes nodes. *)
EXTENDS DecisionTree

\* Leaves with samples of one class, and of several.
MCPure  == {{1}, {2}}
MCMixed == {{1}, {2}, {1, 2}}
===============================================================================
