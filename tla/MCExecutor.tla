----------------------------- MODULE MCExecutor -----------------------------
(***************************************************************************)
(* Model-checking instances of Executor.                                   *)
(***************************************************************************)
EXTENDS Executor

CONSTANTS e1, e2, e3
=============================================================================
