---------------------------- MODULE MCDispatcher ----------------------------
(***************************************************************************)
(* Model-checking instances of Dispatcher.                                 *)
(***************************************************************************)
EXTENDS Dispatcher, TLC

CONSTANTS e1, e2, o1, o2

Symmetry == Permutations({e1, e2}) \cup Permutations({o1, o2})
=============================================================================
