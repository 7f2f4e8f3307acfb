--------------------------- MODULE MCPoolTracking ---------------------------
(***************************************************************************)
(* Model-checking instance of PoolTracking: a configured and a new V2 pool *)
(* and the goroutines of V3, which have no pool.                           *)
(***************************************************************************)
EXTENDS PoolTracking

CONSTANTS v2, v3, m, n

Protocol == [p \in {m, n} |-> v2]
=============================================================================
