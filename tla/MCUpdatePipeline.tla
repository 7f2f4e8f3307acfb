-------------------------- MODULE MCUpdatePipeline --------------------------
(***************************************************************************)
(* Model-checking instance of UpdatePipeline: one pool of each protocol.   *)
(***************************************************************************)
EXTENDS UpdatePipeline

CONSTANTS v2, v3, m, n

Protocol == [p \in {m, n} |-> IF p = m THEN v2 ELSE v3]
Version  == [p \in {m, n} |-> IF p = m THEN 1 ELSE 2]
Starts   == [pr \in {v2, v3} |-> IF pr = v2 THEN 1 ELSE 2]
=============================================================================
