--------------------------- MODULE MCMarketState ---------------------------
(***************************************************************************)
(* Model-checking instances of MarketState: a V2 pool and a V3 pool.       *)
(***************************************************************************)
EXTENDS MarketState

CONSTANTS s1, s2, s3, v2, v3

(* Two swaps of the V2 pool, one of the V3 pool. *)
Mixed == [s \in {s1, s2, s3} |-> IF s = s3 THEN v3 ELSE v2]

(* Two swaps of the V2 pool. *)
BothV2 == [s \in {s1, s2} |-> v2]
=============================================================================
