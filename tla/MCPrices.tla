------------------------------ MODULE MCPrices ------------------------------
(***************************************************************************)
(* Instance of Prices: a V2 and a V3 pool with fees of 0.3%, and equal     *)
(* decimals of the two tokens.                                             *)
(***************************************************************************)
EXTENDS Prices

CONSTANTS v2, v3

Fees == [p \in {v2, v3} |-> 3]
=============================================================================
