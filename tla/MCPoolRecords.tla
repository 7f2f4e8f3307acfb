--------------------------- MODULE MCPoolRecords ---------------------------
(***************************************************************************)
(* Instance of PoolRecords: a V2 and an Algebra pool that share a token.   *)
(***************************************************************************)
EXTENDS PoolRecords

CONSTANTS p1, p2, weth, usdc, wbtc

First  == [p \in {p1, p2} |-> usdc]
Second == [p \in {p1, p2} |-> IF p = p1 THEN weth ELSE wbtc]
Kinds  == [p \in {p1, p2} |-> IF p = p1 THEN "V2" ELSE "ALGEBRA"]
Places == [t \in {weth, usdc, wbtc} |->
             CASE t = weth -> 18 [] t = usdc -> 6 [] t = wbtc -> 8]
=============================================================================
