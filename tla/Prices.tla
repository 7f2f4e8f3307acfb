------------------------------- MODULE Prices -------------------------------
(***************************************************************************)
(* What the scanner compares: the price of a pool computed from its cached *)
(* state (Pricing) and the pairs of pools of one ticker that Scan reports. *)
(* Locks and interleavings are MarketState's subject; here a swap, the new *)
(* price and the Scan are one step.                                        *)
(*                                                                         *)
(* Prices are exact fractions (big.Float in the code), 2^96 is the         *)
(* constant Q, and fees and the profit threshold are in thousandths.       *)
(***************************************************************************)
EXTENDS Naturals, Sequences, SequencesExt

CONSTANTS
  Pools,              \* the pools of one ticker
  V3Style,            \* those of them with PoolState.IsV3Style
  Fee,                \* each pool's fee, in thousandths
  Decimals0, Decimals1, \* the decimals of the ticker's two tokens
  Q,                  \* the fixed point of sqrtPriceX96 (2^96 in the code)
  Reserves,           \* the reserves explored
  Roots,              \* the values of sqrtPriceX96 explored
  MinReserve,         \* liquidityThresholdV2 (1000 * 1e6)
  MinLiquidity        \* liquidityThresholdV3 (1e18)

VARIABLES
  ticker,       \* TickerToPools[addrTicker]: pools in the order of discovery
  state,        \* the fields of each PoolState that prices are made of
  price,        \* PoolState.PoolPrice, a fraction; 0 is <<0, 1>>
  reported      \* what the last Scan reported: pairs <<buy at, sell at>>

vars == <<ticker, state, price, reported>>

V2States == [reserve0 : Reserves, reserve1 : Reserves]
V3States == [sqrtPrice : Roots, liquidity : {MinLiquidity, MinLiquidity + 1}]
States(p) == IF p \in V3Style THEN V3States ELSE V2States

Init ==
  /\ ticker = << >>
  /\ state = [p \in Pools |-> CHOOSE s \in States(p) : TRUE]
  /\ price = [p \in Pools |-> <<0, 1>>]
  /\ reported = {}

----------------------------------------------------------------------------
V2Price(s) ==
  IF s.reserve0 = 0 THEN <<0, 1>>
  ELSE <<s.reserve1 * 10^Decimals0, s.reserve0 * 10^Decimals1>>

V3Price(s) ==
  IF s.sqrtPrice = 0 THEN <<0, 1>>
  ELSE <<Q * Q * 10^Decimals0, s.sqrtPrice * s.sqrtPrice * 10^Decimals1>>

CalculatePriceFromState(p, s) ==
  IF p \in V3Style THEN V3Price(s) ELSE V2Price(s)

Exceeds(x, y) == x[1] * y[2] > y[1] * x[2]

IsPoolLiquid(p, s) ==
  IF p \in V3Style
    THEN s.liquidity > MinLiquidity
    ELSE s.reserve0 > MinReserve /\ s.reserve1 > MinReserve

(* high / low - 1 is above both fees and the threshold of one thousandth. *)
Profitable(low, high, fees) ==
  1000 * high[1] * low[2] > (1001 + fees) * low[1] * high[2]

(* Scan goes through the pairs of pools and reports, for each, the pool    *)
(* with the lower price to buy at and the other to sell at.                *)
Scan(pools, st, pr) ==
  {<<a, b>> \in Range(pools) \X Range(pools) :
    /\ a # b
    /\ IsPoolLiquid(a, st[a]) /\ IsPoolLiquid(b, st[b])
    /\ pr[a][1] # 0 /\ pr[b][1] # 0
    /\ Exceeds(pr[b], pr[a])
    /\ Profitable(pr[a], pr[b], Fee[a] + Fee[b])}

(* A pool is discovered with the state read from the chain: no Scan. *)
Discover(p, s) ==
  /\ p \notin Range(ticker)
  /\ ticker' = Append(ticker, p)
  /\ state' = [state EXCEPT ![p] = s]
  /\ price' = [price EXCEPT ![p] = CalculatePriceFromState(p, s)]
  /\ UNCHANGED reported

(* ProcessSwap: the swap leaves the pool in state s.  A price of zero is   *)
(* not stored and starts no Scan.                                          *)
ProcessSwap(p, s) ==
  LET new == CalculatePriceFromState(p, s) IN
  /\ p \in Range(ticker)
  /\ state' = [state EXCEPT ![p] = s]
  /\ IF new[1] = 0
       THEN UNCHANGED <<price, reported>>
       ELSE /\ price' = [price EXCEPT ![p] = new]
            /\ reported' = Scan(ticker, state', price')
  /\ UNCHANGED ticker

Next == \E p \in Pools : \E s \in States(p) : Discover(p, s) \/ ProcessSwap(p, s)

Spec == Init /\ [][Next]_vars

----------------------------------------------------------------------------
(* How much of token1 a token0 costs in a pool on the chain, in the        *)
(* tokens' smallest units: the quotient of the reserves, and the square of *)
(* sqrtPriceX96 / 2^96 by the definition of the V3 pools.                  *)
ChainPrice(p, s) ==
  IF p \in V3Style THEN <<s.sqrtPrice * s.sqrtPrice, Q * Q>>
                   ELSE <<s.reserve1, s.reserve0>>

(* scanner.go:54: `Prices in the cache are already canonical (Price of T0  *)
(* in terms of T1).'  So whoever buys token0 where Scan says and sells it  *)
(* where Scan says gains more than the fees at the pools' prices.          *)
NoFalseOpportunity ==
  \A pair \in reported :
    LET low  == ChainPrice(pair[1], state[pair[1]])
        high == ChainPrice(pair[2], state[pair[2]])
    IN  Profitable(low, high, Fee[pair[1]] + Fee[pair[2]])
=============================================================================
