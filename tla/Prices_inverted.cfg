\* Both pools may be at the same price, below or above one.
CONSTANTS
  v2 = v2
  v3 = v3
  Pools = {v2, v3}
  V3Style = {v3}
  Fee <- Fees
  Decimals0 = 0
  Decimals1 = 0
  Q = 4
  Reserves = {1, 4, 8, 16}
  Roots = {0, 2, 4, 8}
  MinReserve = 1
  MinLiquidity = 1
SPECIFICATION Spec
CHECK_DEADLOCK FALSE
INVARIANT NoFalseOpportunity
