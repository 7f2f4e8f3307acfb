\* Two swaps of one real pool: are pending swaps added to reserves that count them?
CONSTANTS
  l1 = l1
  l2 = l2
  l3 = l3
  pa = pa
  pb = pb
  Logs = {l1, l2}
  Pools = {pa}
  PoolOf <- TwoLogs
  RealPools = {pa}
  Preloaded = {}
  Unparsable = {}
  LogsCap = 2
  DiscoveryCap = 2
SPECIFICATION Spec
CHECK_DEADLOCK FALSE
INVARIANT NoSwapCountedTwice
