\* Two swaps of one real pool, under fairness: does a queued log wait forever?
CONSTANTS
  l1 = l1
  l2 = l2
  l3 = l3
  pa = pa
  pb = pb
  Logs = {l1, l2}
  Pools = {pa}
  PoolOf <- TwoLogs
  RealPools = {pa}
  Preloaded = {}
  Unparsable = {}
  LogsCap = 2
  DiscoveryCap = 2
SPECIFICATION FairSpec
CHECK_DEADLOCK FALSE
PROPERTY NoStrandedLog
