\* Two swaps of an unknown pool, one of them unparsable, and one of an address
\* that is no pool, every queue of size one, under fairness.
CONSTANTS
  l1 = l1
  l2 = l2
  l3 = l3
  pa = pa
  pb = pb
  Logs = {l1, l2, l3}
  Pools = {pa, pb}
  PoolOf <- TwoAddresses
  RealPools = {pa}
  Preloaded = {}
  Unparsable = {l2}
  LogsCap = 1
  DiscoveryCap = 1
SPECIFICATION FairSpecToTheEnd
INVARIANTS
  TypeOK
  NoSwapHeldTwice
  NoSwapVanishes
  SavedBeforePendingSwaps
PROPERTIES
  ImplementsLedger
  HandlersFinish
  DiscoveriesFinish
  ActiveDiscoveryDrains
