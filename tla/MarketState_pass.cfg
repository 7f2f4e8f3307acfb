\* Two swaps of a V2 pool, one of a V3 pool, and the Updater.
CONSTANTS
  s1 = s1
  s2 = s2
  s3 = s3
  v2 = v2
  v3 = v3
  Swaps = {s1, s2, s3}
  Pools = {v2, v3}
  PoolOf <- Mixed
  V3Pools = {v3}
  Unfetched = {v2}
  Updater = Updater
  NoOne = NoOne
  QueueCap = 1
  MaxFound = 1
  MaxRounds = 1
SPECIFICATION Spec
CHECK_DEADLOCK FALSE
INVARIANTS
  TypeOK
  StateWhole
  ScanAlone
  NobodyStuck
PROPERTIES
  ImplementsAtomicUpdates
