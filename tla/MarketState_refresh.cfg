\* Does the Updater ever finish a refresh?
CONSTANTS
  s1 = s1
  s2 = s2
  s3 = s3
  v2 = v2
  v3 = v3
  Swaps = {s1, s2}
  Pools = {v2, v3}
  PoolOf <- BothV2
  V3Pools = {v3}
  Unfetched = {}
  Updater = Updater
  NoOne = NoOne
  QueueCap = 1
  MaxFound = 1
  MaxRounds = 1
SPECIFICATION FairSpec
CHECK_DEADLOCK FALSE
PROPERTY UpdateReturns
