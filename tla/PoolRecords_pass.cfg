\* Two discoveries, one failing transaction, one crash, one wrong answer.
CONSTANTS
  p1 = p1
  p2 = p2
  weth = weth
  usdc = usdc
  wbtc = wbtc
  Missing = Missing
  Pools = {p1, p2}
  Events = {}
  Token0 <- First
  Token1 <- Second
  Kind <- Kinds
  TrueDecimals <- Places
  QueueCap = 1
  BatchSize = 2
  MaxRollBacks = 1
  MaxCrashes = 1
  MaxMisread = 1
SPECIFICATION RecordsFairSpec
CHECK_DEADLOCK FALSE
INVARIANTS
  RecordsTypeOK
  PoolRowsReferenceTokens
  MetadataSettled
  OthersAreRight
PROPERTIES
  ImplementsLossyLog
  SentIsSaved
