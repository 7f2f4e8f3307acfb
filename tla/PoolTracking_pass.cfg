\* A configured and a new V2 pool, an entry for V3 that is no address, a
\* channel of size one.
CONSTANTS
  v2 = v2
  v3 = v3
  m = m
  n = n
  Protocols = {v2, v3}
  Pools = {m, n}
  ProtocolOf <- Protocol
  Manual = {m}
  Configured = {v2, v3}
  NewPoolCap = 1
  NoPool = NoPool
SPECIFICATION FairSpec
CHECK_DEADLOCK FALSE
INVARIANTS
  TypeOK
  CoveredOrSignalled
  OneListener
PROPERTIES
  ActiveIsCovered
  ShutdownCompletes
