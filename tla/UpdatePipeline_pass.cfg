\* A V2 pool that never changes and a V3 pool that does once, one listener of
\* the first and up to two of the second, both channels of size one, a node that
\* may send the logs of the past, at most two, again.
CONSTANTS
  v2 = v2
  v3 = v3
  m = m
  n = n
  Protocols = {v2, v3}
  Pools = {m, n}
  ProtocolOf <- Protocol
  Caching = {v3}
  DataCap = 1
  WriteCap = 1
  MaxReplay = 2
  MaxVersion <- Version
  MaxStarts <- Starts
SPECIFICATION FairSpec
CHECK_DEADLOCK FALSE
INVARIANTS
  TypeOK
  DrainIsComplete
PROPERTIES
  OnlyReplaysGoBack
  EventReachesCache
  PipelineStops
