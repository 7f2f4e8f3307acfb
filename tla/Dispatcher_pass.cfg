\* Two clients that reconnect once each, two opportunities.
CONSTANTS
  e1 = e1
  e2 = e2
  o1 = o1
  o2 = o2
  Clients = {e1, e2}
  Stalled = {}
  Ops = {o1, o2}
  MaxDelay = 3
  MaxConns = 2
  MaxFailures = 2
SPECIFICATION Spec
CHECK_DEADLOCK FALSE
SYMMETRY Symmetry
INVARIANTS
  TypeOK
  NothingMissed
  NoOpportunityTwice
  BackOff
  HubNotStuck
  FailedIsForgotten
