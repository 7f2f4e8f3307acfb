\* Three concurrent Executes, the code's three attempts, one restart.
CONSTANTS
  e1 = e1
  e2 = e2
  e3 = e3
  NoOne = NoOne
  Executes = {e1, e2, e3}
  StartNonce = 5
  MaxRetries = 3
  MaxRestarts = 1
SPECIFICATION FairSpec
CHECK_DEADLOCK FALSE
INVARIANTS
  TypeOK
  NoncesUnique
  NoncesContiguous
PROPERTIES
  ExecuteReturns
