\* Two Executes without a restart: does every accepted transaction get mined?
CONSTANTS
  e1 = e1
  e2 = e2
  e3 = e3
  NoOne = NoOne
  Executes = {e1, e2}
  StartNonce = 5
  MaxRetries = 3
  MaxRestarts = 0
SPECIFICATION FairSpec
CHECK_DEADLOCK FALSE
PROPERTY AcceptedIsMined
