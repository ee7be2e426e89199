SPECIFICATION Spec
CONSTANTS
  Limit = 1
  Starting = 0
  MaxTotal = 1
  Kinds = {"usage", "other"}
  MaxQueue = 6
  MaxPipe = 1
INVARIANT KillContract
CHECK_DEADLOCK FALSE
