SPECIFICATION GuardSpec
CONSTANTS
  Limit = 3
  Starting = 0
  MaxTotal = 3
  Kinds = {"usage", "other", "badUsage", "nonObject"}
  MaxQueue = 2
INVARIANT FailClosed
CHECK_DEADLOCK FALSE
