\* Every kind of message, totals around the limit, a queue of two.
SPECIFICATION FairGuardSpec
CONSTANTS
  Limit = 3
  Starting = 1
  MaxTotal = 3
  Kinds = {"usage", "other", "badUsage", "nonObject"}
  MaxQueue = 2
INVARIANTS Accounting CleanEndIsComplete ResultBeforeTrip
PROPERTIES ImplementsCeiling SilenceEndsGuard
CHECK_DEADLOCK FALSE
