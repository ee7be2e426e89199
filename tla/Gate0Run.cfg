\* One run: two units of spend, tripping at the second.
SPECIFICATION FairSpec
CONSTANTS
  Limit = 2
  Starting = 0
  MaxTotal = 2
  Kinds = {"usage", "other"}
  MaxQueue = 6
  MaxPipe = 1
INVARIANTS NormalEndPricesEverything NoUnguardedTurn
PROPERTIES TripStopsTurn TripIsPublished UsesGuard MainEnds TripEndsTurn
CHECK_DEADLOCK FALSE
