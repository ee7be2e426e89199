SPECIFICATION GateSpec
CONSTANTS
  W = 3
  H = 3
  Frames <- MCFrames
  NoPose = NoPose
  NoText = ""
  Moves = {"up", "down", "left", "right"}
  Actions = {"a", "up", "down", "left", "right"}
  Destinations = {}
  Watched <- MCWatched
  AdvanceFuse = 50
  CycleRevisits = 3
  StuckStale = 12
  NoMoveStall = 8
  ReplanAfter = 5
  DeadAfter = 2
  TranscriptCap = 12
  MaxCalls = 0
  MaxErrors = 1
  Maps <- MCMaps
  Predictions <- MCPredictions
  MaxSteps = 34
INVARIANTS EpisodeSucceeds
PROPERTIES WokenWhenExplored
CHECK_DEADLOCK FALSE
