SPECIFICATION FairSpec
CONSTANTS
  Frames <- MCFrames
  NoPose = ""
  NoText = ""
  Moves = {"up"}
  Actions = {"a"}
  Destinations = {"q"}
  Watched <- MCWatched
  AdvanceFuse = 2
  CycleRevisits = 2
  StuckStale = 2
  NoMoveStall = 2
  ReplanAfter = 2
  DeadAfter = 2
  TranscriptCap = 2
  MaxCalls = 1
  MaxErrors = 1
INVARIANTS TranscriptIsWhatWasSkipped
PROPERTIES SurpriseIsEarned GotoIsNamedOrReached EndlessTextWakes FrozenScreenWakes
