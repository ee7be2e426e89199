SPECIFICATION Spec
CONSTANTS
  Hosts = {"arc", "kirby", "nds"}
  Candidates <- MCCandidates
  NoLoop = NoLoop
  Ceiling <- MCCeiling
  MaxIters = 3
  MaxThreshold = 4
  Settle = 1
  Stride = 2
  MinSteps = 3
  MinIterations = 2
  MaxRows = 3
  MaxRuns = 2
INVARIANTS LoopEndsAtFirstHit SpanIsTheMacro CeilingHolds EvidenceIsReal
CHECK_DEADLOCK FALSE
