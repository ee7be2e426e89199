\* Two seeds, episodes of up to three sub-steps, calls of up to two.
SPECIFICATION Spec
CONSTANTS
  s1 = s1
  s2 = s2
  Seeds <- TwoSeeds
  MaxSteps = 3
  MaxRepeat = 2
  MaxIdx = 4
INVARIANTS OracleIsComplete GroundingIsAdjacent ObserveIsFresh ScoreIsFaithful
PROPERTY ImplementsPinnedSeeds
