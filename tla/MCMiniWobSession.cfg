\* Three seeds, a log of up to nine rows, resets that may fail.
SPECIFICATION Spec
CONSTANTS
  s1 = s1
  s2 = s2
  s3 = s3
  Seeds <- ThreeSeeds
  MaxRows = 9
INVARIANTS AbandonedIsFinal ScoredAsPlayed
PROPERTY SeedsInOrder
