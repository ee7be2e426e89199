SPECIFICATION Spec
CONSTANTS
  Tiles <- RoomTiles
  Doors <- RoomDoors
  Commands <- RoomCommands
  MaxCalls = 3
  MaxJumps = 1
  MaxTexts = 1
  MaxSteps = 6
INVARIANTS NavigableSinceAnchor LostIsShort
PROPERTIES PoseTracksMoves GivesUpOnlyWhenDone
CHECK_DEADLOCK FALSE
