\* Two gated contexts, a ladder of two, a budget of three presses.
SPECIFICATION Spec
CONSTANTS
  dialog = dialog
  battle = battle
  overworld = overworld
  a = a
  start = start
  NoButton = NoButton
  NoAction = NoAction
  Contexts <- AllContexts
  Gated <- GatedContexts
  Candidates <- Ladder
  Actions = {a, start}
  Budget = 3
  UnlockFails = 3
  Watched = dialog
INVARIANTS StuckIsBounded LadderIsClimbed
PROPERTIES LearnsFromRows BrainIsWoken
