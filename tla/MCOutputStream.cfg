CONSTANTS
  Limit = 3
  Chunk = 2
  View = {v1}
  None = None
  OtherTab = TRUE
  MaxLaunch = 2
  MaxBytes = 5
  MaxCut = 5
SPECIFICATION Spec
CHECK_DEADLOCK FALSE
INVARIANTS
  ViewShowsOutput
  ExitIsShownLast
PROPERTIES
  ScreenMovesOn
