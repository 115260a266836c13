CONSTANTS
  Limit = 1
  Chunk = 1
  View = {v1, v2}
  None = None
  OtherTab = FALSE
  MaxLaunch = 2
  MaxBytes = 1
  MaxCut = 0
SPECIFICATION FairSpec
PROPERTIES
  ViewCatchesUp
  DisposedViewsEnd
CHECK_DEADLOCK FALSE
