CONSTANTS
  Pane = {p1}
  Shell = {s1, s2}
  None = None
  MaxStops = 0
SPECIFICATION FairSpec
PROPERTY RestoredPanesKept
