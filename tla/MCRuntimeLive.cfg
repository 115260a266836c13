CONSTANTS
  Pane = {p1, p2}
  Shell = {s1, s2}
  None = None
  MaxStops = 2
SPECIFICATION FairSpec
INVARIANTS
  RunningPaneHasShell
PROPERTIES
  ExitedPaneGoes
  ClosedSessionEnds
