CONSTANTS
  Pane = {p1, p2}
  Shell = {s1, s2, s3}
  None = None
  MaxStops = 2
SYMMETRY Symmetry
SPECIFICATION Spec
INVARIANTS
  NoShellLost
  PanesAreSaved
  ClosedPanesStayClosed
  IInv
PROPERTIES
  PanesForgottenOnlyOnExit
  ImplementsSavedPanes
