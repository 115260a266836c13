CONSTANTS
  Pane = {p1, p2}
  Call = {c1, c2, c3}
  None = None
  MaxChanges = 2
  MaxClicks = 2
  MaxFaults = 1
SPECIFICATION Spec
INVARIANTS
  Coherent
PROPERTIES
  NeverBack
  Converges
