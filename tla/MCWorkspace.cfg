CONSTANTS
  Ws = {w1, w2}
  Tab = {t1, t2, t3}
  Pane = {p1, p2, p3, p4}
  Orientation = {vertical, horizontal}
  Ratio = {half, other}
  Half = half
  NoID = NoID
SYMMETRY Symmetry
SPECIFICATION WorkspaceSpec
INVARIANTS
  WorkspaceInv
  MethodsAgree
PROPERTIES
  FocusSurvivesClosing
  RestKeepsPlace
