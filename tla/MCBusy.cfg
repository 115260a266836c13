CONSTANTS
  Client = {c1}
  Call = {r1, r2}
  None = None
  MaxLines = 2
  MaxLaunches = 2
  MaxQueue = 2
  MaxRaces = 1
SPECIFICATION Spec
INVARIANTS
  BusyIsPending
  BusyWhileRunning
  TypedOnce
PROPERTIES
  BusyEnds
  TypesAtPrompt
