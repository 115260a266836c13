CONSTANTS
  Agent = {a1, a2}
  None = None
  MaxCommands = 3
  MaxLaunches = 3
  MaxPrompts = 2
SPECIFICATION Spec
INVARIANTS
  AgentInv
PROPERTIES
  RecordIsKept
  FoundInThisShell
  ShowsWhatRuns
