CONSTANTS
  BatchBytes = 2
  MaxBytes = 3
  MaxLate = 1
  None = None
SPECIFICATION Spec
CHECK_DEADLOCK FALSE
INVARIANTS
  PipelineInv
PROPERTIES
  ExitIsHandled
  LocksAreReleased
