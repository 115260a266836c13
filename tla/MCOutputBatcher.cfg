CONSTANTS
  MaxBytes = 4
  Delay = 3
  None = None
  MaxChunk = 2
  MaxAdded = 6
SPECIFICATION Spec
CHECK_DEADLOCK FALSE
INVARIANTS
  BatcherInv
PROPERTIES
  HeldForLimitAtMost
  ImplementsByteStream
