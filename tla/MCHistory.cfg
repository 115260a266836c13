CONSTANTS
  Pane = {p1}
  Launch = {l1, l2}
  None = None
  MaxGeneration = 2
  MaxFaults = 1
SPECIFICATION Spec
INVARIANTS
  HistoryInv
  RemovedPanesLeaveNoHistory
  SkippedOutputIsOnDisk
PROPERTIES
  RetriesSucceed
