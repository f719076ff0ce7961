CONSTANTS
  MaxUpdates = 2
  BatchLimit = 2
  Window = 2
  MaxTime = 4
  MaxFaults = 1
SPECIFICATION Spec
INVARIANT OffsetOnlyAfterProcessing
