CONSTANTS
  bridge = bridge
  script = script
  Writers = {bridge, script}
  Retries = 2
  MaxCalls = 2
  MaxFaults = 3
SPECIFICATION FairSpec
INVARIANT AtomicCalls
INVARIANT NoTransactionLeftOpen
CHECK_DEADLOCK FALSE
PROPERTY WritesSpec
PROPERTY EveryCallEnds
