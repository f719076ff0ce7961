CONSTANTS
  Slots = {p1, p2}
  Tokens = {old, new}
  None = None
  MaxStarts = 2
  MaxFaults = 1
SPECIFICATION FairSpec
INVARIANT OneKey
INVARIANT TokenWhole
INVARIANT EndsClean
PROPERTY StateKept
PROPERTY StartEnds
PROPERTY FailureEnds
CHECK_DEADLOCK FALSE
