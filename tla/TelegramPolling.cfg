CONSTANTS
  MaxUpdates = 3
  BatchLimit = 2
  Window = 2
  MaxTime = 3
  MaxFaults = 2
SPECIFICATION FairSpec
INVARIANT OffsetCoversResolved
INVARIANT InOrder
PROPERTY OffsetNeverMovesBack
PROPERTY HandledApart
PROPERTY DeliverySpec
PROPERTY EventuallyConfirmed
