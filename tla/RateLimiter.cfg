CONSTANTS
  Senders = {alice, bob}
  alice = alice
  bob = bob
  NoSender = NoSender
  MaxCommands = 2
  Window = 2
  MaxRequests = 4
  MaxTime = 6
SPECIFICATION Spec
INVARIANT RateBound
PROPERTY DeniedWithReason
SYMMETRY Symmetry
CHECK_DEADLOCK FALSE
