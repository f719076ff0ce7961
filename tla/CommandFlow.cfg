CONSTANTS
  Identities = {"a", "b", "update"}
  Rooms = {"lora", "quiet", "strict", "private"}
  Senders = {"boss", "reader", "stranger", "chat"}
  Users <- MCUsers
  Policies <- MCPolicies
  Requests <- AllRequests
  Stored = {"b"}
  Window = 1
  MaxReceived = 2
  MaxTime = 3
  MaxFaults = 1
SPECIFICATION FairSpec
INVARIANT RunsApart
PROPERTY DropsOnlyRepeats
INVARIANT OnlyAccepted
INVARIANT AuditTellsRuns
INVARIANT CausalChain
INVARIANT ResponsesTold
INVARIANT OverrideExplained
PROPERTY EveryMessageEnds
CHECK_DEADLOCK FALSE
