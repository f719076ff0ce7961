CONSTANTS
  Targets = {"telegram_to_meshcore"}
  Databases = {"audit"}
  Counters = {"commands_processed"}
  Nothing = Nothing
  MaxChanges = 2
  MaxFaults = 1
SPECIFICATION FairSpec
INVARIANT NothingForgotten
INVARIANT CopiesAgree
PROPERTY EventuallyShown
