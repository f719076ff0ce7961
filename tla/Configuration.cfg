CONSTANTS
  InitialForms <- InitialForms0
  OptionEdits <- OptionEdits0
  Environments <- Environments0
  Prefixes <- Prefixes0
  MaxSaves = 2
SPECIFICATION ConfSpec
INVARIANT RunningIsValid
INVARIANT AccessAsListed
INVARIANT LoadersAgree
