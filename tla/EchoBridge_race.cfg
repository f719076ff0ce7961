CONSTANTS
  Texts <- TwoTexts
  Rendered = {"plain"}
  Normalized <- NormalForm
  Window = 2
  MaxForwards = 1
  MaxMessages = 1
  MaxTime = 2
  MaxFaults = 0
SPECIFICATION Spec
INVARIANT EchoBlocked
CHECK_DEADLOCK FALSE
