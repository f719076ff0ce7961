CONSTANTS
  Texts <- SpacedTexts
  Rendered = {"spaced"}
  Normalized <- NormalForm
  Window = 2
  MaxForwards = 1
  MaxMessages = 1
  MaxTime = 2
  MaxFaults = 0
SPECIFICATION Spec
PROPERTY PendingEchoConsumed
CHECK_DEADLOCK FALSE
