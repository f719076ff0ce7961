CONSTANTS
  Texts <- SpacedTexts
  Rendered = {"plain"}
  Normalized <- NormalForm
  Window = 2
  MaxForwards = 2
  MaxMessages = 3
  MaxTime = 4
  MaxFaults = 1
SPECIFICATION Spec
INVARIANT OneMessagePerForward
PROPERTY TakenInWindow
PROPERTY RecordedEchoBlocked
CHECK_DEADLOCK FALSE
