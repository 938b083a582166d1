SPECIFICATION Spec
CONSTANTS
  FifoDepth = 2
  EarlyChars = 2
  Size = 3
  MaxChars = 6
  MaxShown = 7
INVARIANTS
  ScreenInOrder
  LossDetected
  LogComplete
PROPERTIES
  EverythingShown
  LogSent
