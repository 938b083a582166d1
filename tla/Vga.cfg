SPECIFICATION Spec
CONSTANTS
  Rows = 2
  Cols = 3
  Byte = 4
  Letters = {"a", "b"}
  MaxText = 4
INVARIANTS
  OnlyScreenWritten
  ScreenShowsText
  MessagesRecover
