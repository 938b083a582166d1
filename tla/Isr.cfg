SPECIFICATION IsrSpec
CONSTANTS
  StackWords = 48
  BootDepths = {1, 2, 3, 4}
  Exceptions = {1, 3, 6, 13, 14}
PROPERTIES
  InterruptTransparent
