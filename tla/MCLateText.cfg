SPECIFICATION Spec
CONSTANTS
  Processes = {p1, p2}
  Labels <- AllLabelled
  Words = 2
  MaxMessages = 1
  MaxExports = 2
PROPERTY ExportIsStored
CHECK_DEADLOCK FALSE
