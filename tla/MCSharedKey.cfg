SPECIFICATION Spec
CONSTANTS
  Processes = {p1, p2}
  Labels <- Unlabelled
  Words = 1
  MaxMessages = 2
  MaxExports = 2
PROPERTY NoRecordShadowed
CHECK_DEADLOCK FALSE
