SPECIFICATION Spec
CONSTANTS
  Processes = {p1, p2}
  Labels <- AnyLabels
  Words = 1
  MaxMessages = 2
  MaxExports = 2
SYMMETRY Symmetry
INVARIANTS TypeOK ResultFollowsCall MessagesInOrder
PROPERTY EveryRecordStored
CHECK_DEADLOCK FALSE
