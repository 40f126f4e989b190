SPECIFICATION Spec
CONSTANTS
  a = a
  b = b
  long = long
  MaxPath = 4
  Metadata = {a, b, long}
  HashOf <- MCHashOf
  NoHash = NoHash
INVARIANTS DeletionsAccounted ExactForOrderedRenames
CHECK_DEADLOCK FALSE
