SPECIFICATION Spec
CONSTANTS
  a = a
  b = b
  long = long
  MaxPath = 4
  Metadata = {a, b, long}
  HashOf <- MCHashOf
  NoHash = NoHash
INVARIANT CreationsAccounted
CHECK_DEADLOCK FALSE
