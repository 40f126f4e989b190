SPECIFICATION FairSpec
CONSTANTS
  RunIds = {r1}
  ImportIds = {i1, i2}
  Externals = {x1}
  k1 = k1
  k2 = k2
  Keys = {k1, k2}
  Writers = {w1, w2}
  Batches <- MCBatches
  NoWriter = NoWriter
  NoExternal = NoExternal
INVARIANTS TypeOK GapFree SuccessIsDurable ImportIsAtomic
PROPERTIES AppendOnly ImplementsContextLog ReservationIsReleased
