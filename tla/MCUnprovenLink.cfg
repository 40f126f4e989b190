SPECIFICATION Spec
CONSTANTS
  Signals = {int, term}
  Unhandled = {quit}
  Terminal = {int, quit}
  Codes <- MCCodes
  Fatal <- MCFatal
  NoSignal = NoSignal
  MaxArrivals = 1
  Kinds = {"claude", "codex", "opencode"}
  Rows = {r1, r2, r3}
  Elsewhere = {r2, r3}
  Unplaced = {r2}
  OwnId = OwnId
  NoSession = NoSession
  MaxTime = 4
INVARIANT ListedSessionIsProven
CHECK_DEADLOCK FALSE
