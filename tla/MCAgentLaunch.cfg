SPECIFICATION FairSpec
CONSTANTS
  Signals = {int, term}
  Unhandled = {quit}
  Terminal = {int, quit}
  Codes <- MCCodes
  Fatal <- MCFatal
  NoSignal = NoSignal
  MaxArrivals = 2
  Kinds = {"claude", "codex", "opencode"}
  Rows = {r1, r2, r3}
  Elsewhere = {r2, r3}
  Unplaced = {r2}
  OwnId = OwnId
  NoSession = NoSession
  MaxTime = 4
INVARIANTS TypeOK AgentIsNotAbandoned ReapedIsLeftAlone HandoffDeliveredOrRefused LinkIsOwnWhenAlone ExitSurvives
PROPERTIES SignalsReachAgent CallReturns
CHECK_DEADLOCK FALSE
