SPECIFICATION FairSpec
CONSTANTS
  claude = claude
  opencode = opencode
  p1 = p1
  p2 = p2
  s1 = s1
  s2 = s2
  x1 = x1
  x2 = x2
  Processes = {p1, p2}
  Sessions = {s1, s2}
  Agents = {claude, opencode}
  Externals = {x1, x2}
  AgentOf <- MCAgentOf
  Reports <- AnyReports
  Importable = {x2}
  Exporting = {opencode}
  Capturing = {claude}
  Resumable = {claude, opencode}
  Locking = {claude}
  Commands <- RunAndOthers
  Targets <- EitherTarget
  Faults = TRUE
  Ties = TRUE
  NoSession = NoSession
  NoAgent = NoAgent
  NoExternal = NoExternal
  MaxCommands = 2
  MaxVersion = 0
  MaxRecords = 1
PROPERTY SessionsSettle
INVARIANTS TypeOK CheckpointsNameTheirEvent HandoffEventsResolve
CHECK_DEADLOCK FALSE
