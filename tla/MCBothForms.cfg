SPECIFICATION Spec
CONSTANTS
  claude = claude
  opencode = opencode
  p1 = p1
  p2 = p2
  s1 = s1
  s2 = s2
  x1 = x1
  x2 = x2
  Processes = {p1, p2}
  Sessions = {s1}
  Agents = {claude, opencode}
  Externals = {x1, x2}
  AgentOf <- MCAgentOf
  Reports <- AnyReports
  Importable = {x2}
  Exporting = {opencode}
  Capturing = {}
  Resumable = {claude, opencode}
  Locking = {claude}
  Commands <- ImportAndContinue
  Targets <- DistinctTargets
  Faults = FALSE
  Ties = FALSE
  NoSession = NoSession
  NoAgent = NoAgent
  NoExternal = NoExternal
  MaxCommands = 3
  MaxVersion = 1
  MaxRecords = 1
INVARIANT ExternalIdsUnique
CHECK_DEADLOCK FALSE
