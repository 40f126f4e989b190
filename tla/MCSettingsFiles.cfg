SPECIFICATION Spec
CONSTANTS
  Processes = {p1, p2}
  budget = budget
  redaction = redaction
  Keys = {budget, redaction}
  Safe = {budget}
  v1 = v1
  Mistyped = Mistyped
  Bad = Bad
  Default = Default
  Values = {v1, Mistyped, Bad, Default}
  Unset = Unset
  Ours = Ours
  Foreign = {h1}
  NoProcess = NoProcess
  Environments <- MCEnvironments
  ProjectFiles <- MCProjectFiles
  MaxStarts = 2
  MaxEdits = 1
  MaxGroups = 2
  MaxTime = 1
SYMMETRY Symmetry
INVARIANTS TypeOK FilesWhole
PROPERTIES ReplacedIsBackedUp ChangesOnlyItsOwn SetNeverLocksOut UnsafeOnlySetByName
CHECK_DEADLOCK FALSE
