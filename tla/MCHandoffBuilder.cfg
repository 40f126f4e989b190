SPECIFICATION Spec
CONSTANTS
  NoId = NoId
  Events <- MCEvents
  MaxEvents = 3
  Budgets = {0, 120, 180, 260}
  Diffs <- MCDiffs
  Fixed = 100
  Placeholder = 20
INVARIANTS TypeOK FitsOrCannot NewestConversation ShownOnce LeastLoss
CHECK_DEADLOCK FALSE
