\* Three calls: one to pause or resume a task, one to undo it, one nested.
CONSTANTS
  N = 3
  MaxCalls = 3
SPECIFICATION FairSpec
INVARIANTS
  TypeOK
  IdleIsIdle
PROPERTIES
  OrdersHold
  OnlyResumeLoses
  NoTaskStarves
