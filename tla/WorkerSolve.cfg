CONSTANTS
  MaxTasks = 2
  MaxElapsed = 3
  TaskTimeouts = {2, 3, 100}
  Updates = {0, 1, 2, 100}
  NoTimeout = 100
  GanakMayFail = TRUE
SPECIFICATION FairSpec
INVARIANTS
  TypeOK
  KilledIsTimeout
  TimeoutIsDue
PROPERTIES
  TimedTaskAnswered
  ImplementsContract
CHECK_DEADLOCK FALSE
