CONSTANTS
  a = a
  b = b
  Workers = {a, b}
  TasksOfA = 2
  MaxTasks <- MCMaxTasks
  Durations <- MCDurations
  MinDuration = 2
  DynamicTimeout = TRUE
  InitialTimeoutSec = 0
  MultNum = 3
  MultDen = 2
  NoTimeout = 100
  CallsMayFail = TRUE
  MaxFiles = 1
SPECIFICATION Spec
INVARIANTS
  TypeOK
  OpenChannels
  LastBroadcastArrives
CHECK_DEADLOCK FALSE
