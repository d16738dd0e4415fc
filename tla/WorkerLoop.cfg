CONSTANTS
  GiveUpAfterSec = 120
  RetryBaseSec = 2
  RetryMaxSec = 15
  SolveTimes = {1, 45}
  MaxTime = 130
SPECIFICATION LoopSpec
INVARIANT ExitsForAReason
PROPERTY Recovers
CHECK_DEADLOCK FALSE
