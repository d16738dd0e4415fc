CONSTANTS
  NumVars = 3
  Clauses <- MCClauses
  InitialCubes <- MCInitialCubes
  Rounds = 1
  Workers = {w1, w2}
  Solver = Solver
  MaxWorkers = 1
  QueueCap = 4
  GanakMayFail = TRUE
  CallsMayFail = TRUE
SPECIFICATION Spec
SYMMETRY Symmetry
INVARIANTS
  TypeOK
  EachTaskOnce
  ActiveIsBook
  Conservation
  CountIsSound
  NoMissedDone
  TasksBalance
PROPERTY ImplementsCounting
