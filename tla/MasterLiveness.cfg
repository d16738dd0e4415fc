CONSTANTS
  NumVars = 3
  Clauses <- MCClauses
  InitialCubes <- MCInitialCubes
  Rounds = 1
  Workers = {w1, w2}
  Solver = Solver
  MaxWorkers = 0
  QueueCap = 3
  GanakMayFail = FALSE
  CallsMayFail = FALSE
SPECIFICATION FairSpec
PROPERTIES
  SolveReturns
  EventuallyExact
