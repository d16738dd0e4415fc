CONSTANTS
  NumVars = 3
  Clauses <- MCClauses
  InitialCubes <- MCInitialCubes
  Rounds = 0
  Workers = {w1, w2}
  Solver = Solver
  MaxWorkers = 0
  QueueCap = 4
  GanakMayFail = FALSE
  CallsMayFail = FALSE
SPECIFICATION Spec
SYMMETRY Symmetry
INVARIANT SolveBlocksUntilComplete
