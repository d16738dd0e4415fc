CONSTANTS
  NumVars = 3
  Rounds = 3
  Formulas <- MCFormulas
SPECIFICATION Spec
INVARIANTS
  TypeOK
  AlwaysPartition
  CubesFixRound
CHECK_DEADLOCK FALSE
