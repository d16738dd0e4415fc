CONSTANTS
  NumVars = 4
  Formulas <- MCFormulas
  MaxCubes = 3
SPECIFICATION Spec
INVARIANTS
  TypeOK
  WatchesFirstTwo
  PropagatesAll
  AssertionsHold
  LoadedRefuted
PROPERTY SplitsAsPromised
CHECK_DEADLOCK FALSE
