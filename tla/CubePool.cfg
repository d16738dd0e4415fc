CONSTANTS
  NumVars = 3
  Formulas <- MCFormulas
  Threads = {t1, t2}
  LimitNbCubes = 3
SPECIFICATION FairSpec
INVARIANTS
  TypeOK
  InFlightExact
  EachModelOnce
  LosesOnlyUncollected
  AbortsOnlyIfRefuted
PROPERTIES
  ImplementsGenerator
  Returns
CHECK_DEADLOCK FALSE
