CONSTANTS
  NumVars = 3
  Formulas <- MCFormulas
  Threads = {t1, t2}
  LimitNbCubes = 3
SPECIFICATION Spec
INVARIANT UnsatMeansNothingSat
CHECK_DEADLOCK FALSE
