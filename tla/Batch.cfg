CONSTANTS
  Problems <- TwoAndTwo
  Workers = {w1, w2}
SPECIFICATION FairSpec
INVARIANTS
  TypeOK
  RowsAreRight
  IDsNameOneTask
PROPERTY EndsUnlessEarly
