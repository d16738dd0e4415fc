CONSTANTS
  Problems <- TwoAndThree
  Workers = {w1, w2}
SPECIFICATION FairSpec
PROPERTY AllFilesDone
