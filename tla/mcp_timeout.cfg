SPECIFICATION FairSpec
CONSTANTS
  Callers = {c1, c2}
  Programs <- TwoPrograms
  Lines = {2, 5}
PROPERTY TimeoutKeepsSession
CHECK_DEADLOCK FALSE
