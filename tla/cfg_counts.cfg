SPECIFICATION Spec
CONSTANTS
  Vars <- XY
  Programs <- Shapes
  Texts <- Body
INVARIANT DseCountsEveryRead
CHECK_DEADLOCK FALSE
