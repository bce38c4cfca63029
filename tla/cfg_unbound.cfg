SPECIFICATION Spec
CONSTANTS
  Vars <- XY
  Programs <- Shapes
  Texts <- Body
INVARIANT DseHiddenFromErrors
CHECK_DEADLOCK FALSE
