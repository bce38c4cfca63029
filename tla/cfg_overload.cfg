SPECIFICATION Spec
CONSTANTS
  Vars <- XY
  Programs <- Shapes
  Texts <- Body
INVARIANT HoistHiddenFromOperators
CHECK_DEADLOCK FALSE
