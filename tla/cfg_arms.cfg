SPECIFICATION Spec
CONSTANTS
  Vars <- XY
  Programs <- Shapes
  Texts <- Body
INVARIANT GvnSeesArms
CHECK_DEADLOCK FALSE
