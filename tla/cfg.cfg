SPECIFICATION Spec
CONSTANTS
  Vars <- XY
  Programs <- Shapes
  Texts <- Body
INVARIANT UsesReachDefs
INVARIANT HoistPreserves
INVARIANT DsePreserves
INVARIANT GvnPreserves
CHECK_DEADLOCK FALSE
