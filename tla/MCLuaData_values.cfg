CONSTANTS
  Half = 4
  Depth = 1
SPECIFICATION Spec
CHECK_DEADLOCK FALSE
INVARIANTS ValuesSurvive PreflightDecides PageInOrder
