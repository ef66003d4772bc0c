SPECIFICATION Spec
CONSTANTS
  Images <- MCImages
  DdrUnits = 64
CHECK_DEADLOCK FALSE
INVARIANT EccStatusTells
