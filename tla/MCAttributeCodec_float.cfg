CONSTANTS
  Inputs <- MCFloat
  IntBits = 2
  Services <- MCServices
  MaxElems = 3
SPECIFICATION Spec
CHECK_DEADLOCK FALSE
PROPERTY
  Termination
