CONSTANTS
  Inputs <- MCMalformed
  IntBits = 2
  Services <- MCServices
  MaxElems = 3
SPECIFICATION Spec
CHECK_DEADLOCK FALSE
INVARIANT
  NoReadPastEnd
