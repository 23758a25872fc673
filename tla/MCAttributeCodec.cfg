CONSTANTS
  Inputs <- MCRoundTrip
  IntBits = 2
  Services <- MCServices
  MaxElems = 3
SPECIFICATION Spec
CHECK_DEADLOCK FALSE
INVARIANTS
  RoundTrip
  NoReadPastEnd
PROPERTIES
  Termination
