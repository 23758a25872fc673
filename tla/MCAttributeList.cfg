CONSTANTS
  a = a
  b = b
  none = none
  Vals <- MCVals
  NoVal <- none
  EmptyStr = empty
  ElemsPerChunk = 2
  MaxSize = 3
  Blocks <- MCBlocks
SPECIFICATION Spec
INVARIANTS
  TypeOK
  ExclusiveOwnership
  CapacityCoversSize
