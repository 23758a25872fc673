CONSTANTS
  d = d
  c = c
  k1 = k1
  k2 = k2
  v = v
  none = none
  nil = nil
  unset = unset
  Attrs <- MCAttrs
  Keys <- MCKeys
  Vals <- MCVals
  DataSizes <- MCDataSizes
  NoVal <- none
  EmptyStr = empty
  PairsPerChunk = 2
  Blocks <- MCBlocks
  CallerMakesDict = FALSE
SPECIFICATION Spec
INVARIANT NoLeak
