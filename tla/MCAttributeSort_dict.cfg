CONSTANTS
  IntBits = 2
  StrRanks = {1, 2}
  MaxLen = 2
  Containers = {"Dict"}
  DictVals <- MCDictVals
SPECIFICATION Spec
PROPERTIES
  SortNonListIsNoOp
