CONSTANTS
  IntBits = 2
  StrRanks = {1, 2}
  MaxLen = 3
  Containers = {"List"}
  DictVals <- MCDictVals
SPECIFICATION Spec
PROPERTIES
  SortRefinesAbstract
