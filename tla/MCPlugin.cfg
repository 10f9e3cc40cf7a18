CONSTANTS
  Size = 2
  NodeOf <- MCNodeOf
  Parameters <- MCParameters
  Writers = {0, 1}
  Variables = {"x"}
  TypesOf <- MCTypesOf
  Selections <- MCSelections
  Precision = 2
  MaxNumber = 330
  MaxPuts = 2
  MaxOpens = 3
  MaxEntries = 3
CHECK_DEADLOCK FALSE
SPECIFICATION Spec
INVARIANTS
  ReadsLastPut
  OneWriterPerKey
PROPERTIES
  DiscoversOwn
