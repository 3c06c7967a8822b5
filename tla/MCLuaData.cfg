CONSTANTS
  Nil = Nil
  o1 = o1
  o2 = o2
  None = None
  Contents <- MCContents
  Ids <- MCIds
  MINSTRTABSIZE = 1
  Null = Null
  Unknown = Unknown
  Ints <- MCInts
  Objects <- MCObjects
  Hashes <- MCHashes
  Arrays <- MCArrays
  LuaNil = LuaNil
  MAX_INT = 7
SPECIFICATION PartsSpec
INVARIANTS TableHoldsMap TableLoopComplete StringsUnique FindsPreferred  InsertKeeps RoundTrip
PROPERTIES TableSteps SortEnds
\* a sorted array, a string that was searched and a loaded chunk have no next step
CHECK_DEADLOCK FALSE
