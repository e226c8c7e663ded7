SPECIFICATION Spec
CONSTANTS
  Items = {i1, i2, i3, i4, i5}
  Values <- MCValues
  Key <- MCKey
  TooLong <- MCTooLong
  Unterminated <- MCUnterminated
  Size <- MCSize
  Garbled = Garbled
  InitialCounts = {0, 3}
  NULL = NULL
  Nothing = Nothing
INVARIANTS
  BucketsMatchWalk
  LinkedItemsAreFreed
  FullNeedsGarbage
PROPERTIES
  ImplementsPathList
CHECK_DEADLOCK FALSE
