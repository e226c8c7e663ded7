SPECIFICATION Spec
CONSTANTS
  Cells = {c1, c2, c3, c4}
  Events = {e1, e2}
  NULL = NULL
  Garbage = Garbage
  Nothing = Nothing
INVARIANTS PointersValid NoLeak
PROPERTY ImplementsFifo
CHECK_DEADLOCK FALSE
