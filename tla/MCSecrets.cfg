CONSTANTS
  Caller = {c1, c2, c3}
  Value = {v1, v2}
  Empty = Empty
  None = None
  MaxCalls = 4
SYMMETRY Symmetry
SPECIFICATION Spec
INVARIANT KeepsWhatWasSet
PROPERTIES NeverReplaced HalfSetNeedsRemoval
CHECK_DEADLOCK FALSE
