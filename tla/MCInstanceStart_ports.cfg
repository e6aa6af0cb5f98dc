SPECIFICATION Spec
CONSTANTS
  a = a
  b = b
  x = x
  y = y
  none = none
  Instances <- Two
  NoInstance = none
  Names <- TwoNames
  Composes <- Growing
  RangeEnd = 2
  SamePort <- JustB
  Faults <- Everything
  MaxStarts = 3
  MaxRestarts = 1
INVARIANTS
  GrantsDisjoint
  RunningMatchesSidecar
PROPERTIES
  SamePortKept
CHECK_DEADLOCK FALSE
