SPECIFICATION Spec
CONSTANTS
  Byte = 4
  Total = 8
  Move = 4
  Least = 3
  Context = {c1}
  MaxInput = 7
  MaxOverrun = 2
INVARIANTS
  RangeNormalized
  InStep
PROPERTY
  InputRunsOut
\* The decoder is not asked again when its caller has seen exhausted.
CHECK_DEADLOCK FALSE
