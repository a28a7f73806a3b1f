SPECIFICATION Spec
CONSTANTS
  Path <- MCPath
  Bytes <- MCBytes
  Digest <- MCDigest
  Hash <- MCHash
  Missing = Missing
  CpioMin = 1
  HitCap = 1
  Images <- MCImages
INVARIANTS
  FirstReadable
  GapsAreExact
PROPERTY
  ImplementsFileMap
\* extract returns: its last state has no step.
CHECK_DEADLOCK FALSE
