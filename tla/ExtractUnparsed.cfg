SPECIFICATION Spec
CONSTANTS
  Path <- MCPath
  Bytes <- MCBytes
  Digest <- MCDigest
  Hash <- MCHash
  Missing = Missing
  CpioMin = 1
  HitCap = 1
  Images <- MCImages
INVARIANT
  UnparsedIsDeclared
CHECK_DEADLOCK FALSE
