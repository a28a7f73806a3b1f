SPECIFICATION Spec
CONSTANTS
  Blob <- MCBlob
  Offsets <- MCOffsets
  Images <- Uncompressed
  Raw = 1
  StackLimit = 2
  None = None
INVARIANT NeverCrashes
CHECK_DEADLOCK FALSE
