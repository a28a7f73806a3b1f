SPECIFICATION Spec
CONSTANTS
  Blob <- MCBlob
  Offsets <- MCOffsets
  Images <- MCImages
  Raw = 1
  StackLimit = 2
  None = None
INVARIANT StopsAtSignature
CHECK_DEADLOCK FALSE
