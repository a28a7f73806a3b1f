SPECIFICATION FairSpec
CONSTANTS
  Blob <- MCBlob
  Offsets <- MCOffsets
  Images <- MCImages
  Raw = 1
  StackLimit = 2
  None = None
INVARIANTS
  LargestLayerKept
  CrashTakesDepth
  LargestFound
  PayloadInImage
PROPERTY Ends
\* peel returns: its last state has no step.
CHECK_DEADLOCK FALSE
