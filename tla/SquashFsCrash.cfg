SPECIFICATION Spec
CONSTANTS
  Ref <- MCRef
  DepthLimit = 2
  NoBytes = NoBytes
  Images <- MCImages
INVARIANT WalkNeverPanics
\* walk returns: its last state has no step.
CHECK_DEADLOCK FALSE
