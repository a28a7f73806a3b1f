SPECIFICATION Spec
CONSTANTS
  Ref <- MCRef
  DepthLimit = 2
  NoBytes = NoBytes
  Images <- MCImages
INVARIANTS
  WalkIsComplete
  PrefixIsIntact
  WholeFilesAreExact
PROPERTY
  WalkEnds
\* walk returns: its last state has no step.
CHECK_DEADLOCK FALSE
