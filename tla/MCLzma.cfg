SPECIFICATION FairSpec
CONSTANTS
  Limit = 10
  DictSize = 4
  Length <- MCLength
  Distance <- MCDistance
INVARIANT NoDanglingReference
PROPERTIES
  CopiesAtDistance
  RecentlyUsedFirst
  ImplementsWindow
  Terminates
\* decode returns: its last state has no step.
CHECK_DEADLOCK FALSE
