SPECIFICATION Spec
CONSTANTS
  NumPaths = 3
  None = None
  Name <- MCName
  Lib <- MCLib
  Version <- MCVersion
  StartsWith <- MCStartsWith
  Files <- MCFiles
  Classify <- MCClassify
  Curated <- MCCurated
  Skip <- MCSkip
  Libcs <- MCLibcs
  LibcNames <- MCLibcNames
  NormalizePkg <- MCNormalizePkg
INVARIANTS
  ClaimSupported
  NoCrossCitation
  NothingDropped
  EveryReleaseAccounted
  BuildPathsWarranted
\* The analyzer returns: its last state has no step.
CHECK_DEADLOCK FALSE
