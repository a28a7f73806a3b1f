SPECIFICATION Spec
CONSTANTS
  NumPaths = 2
  None = None
  Name <- MCName
  Lib <- MCLib
  Version <- ZlibVersion
  StartsWith <- ZlibStartsWith
  Files <- ZlibFiles
  Classify <- MCClassify
  Curated <- MCCurated
  Skip <- MCSkip
  Libcs <- MCLibcs
  LibcNames <- MCLibcNames
  NormalizePkg <- MCNormalizePkg
INVARIANT DistinctReleasesKept
CHECK_DEADLOCK FALSE
