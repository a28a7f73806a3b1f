SPECIFICATION Spec
CONSTANTS
  NumPaths = 2
  None = None
  Name <- MCName
  Lib <- MCLib
  Version <- MCVersion
  StartsWith <- MCStartsWith
  Files <- MCFiles
  Classify <- MCClassify
  Curated <- MCCurated
  Skip <- MCSkip
  Libcs <- MCLibcs
  LibcNames <- MCLibcNames
  NormalizePkg <- MCNormalizePkg
INVARIANT NoVersionFromContradiction
CHECK_DEADLOCK FALSE
