SPECIFICATION ReconcileSpec
CONSTANTS
  NumPaths = 8
  None = None
  NotGiven = None
  Name <- MCName
  Lib <- MCLib
  Version <- MCVersion
  StartsWith <- MCStartsWith
  Files <- MCFiles
  Classify <- MCClassify
  Curated <- MCCurated
  Skip = {}
  Libcs = {}
  LibcNames = {}
  NormalizePkg <- MCNormalizePkg
  Absent <- MCAbsent
  Nested <- MCNested
  MemberName <- MCMemberName
  MaxMembers = 2
  Members <- MCMembers
  Join <- MCJoin
  ImageTrees <- MCImageTrees
  Clock <- MCClock
  Digits <- MCDigits
  Markers <- MCMarkers
  Lower <- MCLower
  Manifests <- MCManifests
  Records <- MCRecords
  StatusFile <- MCStatusFile
INVARIANTS
  ExpansionIsOverlay
  NestedReleasesReported
  VersionsAreLocated
  StampIsDate
  ListsAreTrue
  DeclaredIsTheRelease
  AgreementsAreReal
  DisagreementsAreReal
  OwnRecordAgrees
  RemovedNotReported
\* The command returns: its last state has no step.
CHECK_DEADLOCK FALSE
