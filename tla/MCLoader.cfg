SPECIFICATION Spec
CONSTANTS
  Devs <- MCDevs
  Geometry <- MCGeometry
  Names <- MCNames
  Clusters <- MCClusters
  Root = "root"
  Dirs <- MCDirs
  Paths <- MCPaths
  Room = 6
  ClusterSlots = 3
  Covered = 3
  MaxCount = 7
  NULL = NULL
  End = End
  Text = Text
  Junk = Junk
  FileSize = 2
  ClusterSize <- MCClusterSize
  Sizes <- MCSizes
  Wanted <- MCWanted
  Word = 5
INVARIANTS
  TypeOK
  RootLookups
  DeepLookups
PROPERTIES
  LoadEnds
  FreadEnds
CHECK_DEADLOCK FALSE
