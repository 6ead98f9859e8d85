SPECIFICATION Spec
CONSTANTS
  Tokens <- MCTokens
  AtTokens <- MCAtTokens
  LongTokens <- MCLongTokens
  GiantTokens <- MCGiantTokens
  Norm <- MCNorm
  HashID <- MCHashID
  Prefixes <- MCPrefixes
  NodeFiles <- RetriedNodeFiles
  EdgeFiles <- RetriedEdgeFiles
  MaxBatchSizeBytes = 4
  TargetMegaBlobSizeBytes = 16
  RecordBytes = {2}
  BlobBytes = {1}
  Faults = {"write", "close", "crash"}
  MaxIngests = 2
INVARIANTS
  IndexesConsistent
  SuccessStoresAll
  MetadataExact
  LabelIndexComplete
PROPERTIES
  LoadSpec
CHECK_DEADLOCK FALSE
