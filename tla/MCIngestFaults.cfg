SPECIFICATION Spec
CONSTANTS
  Tokens <- MCTokens
  AtTokens <- MCAtTokens
  LongTokens <- MCLongTokens
  GiantTokens <- MCGiantTokens
  Norm <- MCNorm
  HashID <- MCHashID
  Prefixes <- MCPrefixes
  NodeFiles <- FaultyNodeFiles
  EdgeFiles <- FaultyEdgeFiles
  MaxBatchSizeBytes = 4
  TargetMegaBlobSizeBytes = 16
  RecordBytes = {1, 4}
  BlobBytes = {2}
  Faults = {"open", "read", "write", "save", "close", "crash"}
  MaxIngests = 1
INVARIANTS
  TypeOK
  CacheAgrees
  EveryEdgeHasBlob
  MetadataExact
  ReferentialIntegrity
PROPERTIES
  MetadataAfterData
CHECK_DEADLOCK FALSE
