SPECIFICATION Spec
CONSTANTS
  Tokens <- MCTokens
  AtTokens <- MCAtTokens
  LongTokens <- MCLongTokens
  GiantTokens <- MCGiantTokens
  Norm <- MCNorm
  HashID <- MCHashID
  Prefixes <- MCPrefixes
  NodeFiles <- ClaimNodeFiles
  EdgeFiles <- ClaimEdgeFiles
  MaxBatchSizeBytes = 4
  TargetMegaBlobSizeBytes = 16
  RecordBytes = {2}
  BlobBytes = {1}
  Faults = {"crash", "close"}
  MaxIngests = 1
INVARIANTS
  SuccessIsDurable
CHECK_DEADLOCK FALSE
