SPECIFICATION FairSpec
CONSTANTS
  Tokens <- MCTokens
  AtTokens <- MCAtTokens
  LongTokens <- MCLongTokens
  GiantTokens <- MCGiantTokens
  Norm <- MCNorm
  HashID <- MCHashID
  Prefixes <- MCPrefixes
  NodeFiles <- CleanNodeFiles
  EdgeFiles <- CleanEdgeFiles
  MaxBatchSizeBytes = 4
  TargetMegaBlobSizeBytes = 16
  RecordBytes = {2}
  BlobBytes = {8}
  Faults = {}
  MaxIngests = 1
INVARIANTS
  CountsMatchStore
  LabelIndexComplete
PROPERTIES
  CleanIngestSucceeds
CHECK_DEADLOCK FALSE
