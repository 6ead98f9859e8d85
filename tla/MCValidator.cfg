SPECIFICATION FairSpec
CONSTANTS
  MaxLines = 3
  Tokens <- MCTokens
  AtTokens <- MCAtTokens
  LongTokens <- MCLongTokens
  GiantTokens <- MCGiantTokens
  NodeFiles <- MCNodeFiles
  EdgeFiles <- MCEdgeFiles
  ReadFaults = TRUE
INVARIANTS
  TypeOK
  ValidIsSound
  InvalidIsJustified
PROPERTIES
  Terminates
CHECK_DEADLOCK FALSE
