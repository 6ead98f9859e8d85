SPECIFICATION Spec
CONSTANTS
  Base = 4
  Chars <- MCChars
  Lower <- MCLower
  NodeIds <- MCNodeIds
  EdgeIds <- MCEdgeIds
  Labels <- MCLabels
  Props <- MCProps
  MaxPuts = 3
  MaxRowBytes = 40
  Width = 4
  Seed = 5
  Multiplier = 7
  Bar = 12
  BitXor <- MCBitXor
  FormatUint <- MCFormatUint
INVARIANTS
  TypeOK
  NodesReadable
  FatBatchReadable
  IndexKeysDistinct
  OneCharacterTells
CHECK_DEADLOCK FALSE
