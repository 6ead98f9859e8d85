SPECIFICATION Spec
CONSTANTS
  Databases <- MCDatabases
  Words <- MCWords
  OomWords <- MCOomWords
  TimeoutWords <- MCTimeoutWords
  Messages <- MCMessages
  PathTokens <- MCPathTokens
  Ports <- MCPorts
  ServerPort = "8080"
  Elements <- MCElements
  Existing <- MCExisting
  Targets <- ServerTargets
  TargetPath <- ServerTargetPath
  Names <- ServerNames
  NamePath <- ServerNamePath
  Faults = {"crash", "slow", "use"}
INVARIANTS
  TypeOK
  PromptTellsServer
