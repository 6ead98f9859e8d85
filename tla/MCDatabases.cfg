SPECIFICATION Spec
CONSTANTS
  Databases <- NoDatabases
  Words <- MCWords
  OomWords <- MCOomWords
  TimeoutWords <- MCTimeoutWords
  Messages <- MCMessages
  PathTokens <- MCPathTokens
  Ports <- MCPorts
  ServerPort = "8080"
  Elements <- MCElements
  Existing <- MCExisting
  Targets <- RootTargets
  TargetPath <- RootTargetPath
  Names <- RootNames
  NamePath <- RootNamePath
  Faults = {"create", "remove"}
VIEW DiskView
PROPERTIES
  DatabasesSurvive
