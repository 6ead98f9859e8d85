SPECIFICATION Spec
CONSTANTS
  Databases <- MCDatabases
  Words <- MCWords
  OomWords <- MCOomWords
  TimeoutWords <- MCTimeoutWords
  Messages <- MCMessages
  ActiveDB = "db"
  QueryFiles <- MCQueryFiles
  Options <- AllOptions
  RunTimes <- MCRunTimes
  Faults = {"restart"}
INVARIANTS
  ColdMeasuresCold
CHECK_DEADLOCK FALSE
