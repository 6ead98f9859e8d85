SPECIFICATION FairSpec
CONSTANTS
  Databases <- MCDatabases
  Words <- MCWords
  OomWords <- MCOomWords
  TimeoutWords <- MCTimeoutWords
  Messages <- MCMessages
  ActiveDB = "db"
  QueryFiles <- MCQueryFiles
  Options <- AllOptions
  RunTimes <- MCRunTimes
  Faults = {"crash", "slow", "use", "lost", "garbled", "nometa", "restart", "files"}
INVARIANTS
  TypeOK
  MeasuredAsMeant
PROPERTIES
  ReportSpec
  BenchmarkEnds
CHECK_DEADLOCK FALSE
