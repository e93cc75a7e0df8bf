SPECIFICATION TestSpec
CONSTANTS
  main = main
  second = second
  Threads <- MCThreads
  NoThread = NoThread
  Categories <- MCCategories
  Path <- MCPath
  Root = "LOG.RDK"
  Default = "LOG.RDK.DEFAULT"
  Files <- TestFiles
  DebugConfFile = "debug.ini"
  LoggerInitFile = "/etc/debug.ini"
  RcPriority = 400
  RcMayFail = FALSE
  Calls <- MCCalls
  LogAfterInit = FALSE
  Commands <- MCCommands
  QueueLength = 10
  MaxRequests = 20
  ReceiveMayFail = FALSE
INVARIANTS TestsPass
CHECK_DEADLOCK FALSE
