SPECIFICATION FairSpec
CONSTANTS
  rdk = rdk  mod = mod  sub = sub
  Threads = {t1, t2}
  NoThread = NoThread
  Categories <- MCCategories
  Path <- MCPath
  Root = rdk
  Default = Default
  Files <- NoneBad
  DebugConfFile = "debug_ini"
  LoggerInitFile = "debug_ini"
  RcPriority = 400
  RcMayFail = TRUE
  Calls <- ProgressCalls
  LogAfterInit = TRUE
  Commands <- ControlCommands
  QueueLength = 2
  MaxRequests = 2
  ReceiveMayFail = FALSE
INVARIANTS RequestsInOrder NoSocketLeaked LockOrder
PROPERTIES ClosedForGood CallsBounded CallsReturn RequestsDrained
