SPECIFICATION Spec
CONSTANTS
  rdk = rdk  mod = mod  sub = sub
  Threads = {t1}
  NoThread = NoThread
  Categories <- MCCategories
  Path <- MCPath
  Root = rdk
  Default = Default
  Files <- InfoDebug
  DebugConfFile = "debug_ini"
  LoggerInitFile = "etc_ini"
  RcPriority = 400
  RcMayFail = FALSE
  Calls <- LevelCalls
  LogAfterInit = TRUE
  Commands <- NoCommands
  QueueLength = 0
  MaxRequests = 0
  ReceiveMayFail = FALSE
INVARIANTS NoneDisables
