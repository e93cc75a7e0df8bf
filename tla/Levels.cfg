SPECIFICATION Spec
CONSTANTS
  rdk = rdk  mod = mod  sub = sub
  Threads = {t1, t2}
  NoThread = NoThread
  Categories <- MCCategories
  Path <- MCPath
  Root = rdk
  Default = Default
  Files <- InfoDebug
  DebugConfFile = "debug_ini"
  LoggerInitFile = "etc_ini"
  RcPriority = 400
  RcMayFail = TRUE
  Calls <- LevelCalls
  LogAfterInit = TRUE
  Commands <- LevelCommands
  QueueLength = 1
  MaxRequests = 1
  ReceiveMayFail = FALSE
SYMMETRY MCSymmetry
INVARIANTS TypeOK LastLevelWins InheritsDefault LogFollowsLevel GetTellsWhatIsPrinted OneReceiver
PROPERTIES ConfiguredOnce ImplementsRegister
