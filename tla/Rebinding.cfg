SPECIFICATION FairSpec
CONSTANTS
  Pids = {p1, p2}
  NoPid = NoPid
  Slots = {s1, s2}
  Free = Free
  Lost = Lost
  Sockets = {k1, k2}
  NoSocket = NoSocket
  NoFile = NoFile
  Dead = Dead
  Calls <- LoggingCalls
  MayExec = FALSE
  SocketMayFail = FALSE
  QueueLength = 0
  MaxImages = 2
PROPERTIES ChildRebinds
CHECK_DEADLOCK FALSE
