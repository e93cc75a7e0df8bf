SPECIFICATION Spec
CONSTANTS
  Pids = {p1, p2}
  NoPid = NoPid
  Slots = {s1}
  Free = Free
  Lost = Lost
  Sockets = {k1, k2}
  NoSocket = NoSocket
  NoFile = NoFile
  Dead = Dead
  Calls <- LoggingCalls
  MayExec = FALSE
  SocketMayFail = FALSE
  QueueLength = 1
  MaxImages = 2
INVARIANTS InitedHasSocket
CHECK_DEADLOCK FALSE
