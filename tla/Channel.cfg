SPECIFICATION Spec
CONSTANTS
  Pids = {p1, p2}
  NoPid = NoPid
  Slots = {s1, s2}
  Free = Free
  Lost = Lost
  Sockets = {k1, k2}
  NoSocket = NoSocket
  NoFile = NoFile
  Dead = Dead
  Calls <- AllCalls
  MayExec = TRUE
  SocketMayFail = TRUE
  QueueLength = 1
  MaxImages = 3
INVARIANTS TypeOK OnlyAddressee NameLeadsHome NoDescriptorLeak OnlyForkStrands
PROPERTIES ClosedUnlessRebinding ImplementsMailboxes
SYMMETRY ChannelSymmetry
CHECK_DEADLOCK FALSE
