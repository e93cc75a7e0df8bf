SPECIFICATION MCSpec
CONSTANTS
  BufferLength = 4
  Texts <- MCTexts
  Pids = {1, 2}
  Programs <- MCPrograms
  ArgumentLists <- MCArgumentLists
  NameMax = 64
  PathSize = 108
  IntMax = 999
  LongMax = 1000
  Nothing = Nothing
  Processes = {p1, p2}
  Markers = {"onboarded", "disabled"}
  Arguments <- MCArguments
  NoText = NoText
  MaxBufSize = 4
  MaxCalls = 2
  MaxTime = 2
INVARIANTS LinesRead SettingsBare
INVARIANTS ResultTrue NoneRefused
INVARIANTS AppendedLogsTypeOK OneLinePerCall LateOnce MilestonesInOrder
PROPERTIES SentIsApplied
SYMMETRY MCSymmetry
CHECK_DEADLOCK FALSE
