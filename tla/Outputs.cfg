SPECIFICATION Spec
CONSTANTS
  mod = mod  odd = odd
  InitialSize = 5
  MaxSize = 0
  ReallocMayFail = TRUE
  Modules <- MCModules
  CategoryOf <- MCCategoryOf
  Configs <- MCConfigs
  Messages <- MCMessages
  Memory = {u1, u2}
  NULL = NULL
  Stdout = Stdout
  LongMax = 7
  DefaultSize = 6
INVARIANTS TypeOK Rendered GrowsOnce UdataTracked StreamsOwned LimitsPositive
PROPERTIES Delivered
