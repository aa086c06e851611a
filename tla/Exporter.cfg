CONSTANTS
  ReadOrder <- MCReadOrder
  LoopMap = "config_loop_count"
  RateMaps = {"stats_packets", "stats_loops"}
  Objects = {1, 2}
  None = None
  MaxUInt64 = 255
  Root = TRUE
  MaxCount = 1
  LoopObject = 1
SPECIFICATION MCFairSpec
INVARIANTS
  UpMeansAllOpen
  NoRateWraps
PROPERTIES
  TotalsGrow
  ConnectsWhenUntouched
  TotalsCatchUp
  RatesSettle
CHECK_DEADLOCK FALSE
