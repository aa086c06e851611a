CONSTANTS
  Instances = {"a"}
  TCInstances = {}
  Loops <- MCLoops
  CounterMaps = {"stats_packets"}
  LoopMap = "config_loop_count"
  EnabledMap = "config_enabled"
  Objects = {1, 2}
  None = None
  MaxRuns = 2
  MaxPackets = 1
  ReadOrder <- MCReadOrder
  RateMaps = {"stats_packets"}
  MaxUInt64 = 255
  Root = FALSE
SPECIFICATION MCServingSpec
PROPERTIES
  ExporterIsServed
  RunGetsExported
CHECK_DEADLOCK FALSE
