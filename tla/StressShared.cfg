CONSTANTS
  Instances = {"a", "b"}
  TCInstances = {}
  FirstInstance = "a"
  Loops <- MCLoops
  CounterMaps = {"stats_packets", "stats_loops"}
  LoopMap = "config_loop_count"
  EnabledMap = "config_enabled"
  Objects = {1, 2}
  None = None
  MaxRuns = 1
  MaxPackets = 1
SPECIFICATION Spec
INVARIANTS
  RunningIsPinned
CHECK_DEADLOCK FALSE
