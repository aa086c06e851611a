CONSTANTS
  Instances = {"a"}
  TCInstances = {"a"}
  FirstInstance = "a"
  Loops <- MCLoops
  CounterMaps = {"stats_packets", "stats_loops"}
  LoopMap = "config_loop_count"
  EnabledMap = "config_enabled"
  Objects = {1, 2}
  None = None
  MaxRuns = 3
  MaxPackets = 1
SPECIFICATION Spec
INVARIANTS
  TypeOK
  RunningIsPinned
  RunningIsConfigured
  DetachLeavesNothingAtWork
CHECK_DEADLOCK FALSE
