CONSTANTS
  SocketCounts = {1}
  MaxSockets = 1
  Intervals = {5}
  CollectEvery = 1
  CPUMetrics = {"softIRQ"}
  NetworkMetrics = {"rxMB"}
  SoftIRQMetrics = {"NETRX"}
  MemTotal = 1
SPECIFICATION FairSpec
PROPERTIES
  ActiveIsRunning
CHECK_DEADLOCK FALSE
