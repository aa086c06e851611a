CONSTANTS
  SocketCounts <- MCSocketCounts
  MaxSockets = 3
  Intervals <- MCIntervals
  CollectEvery = 2
  CPUMetrics = {"softIRQ"}
  NetworkMetrics = {"rxMB"}
  SoftIRQMetrics = {"NETRX"}
  MemTotal = 1
SPECIFICATION FairSpec
INVARIANTS
  NoCaptureLeft
  MemoryIsPercent
  ChartsAfterTen
PROPERTIES
  CutOnlyIfStubborn
  StopsWhenAsked
CHECK_DEADLOCK FALSE
