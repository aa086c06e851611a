CONSTANTS
  Second = 50
  Microsecond = 10
  DefaultPPS = 7
  BatchSize = 2
  MaxBatch = 3
  Burst = 2
  PacketSize = 64
  Rates = {1, 7}
  WorkerCounts = {1, 2}
  MaxWorkers = 2
  MaxPPS = 60
  MaxFires = 2
  MaxBursts = 2
SPECIFICATION FairSpec
INVARIANTS
  NeverAheadOfTicker
  FinalStatsExact
  RateAsAsked
PROPERTIES
  Termination
CHECK_DEADLOCK FALSE
