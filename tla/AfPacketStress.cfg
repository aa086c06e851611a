CONSTANTS
  SocketCount = 3
  SocketBatch = 2
  Workers = {"w1"}
  Helpers = {"monitorCPUSoftIRQ"}
  PacketSize = 64
  FrameSizes = {106}
  MaxSent = 1
  MaxTotal = 2
  MaxRecv = 1
SPECIFICATION MCFairSpec
INVARIANTS
  JoinIsComplete
  FinalStatsExact
  AtMostOneBatchLate
  EverySocketTried
  LeakIsOneBatch
PROPERTIES
  StopDrains
