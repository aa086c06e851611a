CONSTANTS
  CPUs = {c1, c2}
  Packets = {p1, p2}
  Hashes = {h1, h2}
  Ifaces = {1}
  None = None
  MaxTracked = 2
  BucketCount = 2
  MaxUInt64 = 999999999
  TickNs = 1000
  MaxClock = 2000
SYMMETRY Symmetry
SPECIFICATION MCSpec
INVARIANTS
  UniqueIsExact
  MeasuredOncePerCPU
  MapsAgree
  ExtremesExact
  SnapshotCovers
CHECK_DEADLOCK FALSE
