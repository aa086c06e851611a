CONSTANTS
  Procs = {p1, p2}
  MapOrder <- MCMapOrder
  StatsMap = "interface_latency_stats"
  Interfaces = {i1, i2}
  Objects = {1, 2}
  Nobody = Nobody
  MaxStarts = 3
  MaxPackets = 1
SYMMETRY Symmetry
SPECIFICATION CollectorSpec
INVARIANTS
  RunningSharesPins
  AttachedIsMeasured
  NothingLeftBehind
PROPERTIES
  TotalsGrow
CHECK_DEADLOCK FALSE
