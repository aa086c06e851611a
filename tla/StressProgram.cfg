CONSTANTS
  CPUs = {c1, c2}
  LoopSettings = {75, 3000}
  MinLoops = 75
  PacketLens = {64}
  MinLen = 64
  Times = {1}
  MaxPackets = 2
SPECIFICATION MCSpec
SYMMETRY Symmetry
INVARIANTS
  SnapshotMissesAtMostOnePacket
  DisableDrains
  RecordedNearPerformed
PROPERTIES
  TotalsRegular
