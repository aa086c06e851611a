-------------------------- MODULE StressProgramProofs --------------------------
(***************************************************************************)
(* Proofs about StressProgram for any number of CPUs, any settings and any *)
(* packets.  Each property has its own strengthening, stated per CPU; all  *)
(* of them rest on type correctness.                                       *)
(***************************************************************************)
EXTENDS StressTotals, SumTheorems

(***************************************************************************)
(* perform_stress_loop executes at most the number it is given, and misses *)
(* it by less than one inner round, for every target get_loop_count can    *)
(* return.                                                                 *)
(***************************************************************************)
LEMMA IterationsNearTarget ==
  ASSUME NEW n \in 0 .. MAX_TOTAL_LOOPS
  PROVE  /\ Iterations(n) \in Nat
         /\ Iterations(n) <= n
         /\ n - Iterations(n) <= MAX_INNER_LOOPS - 1
<1>1. CASE n = MAX_TOTAL_LOOPS
  BY <1>1 DEF Iterations, OuterLimit, InnerLimit, MAX_TOTAL_LOOPS,
              MAX_OUTER_LOOPS, MAX_INNER_LOOPS
<1>2. CASE n < MAX_TOTAL_LOOPS /\ n >= MAX_INNER_LOOPS
  <2>1. Iterations(n) = (n \div 50) * 50
    BY <1>2 DEF Iterations, OuterLimit, InnerLimit, MAX_TOTAL_LOOPS,
                MAX_OUTER_LOOPS, MAX_INNER_LOOPS
  <2>2. n = 50 * (n \div 50) + (n % 50) /\ n % 50 \in 0 .. 49 /\ n \div 50 \in Nat
    BY DEF MAX_TOTAL_LOOPS, MAX_OUTER_LOOPS, MAX_INNER_LOOPS
  <2>. QED  BY <2>1, <2>2 DEF MAX_INNER_LOOPS
<1>3. CASE n < MAX_INNER_LOOPS
  BY <1>3 DEF Iterations, OuterLimit, InnerLimit, MAX_TOTAL_LOOPS,
              MAX_OUTER_LOOPS, MAX_INNER_LOOPS
<1>4. n = MAX_TOTAL_LOOPS \/ (n < MAX_TOTAL_LOOPS /\ n >= MAX_INNER_LOOPS) \/ n < MAX_INNER_LOOPS
  BY DEF MAX_TOTAL_LOOPS, MAX_OUTER_LOOPS, MAX_INNER_LOOPS
<1>. QED
  BY <1>1, <1>2, <1>3, <1>4, Zenon

LEMMA CappedType ==
  ASSUME NEW n \in Nat
  PROVE  Capped(n) \in 0 .. MAX_TOTAL_LOOPS
BY DEF Capped, MAX_TOTAL_LOOPS, MAX_OUTER_LOOPS, MAX_INNER_LOOPS

LEMMA AfterType ==
  ASSUME NEW f \in Counters
  PROVE  After[f] \in {"idle", "entered"} \cup Counters
BY DEF After, Counters

LEMMA AmountType ==
  ASSUME TypeOK, NEW c \in CPUs, NEW f \in Counters
  PROVE  Amount(c, f) \in Nat
<1>1. pkt[c] \in [loops : 0 .. MAX_TOTAL_LOOPS, bytes : Nat, time_ns : Nat]
  BY DEF TypeOK
<1>2. /\ pkt[c].loops \in 0 .. MAX_TOTAL_LOOPS
      /\ pkt[c].bytes \in Nat /\ pkt[c].time_ns \in Nat
  BY <1>1
<1>3. \A n \in 0 .. MAX_TOTAL_LOOPS : n \in Nat
  OBVIOUS
<1>. QED
  BY <1>2, <1>3 DEF Amount, Counters

--------------------------------------------------------------------------------
(* Every variable keeps its type.                                          *)
LEMMA InitTypeOK == Init => TypeOK
BY SettingsAssumption
   DEF Init, TypeOK, NoPacket, Counters, MAX_TOTAL_LOOPS, MAX_OUTER_LOOPS,
       MAX_INNER_LOOPS

LEMMA NextTypeOK == TypeOK /\ [Next]_vars => TypeOK'
<1>. SUFFICES ASSUME TypeOK, [Next]_vars PROVE TypeOK'
  OBVIOUS
<1>. USE SettingsAssumption
<1>1. ASSUME NEW n \in LoopSettings, SetLoopCount(n) PROVE TypeOK'
  BY <1>1 DEF TypeOK, SetLoopCount, program, reader
<1>2. ASSUME NEW on \in {0, 1}, SetEnabled(on) PROVE TypeOK'
  BY <1>2 DEF TypeOK, SetEnabled, program, reader, Counters
<1>3. ASSUME NEW c \in CPUs, NEW len \in PacketLens, Enter(c, len) PROVE TypeOK'
  <2>1. [NoPacket EXCEPT !.bytes = len]
          \in [loops : 0 .. MAX_TOTAL_LOOPS, bytes : Nat, time_ns : Nat]
    BY DEF NoPacket, MAX_TOTAL_LOOPS, MAX_OUTER_LOOPS, MAX_INNER_LOOPS
  <2>2. pkt' \in [CPUs -> [loops : 0 .. MAX_TOTAL_LOOPS, bytes : Nat, time_ns : Nat]]
    BY <1>3, <2>1 DEF TypeOK, Enter
  <2>3. pc' \in [CPUs -> {"idle", "entered"} \cup Counters]
    BY <1>3 DEF TypeOK, Enter
  <2> QED
    BY <1>3, <2>2, <2>3 DEF TypeOK, Enter, config, reader
<1>4. ASSUME NEW c \in CPUs, NEW time \in Times, StressLoop(c, time) PROVE TypeOK'
  <2>1. Capped(loopCount) \in 0 .. MAX_TOTAL_LOOPS
    BY CappedType DEF TypeOK
  <2>2. Iterations(Capped(loopCount)) \in Nat
    BY <2>1, IterationsNearTarget
  <2>3. pkt' \in [CPUs -> [loops : 0 .. MAX_TOTAL_LOOPS, bytes : Nat, time_ns : Nat]]
    BY <1>4, <2>1 DEF TypeOK, StressLoop
  <2>. QED  BY <1>4, <2>2, <2>3 DEF TypeOK, StressLoop, config, reader, Counters
<1>5. ASSUME NEW c \in CPUs, NEW f \in Counters, Add(c, f) PROVE TypeOK'
  <2>1. stats[f][c] + Amount(c, f) \in Nat
    BY AmountType DEF TypeOK
  <2>2. stats' \in [Counters -> [CPUs -> Nat]]
    BY <1>5, <2>1 DEF TypeOK, Add
  <2>3. pc' \in [CPUs -> {"idle", "entered"} \cup Counters]
    BY <1>5, AfterType DEF TypeOK, Add
  <2>. QED  BY <1>5, <2>2, <2>3 DEF TypeOK, Add, config, reader
<1>6. ASSUME StartRead PROVE TypeOK'
  <2>1. seen' \in [Counters -> [CPUs -> Nat]]
    BY <1>6 DEF StartRead
  <2>. QED  BY <1>6, <2>1 DEF TypeOK, StartRead, config, program, Counters
<1>7. ASSUME NEW c \in CPUs, CopyCPU(c) PROVE TypeOK'
  <2>1. at \in Counters
    BY <1>7 DEF TypeOK, CopyCPU
  <2>2. seen' \in [Counters -> [CPUs -> Nat]]
    BY <1>7, <2>1 DEF TypeOK, CopyCPU
  <2>3. at' \in {"idle"} \cup Counters /\ todo' \subseteq CPUs
    BY <1>7, <2>1 DEF TypeOK, CopyCPU, After, Counters
  <2>. QED  BY <1>7, <2>2, <2>3 DEF TypeOK, CopyCPU, config, program
<1>8. CASE UNCHANGED vars
  BY <1>8 DEF TypeOK, vars, config, program, reader
<1>. QED
  BY <1>1, <1>2, <1>3, <1>4, <1>5, <1>6, <1>7, <1>8
     DEF Next, Configure, Packet, Read

THEOREM TypeCorrect == Spec => []TypeOK
BY InitTypeOK, NextTypeOK, PTL DEF Spec

\* What the first state says of one CPU.
LEMMA InitAt ==
  ASSUME Init, NEW c \in CPUs
  PROVE  /\ \A f \in Counters : stats[f][c] = 0 /\ seen[f][c] = 0
         /\ pc[c] = "idle" /\ performed[c] = 0 /\ packetsAtDisable[c] = 0
BY DEF Init

--------------------------------------------------------------------------------
(***************************************************************************)
(* LoopsWithinCap.  While the add to stats_loops of a counted packet is    *)
(* outstanding, the map is a whole cap below its bound.                    *)
(***************************************************************************)
CapAt(c) ==
  /\ stats["loops"][c] <= MAX_TOTAL_LOOPS * stats["packets"][c]
  /\ pc[c] = "loops" =>
       stats["loops"][c] <= MAX_TOTAL_LOOPS * (stats["packets"][c] - 1)

CapInv == \A c \in CPUs : CapAt(c)

LEMMA CapInductive == TypeOK /\ CapInv /\ [Next]_vars => CapInv'
<1>. SUFFICES ASSUME TypeOK, CapInv, [Next]_vars, NEW c \in CPUs
              PROVE  CapAt(c)'
  BY DEF CapInv
<1>. USE DEF MAX_TOTAL_LOOPS, MAX_OUTER_LOOPS, MAX_INNER_LOOPS
<1>1. CASE UNCHANGED <<stats, pc>>
  BY <1>1 DEF CapInv, CapAt
<1>2. ASSUME NEW d \in CPUs, NEW len \in PacketLens, Enter(d, len) PROVE CapAt(c)'
  BY <1>2 DEF CapInv, CapAt, TypeOK, Enter
<1>3. ASSUME NEW d \in CPUs, NEW time \in Times, StressLoop(d, time)
      PROVE  CapAt(c)'
  BY <1>3 DEF CapInv, CapAt, TypeOK, StressLoop
<1>4. ASSUME NEW d \in CPUs, NEW f \in Counters, Add(d, f) PROVE CapAt(c)'
  <2>1. CASE f = "packets"
    BY <1>4, <2>1 DEF CapInv, CapAt, TypeOK, Add, Amount, After, Counters
  <2>2. CASE f = "loops"
    <3>. DEFINE p == stats["packets"][d]
                l == stats["loops"][d]
                k == pkt[d].loops
    <3>1. k \in 0 .. 2500 /\ l \in Nat /\ p \in Nat
      BY DEF TypeOK, Counters
    <3>2. stats'["loops"][d] = l + k /\ stats'["packets"][d] = p /\ pc'[d] = "bytes"
      BY <1>4, <2>2 DEF TypeOK, Add, Amount, After, Counters
    <3>3. CASE c = d
      <4>1. l <= 2500 * (p - 1)
        BY <1>4, <2>2 DEF CapInv, CapAt, Add
      <4>2. l + k <= 2500 * p
        <5>. HIDE DEF l, k, p
        <5>. QED  BY <3>1, <4>1
      <4>. QED  BY <3>2, <3>3, <4>2 DEF CapAt
    <3>4. CASE c # d
      BY <1>4, <2>2, <3>4 DEF CapInv, CapAt, TypeOK, Add, Counters
    <3>. QED  BY <3>3, <3>4
  <2>3. CASE f \in {"bytes", "time_ns"}
    BY <1>4, <2>3 DEF CapInv, CapAt, TypeOK, Add, After, Counters
  <2>. QED  BY <2>1, <2>2, <2>3 DEF Counters
<1>. QED
  BY <1>1, <1>2, <1>3, <1>4
     DEF Next, Configure, Packet, Read, SetLoopCount, SetEnabled, StartRead,
         CopyCPU, vars, program

\* At every moment stats_loops is at most the cap times stats_packets.
THEOREM LoopsCapped == Spec => []LoopsWithinCap
<1>1. Init => CapInv
  <2>. SUFFICES ASSUME Init, NEW c \in CPUs PROVE CapAt(c)
    BY DEF CapInv
  <2>1. stats["packets"][c] = 0 /\ stats["loops"][c] = 0 /\ pc[c] = "idle"
    BY InitAt DEF Counters
  <2>. QED
    BY <2>1 DEF CapAt, MAX_TOTAL_LOOPS, MAX_OUTER_LOOPS, MAX_INNER_LOOPS
<1>2. TypeOK /\ CapInv => LoopsWithinCap
  BY DEF TypeOK, CapInv, CapAt, LoopsWithinCap, Counters, MAX_TOTAL_LOOPS,
         MAX_OUTER_LOOPS, MAX_INNER_LOOPS
<1>. QED
  BY <1>1, <1>2, CapInductive, TypeCorrect, PTL DEF Spec

--------------------------------------------------------------------------------
(***************************************************************************)
(* DisableDrains.  What may still be counted is the packet a CPU has let   *)
(* in but not yet added.                                                   *)
(***************************************************************************)
DrainAt(c) ==
  /\ stats["packets"][c] <= packetsAtDisable[c] + 1
  /\ pc[c] \in {"entered", "packets"} => stats["packets"][c] <= packetsAtDisable[c]

DrainInv == enabled = 0 => \A c \in CPUs : DrainAt(c)

LEMMA DrainInductive == TypeOK /\ DrainInv /\ [Next]_vars => DrainInv'
<1>. SUFFICES ASSUME TypeOK, DrainInv, [Next]_vars, enabled' = 0, NEW c \in CPUs
              PROVE  DrainAt(c)'
  BY DEF DrainInv
<1>1. CASE UNCHANGED <<enabled, stats, pc, packetsAtDisable>>
  BY <1>1 DEF DrainInv, DrainAt
<1>2. ASSUME NEW on \in {0, 1}, SetEnabled(on) PROVE DrainAt(c)'
  BY <1>2 DEF DrainInv, DrainAt, TypeOK, SetEnabled, program, Counters
<1>3. ASSUME NEW d \in CPUs, NEW len \in PacketLens, Enter(d, len)
      PROVE  DrainAt(c)'
  BY <1>3 DEF Enter, config
<1>4. ASSUME NEW d \in CPUs, NEW time \in Times, StressLoop(d, time)
      PROVE  DrainAt(c)'
  BY <1>4 DEF DrainInv, DrainAt, TypeOK, StressLoop, config
<1>5. ASSUME NEW d \in CPUs, NEW f \in Counters, Add(d, f) PROVE DrainAt(c)'
  BY <1>5 DEF DrainInv, DrainAt, TypeOK, Add, Amount, After, Counters, config
<1>. QED
  BY <1>1, <1>2, <1>3, <1>4, <1>5
     DEF Next, Configure, Packet, Read, SetLoopCount, StartRead, CopyCPU, vars,
         program, config

\* With config_enabled at 0 no CPU counts more than one further packet.
THEOREM DisableTakesEffect == Spec => []DisableDrains
<1>1. Init => DrainInv
  <2>. SUFFICES ASSUME Init, NEW c \in CPUs PROVE DrainAt(c)
    BY DEF DrainInv
  <2>1. stats["packets"][c] = 0 /\ packetsAtDisable[c] = 0
    BY InitAt DEF Counters
  <2>. QED  BY <2>1 DEF DrainAt
<1>2. TypeOK /\ DrainInv => DisableDrains
  BY DEF TypeOK, DrainInv, DrainAt, DisableDrains, Counters
<1>. QED
  BY <1>1, <1>2, DrainInductive, TypeCorrect, PTL DEF Spec

--------------------------------------------------------------------------------
(***************************************************************************)
(* RecordedNearPerformed.  Counted as recorded are also the loops of the   *)
(* packet whose adds are still to come.                                    *)
(***************************************************************************)
PendingLoops(c) == IF pc[c] \in {"packets", "loops"} THEN pkt[c].loops ELSE 0
PendingPackets(c) == IF pc[c] = "packets" THEN 1 ELSE 0

\* x iterations performed are near r recorded for p packets.
Near(x, r, p) == x <= r /\ r - x <= 49 * p

RecordAt(c) == Near(performed[c],
                    stats["loops"][c] + PendingLoops(c),
                    stats["packets"][c] + PendingPackets(c))

RecordInv == \A c \in CPUs : RecordAt(c)

LEMMA PendingType ==
  ASSUME TypeOK, NEW c \in CPUs
  PROVE  /\ PendingLoops(c) \in Nat /\ PendingPackets(c) \in Nat
         /\ stats["loops"][c] \in Nat /\ stats["packets"][c] \in Nat
         /\ performed[c] \in Nat /\ pkt[c].loops \in 0 .. MAX_TOTAL_LOOPS
<1>1. pkt[c].loops \in 0 .. MAX_TOTAL_LOOPS
  BY DEF TypeOK
<1>2. \A n \in 0 .. MAX_TOTAL_LOOPS : n \in Nat
  OBVIOUS
<1>. QED
  BY <1>1, <1>2 DEF PendingLoops, PendingPackets, TypeOK, Counters

\* A step that leaves the sums of RecordAt alone keeps it.
LEMMA RecordSame ==
  ASSUME NEW c \in CPUs, RecordAt(c),
         performed'[c] = performed[c],
         stats'["loops"][c] + PendingLoops(c)' = stats["loops"][c] + PendingLoops(c),
         stats'["packets"][c] + PendingPackets(c)'
           = stats["packets"][c] + PendingPackets(c)
  PROVE  RecordAt(c)'
BY DEF RecordAt

LEMMA RecordInductive == TypeOK /\ RecordInv /\ [Next]_vars => RecordInv'
<1>. SUFFICES ASSUME TypeOK, RecordInv, [Next]_vars, NEW c \in CPUs
              PROVE  RecordAt(c)'
  BY DEF RecordInv
<1>0. RecordAt(c)
  BY DEF RecordInv
<1>1. CASE UNCHANGED <<stats, pc, pkt, performed>>
  BY <1>0, <1>1 DEF RecordAt, PendingLoops, PendingPackets
<1>2. ASSUME NEW d \in CPUs, NEW len \in PacketLens, Enter(d, len)
      PROVE  RecordAt(c)'
  <2>1. /\ stats' = stats /\ performed' = performed
        /\ PendingLoops(c)' = PendingLoops(c)
        /\ PendingPackets(c)' = PendingPackets(c)
    BY <1>2 DEF Enter, PendingLoops, PendingPackets, TypeOK
  <2>. QED  BY <1>0, <2>1, RecordSame
<1>3. ASSUME NEW d \in CPUs, NEW time \in Times, StressLoop(d, time)
      PROVE  RecordAt(c)'
  <2>1. CASE c # d
    <3>1. /\ stats' = stats /\ performed'[c] = performed[c]
          /\ pc'[c] = pc[c] /\ pkt'[c] = pkt[c]
      BY <1>3, <2>1 DEF StressLoop, TypeOK
    <3>2. PendingLoops(c)' = PendingLoops(c) /\ PendingPackets(c)' = PendingPackets(c)
      BY <3>1 DEF PendingLoops, PendingPackets
    <3>. QED  BY <1>0, <3>1, <3>2, RecordSame
  <2>2. CASE c = d
    <3>. DEFINE n == Capped(loopCount)
                i == Iterations(n)
                l == stats["loops"][c]
                p == stats["packets"][c]
                x == performed[c]
    <3>1. n \in 0 .. MAX_TOTAL_LOOPS
      BY CappedType, SettingsAssumption DEF TypeOK
    <3>2. n \in Nat /\ i \in Nat /\ i <= n /\ n - i <= 49
      BY <3>1, IterationsNearTarget DEF MAX_INNER_LOOPS
    <3>3. l \in Nat /\ p \in Nat /\ x \in Nat
      BY PendingType
    <3>4. x <= l /\ l - x <= 49 * p
      <4>1. PendingLoops(c) = 0 /\ PendingPackets(c) = 0
        BY <1>3, <2>2 DEF StressLoop, PendingLoops, PendingPackets
      <4>. QED  BY <1>0, <3>3, <4>1 DEF RecordAt, Near
    <3>5. /\ stats'["loops"][c] = l /\ stats'["packets"][c] = p
          /\ performed'[c] = x + i
          /\ PendingLoops(c)' = n /\ PendingPackets(c)' = 1
      BY <1>3, <2>2, Zenon DEF StressLoop, PendingLoops, PendingPackets, TypeOK
    <3>6. Near(x + i, l + n, p + 1)
      <4>. HIDE DEF n, i, l, p, x
      <4>. QED  BY <3>2, <3>3, <3>4 DEF Near
    <3>. QED  BY <3>5, <3>6 DEF RecordAt
  <2>. QED  BY <2>1, <2>2
<1>4. ASSUME NEW d \in CPUs, NEW f \in Counters, Add(d, f) PROVE RecordAt(c)'
  <2>1. performed' = performed /\ pkt' = pkt
    BY <1>4 DEF Add
  <2>2. CASE c # d
    <3>1. /\ pc'[c] = pc[c] /\ stats'["loops"][c] = stats["loops"][c]
          /\ stats'["packets"][c] = stats["packets"][c]
      BY <1>4, <2>2 DEF Add, TypeOK, Counters
    <3>2. PendingLoops(c)' = PendingLoops(c) /\ PendingPackets(c)' = PendingPackets(c)
      BY <2>1, <3>1 DEF PendingLoops, PendingPackets
    <3>. QED  BY <1>0, <2>1, <3>1, <3>2, RecordSame
  <2>3. CASE c = d /\ f = "packets"
    <3>1. /\ pc[c] = "packets" /\ pc'[c] = "loops"
          /\ stats'["loops"][c] = stats["loops"][c]
          /\ stats'["packets"][c] = stats["packets"][c] + 1
      BY <1>4, <2>3 DEF Add, TypeOK, Counters, Amount, After
    <3>2. /\ PendingLoops(c)' = PendingLoops(c)
          /\ PendingPackets(c)' = 0 /\ PendingPackets(c) = 1
      BY <2>1, <3>1 DEF PendingLoops, PendingPackets
    <3>. QED  BY <1>0, <2>1, <3>1, <3>2, PendingType, RecordSame
  <2>4. CASE c = d /\ f = "loops"
    <3>1. /\ pc[c] = "loops" /\ pc'[c] = "bytes"
          /\ stats'["loops"][c] = stats["loops"][c] + pkt[c].loops
          /\ stats'["packets"][c] = stats["packets"][c]
      BY <1>4, <2>4 DEF Add, TypeOK, Counters, Amount, After
    <3>2. /\ PendingLoops(c)' = 0 /\ PendingLoops(c) = pkt[c].loops
          /\ PendingPackets(c)' = 0 /\ PendingPackets(c) = 0
      BY <3>1 DEF PendingLoops, PendingPackets
    <3>. QED  BY <1>0, <2>1, <3>1, <3>2, PendingType, RecordSame
  <2>5. CASE c = d /\ f \in {"bytes", "time_ns"}
    <3>1. /\ pc[c] \in {"bytes", "time_ns"} /\ pc'[c] \in {"time_ns", "idle"}
          /\ stats'["loops"][c] = stats["loops"][c]
          /\ stats'["packets"][c] = stats["packets"][c]
      BY <1>4, <2>5 DEF Add, TypeOK, Counters, After
    <3>2. /\ PendingLoops(c)' = PendingLoops(c)
          /\ PendingPackets(c)' = PendingPackets(c)
      BY <3>1 DEF PendingLoops, PendingPackets
    <3>. QED  BY <1>0, <2>1, <3>1, <3>2, RecordSame
  <2>. QED  BY <2>2, <2>3, <2>4, <2>5 DEF Counters
<1>. QED
  BY <1>1, <1>2, <1>3, <1>4
     DEF Next, Configure, Packet, Read, SetLoopCount, SetEnabled, StartRead,
         CopyCPU, vars, program

\* On an idle CPU stats_loops is at or ahead of the iterations performed, by
\* less than one inner round per packet.
THEOREM LoopsRecorded == Spec => []RecordedNearPerformed
<1>1. Init => RecordInv
  <2>. SUFFICES ASSUME Init, NEW c \in CPUs PROVE RecordAt(c)
    BY DEF RecordInv
  <2>1. /\ stats["packets"][c] = 0 /\ stats["loops"][c] = 0 /\ pc[c] = "idle"
        /\ performed[c] = 0
    BY InitAt DEF Counters
  <2>2. PendingLoops(c) = 0 /\ PendingPackets(c) = 0
    BY <2>1 DEF PendingLoops, PendingPackets
  <2>. QED  BY <2>1, <2>2 DEF RecordAt, Near
<1>2. TypeOK /\ RecordInv => RecordedNearPerformed
  <2>. SUFFICES ASSUME TypeOK, RecordInv, NEW c \in CPUs, pc[c] = "idle"
                PROVE  /\ performed[c] <= stats["loops"][c]
                       /\ stats["loops"][c] - performed[c]
                            <= (MAX_INNER_LOOPS - 1) * stats["packets"][c]
    BY DEF RecordedNearPerformed
  <2>1. PendingLoops(c) = 0 /\ PendingPackets(c) = 0
    BY DEF PendingLoops, PendingPackets
  <2>. QED  BY <2>1, PendingType DEF RecordInv, RecordAt, Near, MAX_INNER_LOOPS
<1>. QED
  BY <1>1, <1>2, RecordInductive, TypeCorrect, PTL DEF Spec

--------------------------------------------------------------------------------
(***************************************************************************)
(* SnapshotMissesAtMostOnePacket.  The counters satisfy the bound for all  *)
(* packets counted, or for all but the one whose add is still to come; the *)
(* reader's packet count is never ahead of the map's; so what it copies of *)
(* the later maps satisfies the bound for its own packet count.            *)
(***************************************************************************)
Sized == {"loops", "bytes"}

\* c has counted a packet whose add to f is still to come.
Outstanding(c, f) == pc[c] = "loops" \/ (f = "bytes" /\ pc[c] = "bytes")

\* v holds at least k for each of n packets.
Covers(v, k, n) == v >= k * n

PktAt(c) ==
  /\ pc[c] # "idle" => pkt[c].bytes >= MinLen
  /\ pc[c] \in Counters => pkt[c].loops >= MinLoops

MapsAt(c, f) ==
  /\ Covers(stats[f][c], Least(f), stats["packets"][c] - 1)
  /\ ~Outstanding(c, f) => Covers(stats[f][c], Least(f), stats["packets"][c])

SeenAt(c, f) ==
  /\ seen["packets"][c] <= stats["packets"][c]
  /\ Copied(f, c) => Covers(seen[f][c], Least(f), seen["packets"][c] - 1)

LagInv == \A c \in CPUs : PktAt(c) /\ \A f \in Sized : MapsAt(c, f) /\ SeenAt(c, f)

LEMMA CoversFewer ==
  ASSUME NEW v \in Int, NEW k \in Nat, NEW n \in Int, NEW m \in Int, m <= n,
         Covers(v, k, n)
  PROVE  Covers(v, k, m)
<1>. DEFINE d == n - m
<1>1. d \in Nat /\ n = m + d
  OBVIOUS
<1>. HIDE DEF d
<1>2. k * d >= 0
  BY <1>1
<1>3. k * n = k * m + k * d
  BY <1>1
<1>. QED
  BY <1>1, <1>2, <1>3 DEF Covers

LEMMA CoversMore ==
  ASSUME NEW v \in Int, NEW k \in Nat, NEW n \in Int, NEW a \in Int, a >= k,
         Covers(v, k, n)
  PROVE  Covers(v + a, k, n + 1)
<1>1. k * (n + 1) = k * n + k
  OBVIOUS
<1>. QED
  BY <1>1 DEF Covers

LEMMA LeastType ==
  ASSUME NEW f \in Sized
  PROVE  Least(f) \in Nat /\ f \in Counters /\ f # "packets"
<1>1. MinLoops \in Nat /\ MinLen \in Nat
  <2>1. \A n \in 0 .. MAX_TOTAL_LOOPS : n \in Nat
    OBVIOUS
  <2>. QED  BY <2>1, SettingsAssumption
<1>. QED
  BY <1>1 DEF Sized, Least, Counters

LEMMA CellType ==
  ASSUME TypeOK, NEW c \in CPUs, NEW f \in Counters
  PROVE  stats[f][c] \in Int /\ seen[f][c] \in Int
BY DEF TypeOK

LEMMA PktInductive ==
  ASSUME TypeOK, [Next]_vars, NEW c \in CPUs, PktAt(c)
  PROVE  PktAt(c)'
<1>1. CASE UNCHANGED <<pc, pkt>>
  BY <1>1 DEF PktAt
<1>2. ASSUME NEW d \in CPUs, NEW len \in PacketLens, Enter(d, len) PROVE PktAt(c)'
  <2>1. CASE c = d
    <3>1. pc'[c] = "entered" /\ pkt'[c].bytes = len
      BY <1>2, <2>1 DEF Enter, TypeOK, NoPacket
    <3>. QED  BY <3>1, SettingsAssumption DEF PktAt, Counters
  <2>2. CASE c # d
    BY <1>2, <2>2 DEF Enter, TypeOK, PktAt
  <2>. QED  BY <2>1, <2>2
<1>3. ASSUME NEW d \in CPUs, NEW time \in Times, StressLoop(d, time) PROVE PktAt(c)'
  <2>1. Capped(loopCount) >= MinLoops
    BY SettingsAssumption
       DEF TypeOK, Capped, MAX_TOTAL_LOOPS, MAX_OUTER_LOOPS, MAX_INNER_LOOPS
  <2>2. CASE c = d
    <3>1. /\ pc[c] = "entered" /\ pkt'[c].bytes = pkt[c].bytes
          /\ pkt'[c].loops = Capped(loopCount)
      BY <1>3, <2>2 DEF StressLoop, TypeOK
    <3>. QED  BY <2>1, <3>1 DEF PktAt
  <2>3. CASE c # d
    BY <1>3, <2>3 DEF StressLoop, TypeOK, PktAt
  <2>. QED  BY <2>2, <2>3
<1>4. ASSUME NEW d \in CPUs, NEW f \in Counters, Add(d, f) PROVE PktAt(c)'
  <2>1. pkt' = pkt /\ (pc'[c] = pc[c] \/ pc[c] \in Counters)
    BY <1>4 DEF Add, TypeOK
  <2>. QED  BY <2>1 DEF PktAt, Counters
<1>. QED
  BY <1>1, <1>2, <1>3, <1>4
     DEF Next, Configure, Packet, Read, SetLoopCount, SetEnabled, StartRead,
         CopyCPU, vars, program

LEMMA MapsInductive ==
  ASSUME TypeOK, [Next]_vars, NEW c \in CPUs, NEW f \in Sized, PktAt(c),
         MapsAt(c, f)
  PROVE  MapsAt(c, f)'
<1>. DEFINE v == stats[f][c]
            n == stats["packets"][c]
            k == Least(f)
<1>0. /\ f \in Counters /\ f # "packets" /\ k \in Nat /\ v \in Int /\ n \in Int
      /\ k' = k
  BY LeastType, CellType DEF Counters, Least
<1>1. CASE UNCHANGED <<stats, pc>>
  BY <1>0, <1>1 DEF MapsAt, Outstanding
<1>2. ASSUME NEW d \in CPUs, stats' = stats, pc[d] \notin Counters,
             pc' = [pc EXCEPT ![d] = "entered"] \/ pc' = [pc EXCEPT ![d] = "packets"]
      PROVE  MapsAt(c, f)'
  <2>1. Outstanding(c, f) => Outstanding(c, f)'
    BY <1>2 DEF Outstanding, TypeOK, Counters
  <2>. QED  BY <1>0, <1>2, <2>1 DEF MapsAt
<1>3. ASSUME NEW d \in CPUs, NEW g \in Counters, Add(d, g) PROVE MapsAt(c, f)'
  <2>1. CASE c # d
    <3>1. pc'[c] = pc[c] /\ stats'[f][c] = v /\ stats'["packets"][c] = n
      BY <1>0, <1>3, <2>1 DEF Add, TypeOK, Counters
    <3>. QED  BY <1>0, <3>1 DEF MapsAt, Outstanding
  <2>2. CASE c = d /\ g = "packets"
    <3>1. /\ pc[c] = "packets" /\ pc'[c] = "loops"
          /\ stats'[f][c] = v /\ stats'["packets"][c] = n + 1
      BY <1>0, <1>3, <2>2 DEF Add, TypeOK, Counters, Amount, After
    <3>2. Covers(v, k, n)
      BY <3>1 DEF MapsAt, Outstanding
    <3>3. (n + 1) - 1 = n
      BY <1>0
    <3>. QED  BY <1>0, <3>1, <3>2, <3>3 DEF MapsAt, Outstanding
  <2>3. CASE c = d /\ g = f
    <3>1. /\ pc[c] = f /\ Outstanding(c, f)
          /\ stats'[f][c] = v + Amount(c, f) /\ stats'["packets"][c] = n
      BY <1>0, <1>3, <2>3 DEF Add, TypeOK, Counters, Outstanding, Sized
    <3>2. Amount(c, f) \in Int /\ Amount(c, f) >= k
      <4>1. pkt[c].bytes >= MinLen /\ pkt[c].loops >= MinLoops
        BY <1>0, <3>1 DEF PktAt, Counters
      <4>2. \/ f = "loops" /\ Amount(c, f) = pkt[c].loops /\ k = MinLoops
            \/ f = "bytes" /\ Amount(c, f) = pkt[c].bytes /\ k = MinLen
        BY DEF Sized, Amount, Least
      <4>3. Amount(c, f) \in Int
        BY <1>0, AmountType
      <4>. QED  BY <4>1, <4>2, <4>3
    <3>3. Covers(v, k, n - 1)
      BY DEF MapsAt
    <3>4. Covers(v + Amount(c, f), k, (n - 1) + 1)
      <4>. DEFINE a == Amount(c, f)
                  m == n - 1
      <4>1. a \in Int /\ a >= k /\ m \in Int /\ Covers(v, k, m)
        BY <1>0, <3>2, <3>3
      <4>. HIDE DEF v, n, k, a, m
      <4>2. Covers(v + a, k, m + 1)
        BY <1>0, <4>1, CoversMore
      <4>. QED  BY <4>2 DEF a, m
    <3>5. (n - 1) + 1 = n /\ v + Amount(c, f) \in Int /\ n - 1 \in Int /\ n - 1 <= n
      BY <1>0, <3>2
    <3>6. Covers(v + Amount(c, f), k, n - 1)
      <4>. HIDE DEF v, n, k
      <4>. QED  BY <1>0, <3>4, <3>5, CoversFewer
    <3>. QED  BY <1>0, <3>1, <3>4, <3>5, <3>6 DEF MapsAt
  <2>4. CASE c = d /\ g \notin {"packets", f}
    <3>1. /\ pc[c] = g /\ pc'[c] = After[g]
          /\ stats'[f][c] = v /\ stats'["packets"][c] = n
      BY <1>0, <1>3, <2>4 DEF Add, TypeOK, Counters
    <3>2. Outstanding(c, f) => Outstanding(c, f)'
      BY <2>4, <3>1 DEF Outstanding, After, Counters, Sized
    <3>. QED  BY <1>0, <3>1, <3>2 DEF MapsAt
  <2>. QED  BY <2>1, <2>2, <2>3, <2>4 DEF Counters
<1>4. ASSUME NEW d \in CPUs, NEW len \in PacketLens, Enter(d, len) PROVE MapsAt(c, f)'
  BY <1>2, <1>4 DEF Enter, Counters
<1>5. ASSUME NEW d \in CPUs, NEW time \in Times, StressLoop(d, time)
      PROVE  MapsAt(c, f)'
  BY <1>2, <1>5 DEF StressLoop, Counters
<1>. QED
  BY <1>1, <1>3, <1>4, <1>5
     DEF Next, Configure, Packet, Read, SetLoopCount, SetEnabled, StartRead,
         CopyCPU, vars, program

LEMMA SeenInductive ==
  ASSUME TypeOK, TypeOK', [Next]_vars, NEW c \in CPUs, NEW f \in Sized,
         MapsAt(c, f), SeenAt(c, f)
  PROVE  SeenAt(c, f)'
<1>. DEFINE v == stats[f][c]
            n == stats["packets"][c]
            s == seen["packets"][c]
            k == Least(f)
<1>0. /\ f \in Counters /\ f # "packets" /\ k \in Nat /\ v \in Int /\ n \in Int
      /\ s \in Int /\ k' = k
  BY LeastType, CellType DEF Counters, Least
<1>1. CASE UNCHANGED reader /\ stats'["packets"][c] >= n
  <2>1. stats'["packets"][c] \in Int
    BY DEF TypeOK, Counters
  <2>. QED  BY <1>0, <1>1, <2>1 DEF SeenAt, reader, Copied
<1>2. ASSUME NEW d \in CPUs, NEW g \in Counters, Add(d, g) PROVE SeenAt(c, f)'
  <2>1. stats'["packets"][c] = n \/ stats'["packets"][c] = n + 1
    BY <1>0, <1>2 DEF Add, TypeOK, Counters, Amount
  <2>2. stats'["packets"][c] >= n
    BY <1>0, <2>1
  <2>. QED  BY <1>1, <1>2, <2>2 DEF Add
<1>3. CASE StartRead
  <2>1. ~Copied(f, c)' /\ seen'["packets"][c] = 0 /\ stats' = stats
    BY <1>3 DEF StartRead, Copied, Rank, Sized, program, Counters
  <2>2. stats["packets"][c] >= 0
    BY DEF TypeOK, Counters
  <2>. QED  BY <2>1, <2>2 DEF SeenAt
<1>4. ASSUME NEW d \in CPUs, CopyCPU(d) PROVE SeenAt(c, f)'
  <2>0. at \in Counters /\ stats' = stats
    BY <1>4 DEF CopyCPU, TypeOK, program
  <2>1. CASE at = "packets"
    <3>1. ~Copied(f, c)'
      BY <1>4, <2>1 DEF CopyCPU, Copied, Rank, Sized, After
    <3>2. seen'["packets"][c] \in {s, n}
      BY <1>0, <1>4, <2>1 DEF CopyCPU, TypeOK, Counters
    <3>. QED  BY <1>0, <2>0, <3>1, <3>2 DEF SeenAt
  <2>2. CASE at = f /\ c = d
    <3>1. seen'["packets"][c] = s /\ seen'[f][c] = v
      BY <1>0, <1>4, <2>2 DEF CopyCPU, TypeOK, Counters
    <3>2. Covers(v, k, n - 1) /\ s <= n
      BY DEF MapsAt, SeenAt
    <3>3. Covers(v, k, s - 1)
      <4>. HIDE DEF v, k, n, s
      <4>1. s - 1 \in Int /\ n - 1 \in Int /\ s - 1 <= n - 1
        BY <1>0, <3>2
      <4>. QED  BY <1>0, <3>2, <4>1, CoversFewer
    <3>. QED  BY <1>0, <2>0, <3>1, <3>2, <3>3 DEF SeenAt
  <2>3. CASE at # "packets" /\ ~(at = f /\ c = d)
    <3>1. seen'["packets"][c] = s /\ seen'[f][c] = seen[f][c]
      BY <1>0, <1>4, <2>0, <2>3 DEF CopyCPU, TypeOK, Counters
    <3>2. Copied(f, c)' => Copied(f, c)
      BY <1>4, <2>0, <2>3 DEF CopyCPU, Copied, Rank, After, Sized, Counters
    <3>. QED  BY <1>0, <2>0, <3>1, <3>2 DEF SeenAt
  <2>. QED  BY <2>1, <2>2, <2>3
<1>5. CASE UNCHANGED <<stats, reader>>
  BY <1>0, <1>1, <1>5 DEF reader
<1>. QED
  BY <1>2, <1>3, <1>4, <1>5
     DEF Next, Configure, Packet, Read, SetLoopCount, SetEnabled, Enter,
         StressLoop, vars, program

\* A reader of the maps misses at most one counted packet of a CPU in the
\* maps it reads after stats_packets.
THEOREM SnapshotLag == Spec => []SnapshotMissesAtMostOnePacket
<1>1. Init => LagInv
  <2>. SUFFICES ASSUME Init, NEW c \in CPUs, NEW f \in Sized
                PROVE  PktAt(c) /\ MapsAt(c, f) /\ SeenAt(c, f)
    BY DEF LagInv, Sized
  <2>1. /\ stats["packets"][c] = 0 /\ stats[f][c] = 0
        /\ seen["packets"][c] = 0 /\ seen[f][c] = 0 /\ pc[c] = "idle"
    BY InitAt, LeastType DEF Counters
  <2>2. Covers(0, Least(f), 0) /\ Covers(0, Least(f), 0 - 1)
    BY LeastType DEF Covers
  <2>. QED  BY <2>1, <2>2 DEF PktAt, MapsAt, SeenAt, Counters
<1>2. TypeOK /\ TypeOK' /\ LagInv /\ [Next]_vars => LagInv'
  BY PktInductive, MapsInductive, SeenInductive DEF LagInv
<1>3. LagInv => SnapshotMissesAtMostOnePacket
  BY DEF LagInv, SeenAt, Sized, Covers, SnapshotMissesAtMostOnePacket
<1>. QED
  BY <1>1, <1>2, <1>3, TypeCorrect, PTL DEF Spec
--------------------------------------------------------------------------------
(***************************************************************************)
(* TotalsRegular.  While a map is copied, its sum would be at least the    *)
(* one it had at the start of the copy, if the slots still to copy were    *)
(* read at this moment; and what has been copied is nowhere more than what *)
(* the map holds.  Both are sums of slots that only grow.                  *)
(***************************************************************************)

\* What the copy of map f yields if it is finished at once.
IfFinished(f) == [c \in CPUs |-> IF c \in todo THEN stats[f][c] ELSE seen[f][c]]

RegularAt(f) ==
  /\ low[f] \in Int
  /\ \A c \in CPUs : seen[f][c] <= stats[f][c]
  /\ at = f => low[f] <= SumFunction(IfFinished(f))

RegularInv == \A f \in Totalled : RegularAt(f)

\* The steps of a RegularCounter, for the map f.
GrowStep(f) ==
  /\ Total(f)' \in Int /\ Total(f)' > Total(f)
  /\ at' = at /\ low'[f] = low[f] /\ result'[f] = result[f]

StartStep(f) ==
  /\ at # f /\ at' = f /\ low'[f] = Total(f)
  /\ Total(f)' = Total(f) /\ result'[f] = result[f]

FinishStep(f) ==
  /\ at = f /\ at' # f /\ result'[f] \in low[f] .. Total(f)
  /\ Total(f)' = Total(f) /\ low'[f] = low[f]

NoStep(f) ==
  /\ (at' = f <=> at = f)
  /\ Total(f)' = Total(f) /\ low'[f] = low[f] /\ result'[f] = result[f]

RegularStep(f) == GrowStep(f) \/ StartStep(f) \/ FinishStep(f) \/ NoStep(f)

LEMMA CellsOf ==
  ASSUME TypeOK, NEW f \in Counters
  PROVE  /\ stats[f] \in [CPUs -> Int] /\ seen[f] \in [CPUs -> Int]
         /\ IfFinished(f) \in [CPUs -> Int] /\ Total(f) \in Int
<1>1. stats[f] \in [CPUs -> Nat] /\ seen[f] \in [CPUs -> Nat]
  BY DEF TypeOK, Totalled, Counters
<1>2. stats[f] \in [CPUs -> Int] /\ seen[f] \in [CPUs -> Int]
      /\ IfFinished(f) \in [CPUs -> Int]
  BY <1>1 DEF IfFinished
<1>. QED
  BY <1>2, ProcessorsAssumption, SumIsInt DEF Total, SumPerCPU

\* Another map is concerned, or none.
LEMMA RegularSame ==
  ASSUME NEW f \in Totalled, RegularAt(f), stats'[f] = stats[f],
         \A c \in CPUs : seen'[f][c] <= stats[f][c],
         at' = f => at = f /\ todo' = todo /\ seen'[f] = seen[f], low'[f] = low[f]
  PROVE  RegularAt(f)'
<1>1. at' = f => IfFinished(f)' = IfFinished(f)
  BY DEF IfFinished
<1>. QED
  BY <1>1 DEF RegularAt

LEMMA RegularInit == TotalsInit => RegularInv
<1>. SUFFICES ASSUME TotalsInit, NEW f \in Totalled PROVE RegularAt(f)
  BY DEF RegularInv
<1>1. low[f] = 0 /\ at # f /\ \A c \in CPUs : seen[f][c] = 0 /\ stats[f][c] = 0
  BY DEF TotalsInit, Init, Totalled, Counters
<1>. QED
  BY <1>1 DEF RegularAt

\* A step of a CPU or of the configuration.
LEMMA RegularProgram ==
  ASSUME TypeOK, TypeOK', TotalsNext, NEW f \in Totalled, RegularAt(f),
         UNCHANGED reader
  PROVE  RegularAt(f)' /\ RegularStep(f)
<1>1. /\ at' = at /\ todo' = todo /\ seen' = seen
      /\ low'[f] = low[f] /\ result'[f] = result[f]
  BY DEF reader, TotalsNext
<1>2. CASE stats'[f] = stats[f]
  <2>1. Total(f)' = Total(f) /\ \A c \in CPUs : seen'[f][c] <= stats[f][c]
    BY <1>1, <1>2 DEF Total, SumPerCPU, RegularAt
  <2>2. NoStep(f)
    BY <1>1, <2>1 DEF NoStep
  <2>. QED
    BY <1>1, <1>2, <2>1, <2>2, RegularSame DEF RegularStep
<1>3. ASSUME NEW c \in CPUs, Add(c, f), stats'[f] # stats[f]
      PROVE  RegularAt(f)' /\ RegularStep(f)
  <2>1. stats[f] \in [CPUs -> Nat] /\ Amount(c, f) \in Nat
    BY AmountType DEF TypeOK, Totalled, Counters
  <2>2. stats'[f] = [stats[f] EXCEPT ![c] = @ + Amount(c, f)]
    BY <1>3 DEF Add, TypeOK
  <2>3. /\ stats'[f] \in [CPUs -> Int] /\ stats[f] \in [CPUs -> Int]
        /\ \A d \in CPUs \ {c} : stats'[f][d] = stats[f][d]
        /\ stats'[f][c] = stats[f][c] + Amount(c, f)
    BY <2>1, <2>2
  <2>4. Amount(c, f) > 0
    <3>1. Amount(c, f) # 0
      BY <1>3, <2>1, <2>2
    <3>. QED
      BY <2>1, <3>1
  <2>5. SumFunction(stats'[f]) = SumFunction(stats[f]) + (stats'[f][c] - stats[f][c])
    BY <2>3, ProcessorsAssumption, SumChangesAt
  <2>6. Total(f)' \in Int /\ Total(f)' > Total(f)
    <3>1. Total(f) \in Int /\ stats[f][c] \in Int
      BY <2>3, CellsOf DEF Totalled, Counters
    <3>2. Total(f)' = Total(f) + Amount(c, f)
      BY <2>1, <2>3, <2>5, <3>1 DEF Total, SumPerCPU
    <3>. QED
      BY <2>1, <2>4, <3>1, <3>2
  <2>7. GrowStep(f)
    BY <1>1, <2>6 DEF GrowStep
  <2>8. \A d \in CPUs : stats[f][d] <= stats'[f][d]
    BY <2>1, <2>2
  <2>9. \A d \in CPUs : seen'[f][d] <= stats'[f][d]
    <3>1. \A d \in CPUs : seen[f][d] <= stats[f][d] /\ seen[f][d] \in Int
                          /\ stats[f][d] \in Int /\ stats'[f][d] \in Int
      BY <2>3, CellsOf DEF RegularAt, Totalled, Counters
    <3>. QED
      BY <1>1, <2>8, <3>1
  <2>10. at' = f => low'[f] <= SumFunction(IfFinished(f)')
    <3>1. /\ IfFinished(f) \in [CPUs -> Int] /\ IfFinished(f)' \in [CPUs -> Int]
          /\ \A d \in CPUs : IfFinished(f)[d] <= IfFinished(f)'[d]
      <4>1. seen[f] \in [CPUs -> Int]
        BY CellsOf DEF Totalled, Counters
      <4>. QED
        BY <1>1, <2>3, <2>8, <4>1 DEF IfFinished
    <3>2. SumFunction(IfFinished(f)) <= SumFunction(IfFinished(f)')
      BY <3>1, ProcessorsAssumption, SumIsMonotone
    <3>3. SumFunction(IfFinished(f)) \in Int /\ SumFunction(IfFinished(f)') \in Int
      BY <3>1, ProcessorsAssumption, SumIsInt
    <3>. QED
      BY <1>1, <3>2, <3>3 DEF RegularAt
  <2>11. low'[f] \in Int
    BY <1>1 DEF RegularAt
  <2>. QED
    BY <2>7, <2>9, <2>10, <2>11 DEF RegularAt, RegularStep
<1>4. \/ stats'[f] = stats[f]
      \/ \E c \in CPUs : Add(c, f)
  <2>1. CASE \E c \in CPUs, g \in Counters : Add(c, g)
    BY <2>1 DEF Add, TypeOK, Totalled, Counters
  <2>2. CASE ~\E c \in CPUs, g \in Counters : Add(c, g)
    <3>1. stats' = stats
      BY <2>2 DEF TotalsNext, Next, Configure, Packet, Read, SetLoopCount, SetEnabled, Enter,
         StressLoop, StartRead, CopyCPU, program
    <3>. QED
      BY <3>1
  <2>. QED
    BY <2>1, <2>2
<1>. QED
  BY <1>2, <1>3, <1>4

\* The reader begins the copy of a map, and of the next one.
LEMMA RegularStart ==
  ASSUME TypeOK, TypeOK', TotalsNext, NEW f \in Totalled, RegularAt(f),
         stats' = stats, \A c \in CPUs : seen'[f][c] <= stats[f][c],
         at # f, at' = f, todo' = CPUs
  PROVE  RegularAt(f)' /\ RegularStep(f)
<1>1. Total(f)' = Total(f) /\ low'[f] = Total(f) /\ result'[f] = result[f]
  BY DEF TotalsNext, Total, SumPerCPU
<1>2. IfFinished(f)' = stats[f]
  BY CellsOf DEF IfFinished, Totalled, Counters
<1>3. Total(f) \in Int /\ Total(f) = SumFunction(stats[f])
  BY CellsOf DEF Total, SumPerCPU, Totalled, Counters
<1>4. RegularAt(f)'
  BY <1>1, <1>2, <1>3 DEF RegularAt
<1>. QED
  BY <1>1, <1>4 DEF RegularStep, StartStep

LEMMA RegularCopy ==
  ASSUME TypeOK, TypeOK', TotalsNext, NEW f \in Totalled, RegularAt(f),
         NEW c \in CPUs, CopyCPU(c)
  PROVE  RegularAt(f)' /\ RegularStep(f)
<1>1. /\ stats' = stats /\ c \in todo /\ at \in Counters
      /\ seen' = [seen EXCEPT ![at][c] = stats[at][c]]
      /\ todo = {c} => at' = After[at] /\ todo' = (IF at = "time_ns" THEN {} ELSE CPUs)
      /\ todo # {c} => at' = at /\ todo' = todo \ {c}
  BY DEF CopyCPU, TypeOK, program
<1>2. After[at] # at /\ (After[at] = f => at # "time_ns")
  BY <1>1 DEF Totalled, After, Counters
<1>3. Total(f)' = Total(f)
  BY <1>1 DEF Total, SumPerCPU
<1>4. CASE at # f
  <2>1. seen'[f] = seen[f] /\ \A d \in CPUs : seen'[f][d] <= stats[f][d]
    BY <1>1, <1>4 DEF TypeOK, RegularAt
  <2>2. CASE at' = f
    BY <1>1, <1>2, <1>4, <2>1, <2>2, RegularStart
  <2>3. CASE at' # f
    <3>1. low'[f] = low[f] /\ result'[f] = result[f]
      BY <1>4, <2>3 DEF TotalsNext
    <3>. QED
      BY <1>1, <1>3, <1>4, <2>1, <2>3, <3>1, RegularSame DEF RegularStep, NoStep
  <2>. QED
    BY <2>2, <2>3
<1>5. CASE at = f
  <2>1. /\ seen[f] \in [CPUs -> Int] /\ stats[f] \in [CPUs -> Int]
        /\ IfFinished(f) \in [CPUs -> Int] /\ Total(f) \in Int
    BY CellsOf DEF Totalled, Counters
  <2>2. seen'[f] = [seen[f] EXCEPT ![c] = stats[f][c]]
    BY <1>1, <1>5 DEF TypeOK, Totalled, Counters
  <2>3. low'[f] = low[f] /\ low[f] \in Int /\ low[f] <= SumFunction(IfFinished(f))
    BY <1>5 DEF TotalsNext, RegularAt
  <2>4. \A d \in CPUs : seen'[f][d] <= stats'[f][d]
    BY <1>1, <2>1, <2>2 DEF RegularAt
  <2>5. CASE todo = {c}
    <3>1. at' # f
      BY <1>1, <1>2, <1>5, <2>5
    <3>2. IfFinished(f) = seen'[f]
      BY <2>1, <2>2, <2>5 DEF IfFinished
    <3>3. result'[f] = SumFunction(IfFinished(f))
      BY <1>5, <3>1, <3>2 DEF TotalsNext, SumPerCPU
    <3>4. SumFunction(IfFinished(f)) <= Total(f)
      <4>1. \A d \in CPUs : IfFinished(f)[d] <= stats[f][d]
        BY <1>1, <2>4, <3>2
      <4>. QED
        BY <2>1, <4>1, ProcessorsAssumption, SumIsMonotone DEF Total, SumPerCPU
    <3>5. SumFunction(IfFinished(f)) \in Int
      BY <2>1, ProcessorsAssumption, SumIsInt
    <3>6. result'[f] \in low[f] .. Total(f)
      BY <2>1, <2>3, <3>3, <3>4, <3>5
    <3>7. FinishStep(f)
      BY <1>3, <1>5, <2>3, <3>1, <3>6 DEF FinishStep
    <3>. QED
      BY <2>3, <2>4, <3>1, <3>7 DEF RegularAt, RegularStep
  <2>6. CASE todo # {c}
    <3>1. at' = f /\ todo' = todo \ {c} /\ result'[f] = result[f]
      BY <1>1, <1>5, <2>6 DEF TotalsNext
    <3>2. IfFinished(f)' = IfFinished(f)
      BY <1>1, <2>1, <2>2, <3>1 DEF IfFinished
    <3>. QED
      BY <1>3, <1>5, <2>3, <2>4, <3>1, <3>2 DEF RegularAt, RegularStep, NoStep
  <2>. QED
    BY <2>5, <2>6
<1>. QED
  BY <1>4, <1>5

LEMMA RegularInductive ==
  TypeOK /\ RegularInv /\ [TotalsNext]_totalVars
    => RegularInv' /\ \A f \in Totalled : RegularStep(f)
<1>. SUFFICES ASSUME TypeOK, RegularInv, [TotalsNext]_totalVars, NEW f \in Totalled
              PROVE  RegularAt(f)' /\ RegularStep(f)
  BY DEF RegularInv
<1>1. RegularAt(f)
  BY DEF RegularInv
<1>2. TypeOK'
  BY NextTypeOK DEF TotalsNext, totalVars
<1>3. CASE UNCHANGED totalVars
  <2>1. /\ stats' = stats /\ seen' = seen /\ at' = at /\ todo' = todo
        /\ low' = low /\ result' = result
        /\ \A c \in CPUs : seen'[f][c] <= stats[f][c]
    BY <1>1, <1>3 DEF totalVars, vars, program, reader, RegularAt
  <2>. QED
    BY <1>1, <2>1, RegularSame DEF RegularStep, NoStep, Total, SumPerCPU
<1>4. CASE TotalsNext /\ UNCHANGED reader
  BY <1>1, <1>2, <1>4, RegularProgram
<1>5. CASE TotalsNext /\ StartRead
  <2>1. /\ stats' = stats /\ at' = "packets" /\ todo' = CPUs /\ at = "idle"
        /\ at # f /\ \A c \in CPUs : seen'[f][c] = 0
    BY <1>5 DEF Totalled, StartRead, program, Counters
  <2>4. \A c \in CPUs : seen'[f][c] <= stats[f][c]
    BY <2>1 DEF TypeOK, Totalled, Counters
  <2>2. CASE f = "packets"
    BY <1>1, <1>2, <1>5, <2>1, <2>2, <2>4, RegularStart
  <2>3. CASE f # "packets"
    <3>1. low'[f] = low[f] /\ result'[f] = result[f]
      BY <1>5, <2>1, <2>3 DEF TotalsNext
    <3>. QED
      BY <1>1, <2>1, <2>3, <2>4, <3>1, RegularSame DEF RegularStep, NoStep, Total, SumPerCPU
  <2>. QED
    BY <2>2, <2>3
<1>6. ASSUME TotalsNext, NEW c \in CPUs, CopyCPU(c)
      PROVE  RegularAt(f)' /\ RegularStep(f)
  BY <1>1, <1>2, <1>6, RegularCopy
<1>7. TotalsNext => UNCHANGED reader \/ StartRead \/ \E c \in CPUs : CopyCPU(c)
  BY DEF TotalsNext, Next, Configure, Packet, Read, SetLoopCount, SetEnabled, Enter,
     StressLoop, Add
<1>. QED
  BY <1>3, <1>4, <1>5, <1>6, <1>7

\* The maps of packets and of loops, each summed slot by slot while the programs
\* add to it, are counters that only grow and whose reads return a value the
\* counter had meanwhile, or one between: for any number of processors.
THEOREM TotalsRegularly == TotalsSpec => TotalsRegular
<1>1. TotalsInit => TypeOK /\ RegularInv
  BY InitTypeOK, RegularInit DEF TotalsInit
<1>2. TypeOK /\ RegularInv /\ [TotalsNext]_totalVars => TypeOK' /\ RegularInv'
  BY NextTypeOK, RegularInductive DEF TotalsNext, totalVars
<1>3. TotalsInit => Packets!Init /\ Loops!Init
  <2>. SUFFICES ASSUME TotalsInit PROVE Packets!Init /\ Loops!Init
    OBVIOUS
  <2>1. \A f \in Totalled : SumFunction(stats[f]) = 0
    BY ProcessorsAssumption, SumIsZero DEF TotalsInit, Init, Totalled, Counters
  <2>2. \A f \in Totalled : low[f] = 0 /\ result[f] = 0 /\ at # f
    BY DEF TotalsInit, Init, Totalled, Counters
  <2>. QED
    BY <2>1, <2>2 DEF Packets!Init, Loops!Init, Totalled, Counters
<1>4. RegularStep("packets") => [Packets!Next]_Packets!vars
  BY DEF RegularStep, GrowStep, StartStep, FinishStep, NoStep, Total, SumPerCPU,
     Packets!Next, Packets!Increase, Packets!Start, Packets!Finish, Packets!vars
<1>5. RegularStep("loops") => [Loops!Next]_Loops!vars
  BY DEF RegularStep, GrowStep, StartStep, FinishStep, NoStep, Total, SumPerCPU,
     Loops!Next, Loops!Increase, Loops!Start, Loops!Finish, Loops!vars
<1>6. TypeOK /\ RegularInv /\ [TotalsNext]_totalVars
        => [Packets!Next]_Packets!vars /\ [Loops!Next]_Loops!vars
  BY <1>4, <1>5, RegularInductive DEF Totalled
<1>. QED
  BY <1>1, <1>2, <1>3, <1>6, PTL DEF TotalsSpec, TotalsRegular, Packets!Spec, Loops!Spec
================================================================================
