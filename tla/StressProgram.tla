------------------------------ MODULE StressProgram ------------------------------
(***************************************************************************)
(* The eBPF program of ebpf-stress (bpf/stress.c) running on every CPU     *)
(* while user space writes its two configuration maps and reads its four   *)
(* statistics maps (Loader.GetStats, and Collector.collect of the          *)
(* exporter, which read the same maps in the same order).                  *)
(*                                                                         *)
(* What is shared is the content of the six maps.  A packet is not counted *)
(* atomically: the program reads config_enabled, then config_loop_count,   *)
(* and then adds to four per-CPU counters one after another; a reader      *)
(* copies one map after the other and, within a map, one CPU after         *)
(* another.  One action is one of these steps.                             *)
(*                                                                         *)
(* The three entry points (XDP, TC, socket) differ in where the packet     *)
(* length comes from and in the verdict they return, neither of which the  *)
(* maps tell apart, so they are one program here.                          *)
(***************************************************************************)
EXTENDS Integers

CONSTANTS
  CPUs,          \* the processors that run the program
  LoopSettings,  \* what user space writes into config_loop_count
  MinLoops,      \* a lower bound of LoopSettings
  PacketLens,    \* the lengths of the packets that arrive
  MinLen,        \* a lower bound of PacketLens
  Times,         \* what two readings of bpf_ktime_get_ns may differ by
  MaxPackets     \* BOUND: packets that enter the program on one CPU

MAX_OUTER_LOOPS == 50
MAX_INNER_LOOPS == 50
MAX_TOTAL_LOOPS == MAX_OUTER_LOOPS * MAX_INNER_LOOPS

ASSUME SettingsAssumption ==
  /\ CPUs # {}
  /\ MaxPackets \in Nat
  /\ MinLoops \in 0 .. MAX_TOTAL_LOOPS
  /\ LoopSettings \subseteq Nat /\ \A n \in LoopSettings : MinLoops <= n
  /\ MinLen \in Nat
  /\ PacketLens \subseteq Nat /\ \A n \in PacketLens : MinLen <= n
  /\ Times \subseteq Nat

(***************************************************************************)
(* The statistics maps in the order in which update_stats adds to them and *)
(* GetStats and collect read them.                                         *)
(***************************************************************************)
Counters == {"packets", "loops", "bytes", "time_ns"}

After == [packets |-> "loops", loops |-> "bytes", bytes |-> "time_ns",
          time_ns |-> "idle"]

VARIABLES
  enabled,    \* config_enabled[0]
  loopCount,  \* config_loop_count[0]
  stats,      \* the four per-CPU maps: stats[counter][cpu]
  pc,         \* where each CPU is in the program
  pkt,        \* the locals of the running program: loop_count, pkt_len, time
  at, todo,   \* the map the reader is copying and the CPUs still to copy
  seen,       \* the values the reader has copied
  performed,  \* HISTORY: loop iterations really executed on each CPU
  packetsAtDisable  \* HISTORY: stats_packets when config_enabled last became 0

config == <<enabled, loopCount>>
program == <<stats, pc, pkt, performed>>
reader == <<at, todo, seen>>
vars == <<config, program, reader, packetsAtDisable>>

--------------------------------------------------------------------------------
(* The helpers of the program.                                             *)

\* get_loop_count: the lookup of key 0 in an array map does not fail, so
\* DEFAULT_LOOP_COUNT is never used.
Capped(n) == IF n > MAX_TOTAL_LOOPS THEN MAX_TOTAL_LOOPS ELSE n

\* MUTANT of OuterLimit: the quotient rounded up.
OuterLimitRoundedUp(target) ==
  IF target >= MAX_TOTAL_LOOPS THEN MAX_OUTER_LOOPS
  ELSE (target + MAX_INNER_LOOPS - 1) \div MAX_INNER_LOOPS

\* perform_stress_loop: outer_limit rounds of inner_limit iterations.
OuterLimit(target) ==
  IF target >= MAX_TOTAL_LOOPS THEN MAX_OUTER_LOOPS
  ELSE IF target >= MAX_INNER_LOOPS THEN target \div MAX_INNER_LOOPS
  ELSE 1

InnerLimit(target) ==
  IF target >= MAX_INNER_LOOPS THEN MAX_INNER_LOOPS ELSE target

Iterations(target) == OuterLimit(target) * InnerLimit(target)

\* What update_stats adds to a counter for the packet in flight on a CPU.
Amount(c, f) == CASE f = "packets" -> 1
                  [] f = "loops"   -> pkt[c].loops
                  [] f = "bytes"   -> pkt[c].bytes
                  [] f = "time_ns" -> pkt[c].time_ns

--------------------------------------------------------------------------------
NoPacket == [loops |-> 0, bytes |-> 0, time_ns |-> 0]

\* LoadAndAttach writes both configuration maps before it attaches the
\* program, and new maps hold zeros.
Init ==
  /\ enabled = 1
  /\ loopCount \in LoopSettings
  /\ stats = [f \in Counters |-> [c \in CPUs |-> 0]]
  /\ pc = [c \in CPUs |-> "idle"]
  /\ pkt = [c \in CPUs |-> NoPacket]
  /\ at = "idle" /\ todo = {}
  /\ seen = [f \in Counters |-> [c \in CPUs |-> 0]]
  /\ performed = [c \in CPUs |-> 0]
  /\ packetsAtDisable = [c \in CPUs |-> 0]

--------------------------------------------------------------------------------
(* User space writes the configuration.                                    *)

SetLoopCount(n) ==
  /\ loopCount' = n
  /\ UNCHANGED <<enabled, program, reader, packetsAtDisable>>

SetEnabled(on) ==
  /\ enabled' = on
  /\ packetsAtDisable' = IF enabled # 0 /\ on = 0 THEN stats["packets"]
                                                  ELSE packetsAtDisable
  /\ UNCHANGED <<loopCount, program, reader>>

--------------------------------------------------------------------------------
(* A packet on CPU c.  The program runs with migration and softirqs        *)
(* disabled, so one packet is in flight on a CPU.                          *)

\* MUTANT of Enter: is_enabled not asked.
EnterUnasked(c, len) ==
  /\ pc[c] = "idle"
  /\ stats["packets"][c] < MaxPackets
  /\ pc' = [pc EXCEPT ![c] = "entered"]
  /\ pkt' = [pkt EXCEPT ![c] = [NoPacket EXCEPT !.bytes = len]]
  /\ UNCHANGED <<config, stats, reader, performed, packetsAtDisable>>

\* is_enabled lets the packet in; a packet that meets a zero is passed on
\* and changes nothing.
Enter(c, len) ==
  /\ pc[c] = "idle"
  /\ stats["packets"][c] < MaxPackets
  /\ enabled # 0
  /\ pc' = [pc EXCEPT ![c] = "entered"]
  /\ pkt' = [pkt EXCEPT ![c] = [NoPacket EXCEPT !.bytes = len]]
  /\ UNCHANGED <<config, stats, reader, performed, packetsAtDisable>>

\* get_loop_count, then perform_stress_loop between two clock readings.
StressLoop(c, time) ==
  LET n == Capped(loopCount) IN
  /\ pc[c] = "entered"
  /\ pc' = [pc EXCEPT ![c] = "packets"]
  /\ pkt' = [pkt EXCEPT ![c].loops = n, ![c].time_ns = time]
  /\ performed' = [performed EXCEPT ![c] = @ + Iterations(n)]
  /\ UNCHANGED <<config, stats, reader, packetsAtDisable>>

\* update_stats: one atomic add, on this CPU's slot of one map.
Add(c, f) ==
  /\ pc[c] = f
  /\ stats' = [stats EXCEPT ![f][c] = @ + Amount(c, f)]
  /\ pc' = [pc EXCEPT ![c] = After[f]]
  /\ UNCHANGED <<config, pkt, reader, performed, packetsAtDisable>>

--------------------------------------------------------------------------------
(* GetStats / collect: four calls of sumPerCPUMap.                         *)

\* The locals of the reader start at zero.
StartRead ==
  /\ at = "idle"
  /\ at' = "packets"
  /\ todo' = CPUs
  /\ seen' = [f \in Counters |-> [c \in CPUs |-> 0]]
  /\ UNCHANGED <<config, program, packetsAtDisable>>

\* MUTANT of CopyCPU: the packet count refreshed after the other maps.
CopyCPURefreshing(c) ==
  /\ at # "idle" /\ c \in todo
  /\ seen' = [seen EXCEPT ![at][c] = stats[at][c],
                          !["packets"][c] = stats["packets"][c]]
  /\ IF todo = {c}
     THEN /\ at' = After[at]
          /\ todo' = IF at = "time_ns" THEN {} ELSE CPUs
     ELSE /\ todo' = todo \ {c}
          /\ UNCHANGED at
  /\ UNCHANGED <<config, program, packetsAtDisable>>

\* The lookup copies the slot of one CPU; after the last one the reader goes
\* on to the next map.
CopyCPU(c) ==
  /\ at # "idle" /\ c \in todo
  /\ seen' = [seen EXCEPT ![at][c] = stats[at][c]]
  /\ IF todo = {c}
     THEN /\ at' = After[at]
          /\ todo' = IF at = "time_ns" THEN {} ELSE CPUs
     ELSE /\ todo' = todo \ {c}
          /\ UNCHANGED at
  /\ UNCHANGED <<config, program, packetsAtDisable>>

--------------------------------------------------------------------------------
Configure ==
  \/ \E n \in LoopSettings : SetLoopCount(n)
  \/ \E on \in {0, 1} : SetEnabled(on)

Packet(c) ==
  \/ \E len \in PacketLens : Enter(c, len)
  \/ \E time \in Times : StressLoop(c, time)
  \/ \E f \in Counters : Add(c, f)

Read == StartRead \/ \E c \in CPUs : CopyCPU(c)

Next == Configure \/ (\E c \in CPUs : Packet(c)) \/ Read

Spec == Init /\ [][Next]_vars

--------------------------------------------------------------------------------
(* Properties.                                                             *)

\* The values the maps and the locals range over.
TypeOK ==
  /\ enabled \in {0, 1}
  /\ loopCount \in LoopSettings
  /\ stats \in [Counters -> [CPUs -> Nat]]
  /\ pc \in [CPUs -> {"idle", "entered"} \cup Counters]
  /\ pkt \in [CPUs -> [loops : 0 .. MAX_TOTAL_LOOPS, bytes : Nat, time_ns : Nat]]
  /\ at \in {"idle"} \cup Counters
  /\ todo \subseteq CPUs
  /\ seen \in [Counters -> [CPUs -> Nat]]
  /\ performed \in [CPUs -> Nat]
  /\ packetsAtDisable \in [CPUs -> Nat]

\* The reader has copied c's slot of map f in its latest round, and of every
\* map it reads earlier.
Rank == [packets |-> 1, loops |-> 2, bytes |-> 3, time_ns |-> 4, idle |-> 5]
Copied(f, c) == Rank[at] > Rank[f] \/ (at = f /\ c \notin todo)

\* The least a packet adds to a counter.
Least(f) == CASE f = "packets" -> 1
              [] f = "loops" -> MinLoops
              [] f = "bytes" -> MinLen
              [] f = "time_ns" -> 0

\* A reader that counted P packets of a CPU has the loops and the bytes of all
\* of them but one: packets are read first and added first, so only the packet
\* that was in flight on that CPU can be missing (GetStats, collect against
\* update_stats).
SnapshotMissesAtMostOnePacket ==
  \A c \in CPUs, f \in {"loops", "bytes"} :
    Copied(f, c) => seen[f][c] >= Least(f) * (seen["packets"][c] - 1)

\* The loops recorded never exceed the cap times the packets recorded, at any
\* moment between the four adds of update_stats.
LoopsWithinCap ==
  \A c \in CPUs : stats["loops"][c] <= MAX_TOTAL_LOOPS * stats["packets"][c]

\* Once config_enabled is 0 a CPU counts the packet it had already let in and
\* no other (is_enabled is read once per packet, at entry).
DisableDrains ==
  enabled = 0 =>
    \A c \in CPUs : stats["packets"][c] <= packetsAtDisable[c] + 1

\* stats_loops runs ahead of the iterations performed by less than one inner
\* round per packet, and never behind: update_stats adds the configured number
\* and perform_stress_loop executes whole rounds of 50.
RecordedNearPerformed ==
  \A c \in CPUs : pc[c] = "idle" =>
    /\ performed[c] <= stats["loops"][c]
    /\ stats["loops"][c] - performed[c]
         <= (MAX_INNER_LOOPS - 1) * stats["packets"][c]
================================================================================
