------------------------------ MODULE LatencyProgram ------------------------------
(***************************************************************************)
(* The eBPF programs of bpf/latency.c on every CPU, and a reader of their  *)
(* global statistics (Collector.Collect of pkg/latency).                   *)
(*                                                                         *)
(* A packet passes up to three hooks, XDP, TC ingress and TC egress, on    *)
(* any CPU.  XDP leaves a timestamp under the packet's hash; the TC hooks  *)
(* look it up and account for the difference to their own time, which they *)
(* took before the lookup.  Each hook takes the hash of the headers there  *)
(* are by then: forwarding, NAT and VLAN tags change it on the way.  The   *)
(* timestamps are shared by all CPUs and by all packets of the same hash;  *)
(* every other map has a slot for each CPU.                                *)
(* A hook program is not interrupted by another one on its CPU.            *)
(***************************************************************************)
EXTENDS Integers, FiniteSets, FiniteSetsExt, Functions

CONSTANTS
  CPUs,          \* the processors
  Packets,       \* the packets
  Hashes,        \* what calculate_packet_hash may return, other than 0
  Ifaces,        \* the interface indexes
  None,          \* no packet
  MaxTracked,    \* MAX_TRACKED_PACKETS
  BucketCount,   \* LATENCY_BUCKET_COUNT
  MaxUInt64,     \* ~0ULL
  TickNs,        \* BOUND: the clock advances by so many nanoseconds
  MaxClock       \* BOUND: and no further than this

ASSUME LatencyAssumption ==
  /\ IsFiniteSet(CPUs) /\ IsFiniteSet(Ifaces)
  /\ 0 \notin Hashes
  /\ None \notin Packets
  /\ BucketCount \in Nat \ {0} /\ MaxTracked \in Nat \ {0}
  /\ TickNs \in Nat \ {0} /\ MaxClock \in Nat /\ TickNs <= MaxClock
  /\ MaxUInt64 \in Nat /\ MaxClock < MaxUInt64

XDP == 0
TCIngress == 1
TCEgress == 2
Hooks == {XDP, TCIngress, TCEgress}
Buckets == 0 .. BucketCount - 1

\* The reader sums global_packets first, then bucket 0, bucket 1, and so on.
Idle == -2
PacketsKey == -1
Keys == {PacketsKey} \cup Buckets

VARIABLES
  clock,    \* bpf_ktime_get_ns
  hash,     \* what calculate_packet_hash returns for each packet at each hook
  passed,   \* the first hook each packet may still meet
  stamps,   \* packet_timestamps: 0 where there is no entry
  pc,       \* where each CPU is in its program
  run,      \* the locals of that program
  histogram, globalPackets, globalLatency,  \* the per-CPU arrays
  known,    \* the keys of interface_latency_stats
  iface,    \* and its slots
  at, todo, \* the reader: what it is copying and the CPUs still to copy
  packetsRead, bucketsRead,  \* the sums it has so far
  owner,    \* HISTORY: whose timestamp it is
  arrival,  \* HISTORY: when each packet met XDP
  forgotten, \* HISTORY: the hashes an entry of which the LRU map gave up or refused
  measures, \* HISTORY: how often the egress hook of a CPU used a timestamp
  accounted \* HISTORY: the latencies accounted for in each slot

packets == <<hash, passed, arrival>>
tracking == <<stamps, owner, forgotten>>
global == <<histogram, globalPackets, globalLatency>>
interfaces == <<known, iface, accounted>>
reader == <<at, todo, packetsRead, bucketsRead>>
vars == <<clock, packets, tracking, pc, run, global, interfaces, measures, reader>>

\* Arithmetic of a __u64.
Minus(a, b) == (a - b) % (MaxUInt64 + 1)

Plus(a, b) == (a + b) % (MaxUInt64 + 1)

\* MUTANT of Bucket: the last bucket, which has no upper bound, forgotten.
BucketUncapped(latency_ns) ==
  Cardinality({b \in 0 .. BucketCount - 1 : latency_ns \div 1000 >= 2 ^ b})

\* get_latency_bucket: below 1us, below 2us, below 4us, and so on.
Bucket(latency_ns) ==
  Cardinality({b \in 0 .. BucketCount - 2 : latency_ns \div 1000 >= 2 ^ b})

NoRun == [pkt |-> None, hook |-> XDP, ifindex |-> 0, now |-> 0, latency |-> 0, from |-> None]

ZeroSlot == [packets |-> 0, sum |-> 0, min |-> 0, max |-> 0]

Init ==
  /\ clock = TickNs
  /\ hash \in [Packets -> [Hooks -> Hashes \cup {0}]]
  /\ passed = [p \in Packets |-> XDP] /\ arrival = [p \in Packets |-> 0]
  /\ stamps = [h \in Hashes |-> 0] /\ owner = [h \in Hashes |-> None] /\ forgotten = {}
  /\ pc = [c \in CPUs |-> "idle"]
  /\ run = [c \in CPUs |-> NoRun]
  /\ histogram = [c \in CPUs |-> [b \in Buckets |-> 0]]
  /\ globalPackets = [c \in CPUs |-> 0] /\ globalLatency = [c \in CPUs |-> 0]
  /\ known = {} /\ iface = [i \in Ifaces |-> [c \in CPUs |-> ZeroSlot]]
  /\ accounted = [i \in Ifaces |-> [c \in CPUs |-> {}]]
  /\ measures = [c \in CPUs |-> [p \in Packets |-> 0]]
  /\ at = Idle /\ todo = {} /\ packetsRead = 0 /\ bucketsRead = 0

Tick ==
  /\ clock + TickNs <= MaxClock
  /\ clock' = clock + TickNs
  /\ UNCHANGED <<packets, tracking, pc, run, global, interfaces, measures, reader>>

--------------------------------------------------------------------------------
(* The packets.                                                            *)

\* A packet meets a hook it has not passed, later than it met XDP: the program
\* takes the time and the hash.  A hash of 0 ends it.
Enter(c, p, hook, i) ==
  /\ pc[c] = "idle"
  /\ passed[p] <= hook /\ arrival[p] < clock
  /\ \A d \in CPUs : pc[d] # "idle" => run[d].pkt # p
  /\ passed' = [passed EXCEPT ![p] = hook + 1]
  /\ \/ hash[p][hook] = 0 /\ UNCHANGED <<pc, run, arrival>>
     \/ /\ hash[p][hook] # 0
        /\ pc' = [pc EXCEPT ![c] = IF hook = XDP THEN "stamp" ELSE "lookup"]
        /\ run' = [run EXCEPT ![c] = [pkt |-> p, hook |-> hook, ifindex |-> i,
                                     now |-> clock, latency |-> 0, from |-> None]]
        /\ arrival' = IF hook = XDP THEN [arrival EXCEPT ![p] = clock] ELSE arrival
  /\ UNCHANGED <<clock, hash, tracking, global, interfaces, measures, reader>>

\* The hash the program on c has taken.
Key(c) == hash[run[c].pkt][run[c].hook]

\* XDP stores its time under the hash, whoever's was there.  The LRU map may
\* give up other entries for the new one, and must when it is full.
Store(c) ==
  LET h == Key(c)
      others == {g \in Hashes \ {h} : stamps[g] # 0}
  IN
  \E gone \in SUBSET others :
    /\ Cardinality(others) >= MaxTracked => gone # {}
    /\ stamps' = [g \in Hashes |-> IF g = h THEN run[c].now
                                  ELSE IF g \in gone THEN 0 ELSE stamps[g]]
    /\ owner' = [g \in Hashes |-> IF g = h THEN run[c].pkt
                                 ELSE IF g \in gone THEN None ELSE owner[g]]
    /\ forgotten' = forgotten \cup gone

\* Or it refuses the new one, which the program does not notice.
Refuse(c) == forgotten' = forgotten \cup {Key(c)} /\ UNCHANGED <<stamps, owner>>

Stamp(c) ==
  /\ pc[c] = "stamp"
  /\ Store(c) \/ Refuse(c)
  /\ pc' = [pc EXCEPT ![c] = "account"]
  /\ UNCHANGED <<clock, packets, run, global, interfaces, measures, reader>>

\* A TC hook looks the timestamp up.  The difference is taken in a __u64, and
\* the time of the hook was taken before.
Lookup(c) ==
  LET h == Key(c) IN
  /\ pc[c] = "lookup"
  /\ \/ /\ stamps[h] = 0
        /\ pc' = [pc EXCEPT ![c] = "account"]
        /\ UNCHANGED <<run, measures>>
     \/ /\ stamps[h] # 0
        /\ run' = [run EXCEPT ![c].latency = Minus(run[c].now, stamps[h]), ![c].from = owner[h]]
        /\ pc' = [pc EXCEPT ![c] = "histogram"]
        /\ measures' = IF run[c].hook = TCEgress
                       THEN [measures EXCEPT ![c][owner[h]] = @ + 1] ELSE measures
  /\ UNCHANGED <<clock, packets, tracking, global, interfaces, reader>>

UpdateHistogram(c) ==
  /\ pc[c] = "histogram"
  /\ histogram' = [histogram EXCEPT ![c][Bucket(run[c].latency)] = @ + 1]
  /\ pc' = [pc EXCEPT ![c] = "global"]
  /\ UNCHANGED <<clock, packets, tracking, run, globalPackets, globalLatency, interfaces,
                 measures, reader>>

\* MUTANT of UpdateGlobal: ingress deletes the timestamp as well.
UpdateGlobalDeleting(c) ==
  /\ pc[c] = "global"
  /\ globalPackets' = [globalPackets EXCEPT ![c] = @ + 1]
  /\ globalLatency' = [globalLatency EXCEPT ![c] = Plus(@, run[c].latency)]
  /\ pc' = [pc EXCEPT ![c] = "delete"]
  /\ UNCHANGED <<clock, packets, tracking, run, histogram, interfaces, measures, reader>>

\* update_global_stats; the reader here does not look at the sum.
UpdateGlobal(c) ==
  /\ pc[c] = "global"
  /\ globalPackets' = [globalPackets EXCEPT ![c] = @ + 1]
  /\ globalLatency' = [globalLatency EXCEPT ![c] = Plus(@, run[c].latency)]
  /\ pc' = [pc EXCEPT ![c] = IF run[c].hook = TCEgress THEN "delete" ELSE "account"]
  /\ UNCHANGED <<clock, packets, tracking, run, histogram, interfaces, measures, reader>>

\* MUTANT of Delete: bpf_map_delete_elem forgotten.
DeleteForgotten(c) ==
  /\ pc[c] = "delete"
  /\ pc' = [pc EXCEPT ![c] = "account"]
  /\ UNCHANGED <<clock, packets, tracking, run, global, interfaces, measures, reader>>

\* The egress hook deletes the entry there is now.
Delete(c) ==
  LET h == Key(c) IN
  /\ pc[c] = "delete"
  /\ stamps' = [stamps EXCEPT ![h] = 0]
  /\ owner' = [owner EXCEPT ![h] = None]
  /\ pc' = [pc EXCEPT ![c] = "account"]
  /\ UNCHANGED <<clock, packets, forgotten, run, global, interfaces, measures, reader>>

\* What update_interface_stats finds in the slot of its CPU: the first packet of
\* an interface fills the slot of its own CPU, and those of the others with 0.
Found(c) ==
  LET i == run[c].ifindex  latency == run[c].latency IN
  IF i \in known THEN iface[i][c]
  ELSE [ZeroSlot EXCEPT !.min = IF latency > 0 THEN latency ELSE MaxUInt64,
                        !.max = latency]

\* MUTANT of Updated: a minimum of 0 taken for a latency.
UpdatedFromZero(slot, latency) ==
  [packets |-> slot.packets + 1,
   sum |-> Plus(slot.sum, latency),
   min |-> IF latency > 0 /\ latency < slot.min THEN latency ELSE slot.min,
   max |-> IF latency > slot.max THEN latency ELSE slot.max]

\* The adds to that slot, and its extremes.
Updated(slot, latency) ==
  [packets |-> slot.packets + 1,
   sum |-> Plus(slot.sum, latency),
   min |-> IF latency > 0 /\ (latency < slot.min \/ slot.min = 0) THEN latency ELSE slot.min,
   max |-> IF latency > slot.max THEN latency ELSE slot.max]

\* update_interface_stats, on the slots of its own CPU.
Account(c) ==
  LET i == run[c].ifindex  latency == run[c].latency IN
  /\ pc[c] = "account"
  /\ known' = known \cup {i}
  /\ iface' = [iface EXCEPT ![i][c] = Updated(Found(c), latency)]
  /\ accounted' = [accounted EXCEPT ![i][c] = @ \cup ({latency} \ {0})]
  /\ pc' = [pc EXCEPT ![c] = "idle"]
  /\ run' = [run EXCEPT ![c] = NoRun]
  /\ UNCHANGED <<clock, packets, tracking, global, measures, reader>>

--------------------------------------------------------------------------------
(* The reader.                                                             *)

StartCollect ==
  /\ at = Idle
  /\ at' = PacketsKey /\ todo' = CPUs /\ packetsRead' = 0 /\ bucketsRead' = 0
  /\ UNCHANGED <<clock, packets, tracking, pc, run, global, interfaces, measures>>

\* MUTANT of CopySlot: the last bucket not read.
CopySlotButLast(c) ==
  /\ at # Idle /\ c \in todo
  /\ IF at = PacketsKey
     THEN packetsRead' = packetsRead + globalPackets[c] /\ UNCHANGED bucketsRead
     ELSE bucketsRead' = bucketsRead + histogram[c][at] /\ UNCHANGED packetsRead
  /\ IF todo # {c}
     THEN todo' = todo \ {c} /\ UNCHANGED at
     ELSE IF at = BucketCount - 2
     THEN at' = Idle /\ todo' = {}
     ELSE at' = at + 1 /\ todo' = CPUs
  /\ UNCHANGED <<clock, packets, tracking, pc, run, global, interfaces, measures>>

\* sumPerCPUArray of one key: the lookup copies one CPU after another.
CopySlot(c) ==
  /\ at # Idle /\ c \in todo
  /\ IF at = PacketsKey
     THEN packetsRead' = packetsRead + globalPackets[c] /\ UNCHANGED bucketsRead
     ELSE bucketsRead' = bucketsRead + histogram[c][at] /\ UNCHANGED packetsRead
  /\ IF todo # {c}
     THEN todo' = todo \ {c} /\ UNCHANGED at
     ELSE IF at = BucketCount - 1
     THEN at' = Idle /\ todo' = {}
     ELSE at' = at + 1 /\ todo' = CPUs
  /\ UNCHANGED <<clock, packets, tracking, pc, run, global, interfaces, measures>>

\* readInterfaceStats: the extremes over the CPUs; a minimum of 0 is no value.
MinExported(i) ==
  LET values == {iface[i][c].min : c \in CPUs} \ {0} IN IF values = {} THEN 0 ELSE Min(values)

MaxExported(i) == Max({iface[i][c].max : c \in CPUs})

--------------------------------------------------------------------------------
Program(c) ==
  \/ \E p \in Packets, hook \in Hooks, i \in Ifaces : Enter(c, p, hook, i)
  \/ Stamp(c) \/ Lookup(c) \/ UpdateHistogram(c) \/ UpdateGlobal(c) \/ Delete(c)
  \/ Account(c)

Reading == StartCollect \/ \E c \in CPUs : CopySlot(c)

Next == Tick \/ (\E c \in CPUs : Program(c)) \/ Reading

Spec == Init /\ [][Next]_vars

--------------------------------------------------------------------------------
(* Properties.                                                             *)

Slot == [packets : Nat, sum : 0 .. MaxUInt64, min : 0 .. MaxUInt64, max : 0 .. MaxUInt64]

Local == [pkt : Packets \cup {None}, hook : Hooks, ifindex : Ifaces \cup {0},
          now : Nat, latency : 0 .. MaxUInt64, from : Packets \cup {None}]

\* The values the maps and the locals range over.
TypeOK ==
  /\ clock \in 1 .. MaxClock
  /\ hash \in [Packets -> [Hooks -> Hashes \cup {0}]]
  /\ passed \in [Packets -> Hooks \cup {3}] /\ arrival \in [Packets -> 0 .. clock]
  /\ stamps \in [Hashes -> 0 .. clock] /\ owner \in [Hashes -> Packets \cup {None}]
  /\ forgotten \subseteq Hashes
  /\ pc \in [CPUs -> {"idle", "stamp", "lookup", "histogram", "global", "delete",
                      "account"}]
  /\ run \in [CPUs -> Local]
  /\ histogram \in [CPUs -> [Buckets -> Nat]]
  /\ globalPackets \in [CPUs -> Nat] /\ globalLatency \in [CPUs -> 0 .. MaxUInt64]
  /\ known \subseteq Ifaces /\ iface \in [Ifaces -> [CPUs -> Slot]]
  /\ measures \in [CPUs -> [Packets -> Nat]]
  /\ at \in Keys \cup {Idle} /\ todo \subseteq CPUs
  /\ packetsRead \in Nat /\ bucketsRead \in Nat

\* Other packets that store, or delete, entries under a hash.
StoredByOthers(p, h) == \E q \in Packets \ {p} : hash[q][XDP] = h
DeletedByOthers(p, h) == \E q \in Packets \ {p} : hash[q][TCEgress] = h

\* A hook whose hash no other packet had at XDP never uses the arrival of
\* another packet, and its latency does not wrap, whatever the other CPUs do to
\* the shared map.  It goes unmeasured only if the packet met no XDP hook, if its
\* headers have changed its hash since, if the LRU map gave up or refused the
\* entry, or if the egress hook of a packet that has this hash there deleted it.
UniqueIsExact ==
  \A c \in CPUs : LET r == run[c]  h == Key(c) IN
    /\ pc[c] \in {"histogram", "global", "delete", "account"}
    /\ r.hook # XDP /\ ~StoredByOthers(r.pkt, h)
    => \/ r.from = r.pkt /\ hash[r.pkt][XDP] = h /\ r.latency = r.now - arrival[r.pkt]
       \/ /\ r.from = None
          /\ \/ arrival[r.pkt] = 0 \/ hash[r.pkt][XDP] # h
             \/ h \in forgotten \/ DeletedByOthers(r.pkt, h)

\* However many packets share a hash, the egress hook of one CPU never accounts
\* for a timestamp twice; those of two CPUs may, as the lookup and the deletion
\* are two steps.
MeasuredOncePerCPU == \A c \in CPUs, p \in Packets : measures[c][p] <= 1

\* When its program has ended, the histogram of a CPU holds every latency its
\* global_packets counts, and its global_latency_ns is what it accounted to the
\* interfaces: the three are updated from three places.
MapsAgree ==
  \A c \in CPUs : pc[c] = "idle" =>
    /\ SumFunction(histogram[c]) = globalPackets[c]
    /\ globalLatency[c] = SumFunction([i \in Ifaces |-> iface[i][c].sum]) % (MaxUInt64 + 1)

\* The extremes exported for an interface are those of the latencies accounted
\* for on any CPU, although an unused slot holds a minimum of 0 and one without
\* a latency a minimum of ~0.  Of an interface without any latency it says nothing.
ExtremesExact ==
  \A i \in known : LET all == UNION {accounted[i][c] : c \in CPUs} IN
    all # {} => MinExported(i) = Min(all) /\ MaxExported(i) = Max(all)

\* A reader that sums global_packets and then the buckets, slot by slot, never
\* finds fewer entries in the histogram than packets.
SnapshotCovers == at = Idle => packetsRead <= bucketsRead
================================================================================
