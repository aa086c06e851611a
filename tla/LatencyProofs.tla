------------------------------ MODULE LatencyProofs ------------------------------
(***************************************************************************)
(* Theorems about LatencyProgram, for any number of processors, packets,   *)
(* hashes and interfaces.                                                  *)
(*                                                                         *)
(* An entry of packet_timestamps is the arrival of a packet that had its   *)
(* hash at XDP (Entries), and a packet that left its timestamp under a     *)
(* hash of its own loses it in few ways (Kept); a hook at which it still   *)
(* has that hash therefore finds its own timestamp.                        *)
(* A packet has been measured by a CPU at most once because its timestamp  *)
(* is then gone, or that CPU is about to delete it (Once).                 *)
(*                                                                         *)
(* The totals are sums over CPUs, interfaces and buckets, and the lemmas   *)
(* about SumFunction say what one addend does to them: what is in one map  *)
(* and on its way to the next (SumsInv), the extremes of a slot (SlotsInv) *)
(* and what the reader has counted and not yet found in a bucket           *)
(* (ReaderInv).                                                            *)
(***************************************************************************)
EXTENDS LatencyProgram, LatencyCollector, SumTheorems

Busy(c) == pc[c] # "idle"

Stamping(p) == \E c \in CPUs : pc[c] = "stamp" /\ run[c].pkt = p

\* The locals of a program that runs.  Its packet met XDP before, if at all.
LocalOK(c) ==
  /\ run[c].pkt \in Packets /\ run[c].ifindex \in Ifaces
  /\ Key(c) \in Hashes
  /\ passed[run[c].pkt] = run[c].hook + 1
  /\ run[c].now \in 1 .. clock
  /\ pc[c] = "stamp" => run[c].hook = XDP /\ arrival[run[c].pkt] = run[c].now
  /\ pc[c] = "lookup" => run[c].hook # XDP /\ run[c].from = None
  /\ pc[c] \in {"histogram", "global"} => run[c].hook # XDP
  /\ pc[c] = "delete" => run[c].hook = TCEgress
  /\ run[c].hook # XDP => arrival[run[c].pkt] < run[c].now

Locals == \A c \in CPUs : Busy(c) => LocalOK(c)

\* A packet is on one CPU at a time.
Apart == \A c, d \in CPUs : Busy(c) /\ Busy(d) /\ run[c].pkt = run[d].pkt => c = d

\* An entry is the arrival of a packet that had that hash at XDP.
Entry(h) ==
  IF owner[h] = None THEN stamps[h] = 0
  ELSE stamps[h] = arrival[owner[h]] /\ stamps[h] # 0 /\ hash[owner[h]][XDP] = h

Entries == \A h \in Hashes : Entry(h)

Tracked(p) == \E h \in Hashes : owner[h] = p

\* A packet that has not left its timestamp yet has not been measured.
Fresh == \A p \in Packets : passed[p] = XDP \/ Stamping(p) =>
  /\ ~Tracked(p)
  /\ \A c \in CPUs : measures[c][p] = 0

\* A packet that stores its arrival under a hash of its own has no entry.
Lost(p) ==
  hash[p][XDP] # 0 /\ ~StoredByOthers(p, hash[p][XDP]) /\ stamps[hash[p][XDP]] = 0

\* The reasons there are for that.
Reason(p) ==
  \/ arrival[p] = 0 \/ hash[p][XDP] \in forgotten \/ Stamping(p)
  \/ DeletedByOthers(p, hash[p][XDP])
  \/ passed[p] = 3 /\ \A c \in CPUs : ~(pc[c] = "lookup" /\ run[c].pkt = p)

Kept == \A p \in Packets : Lost(p) => Reason(p)

Measuring(c, p) ==
  pc[c] \in {"histogram", "global", "delete"} /\ run[c].hook = TCEgress /\ Key(c) = hash[p][XDP]

Once == \A c \in CPUs, p \in Packets :
  \/ measures[c][p] = 0
  \/ measures[c][p] = 1 /\ (~Tracked(p) \/ Measuring(c, p))

IInv == TypeOK /\ Locals /\ Apart /\ Entries /\ Fresh /\ Kept /\ Once

--------------------------------------------------------------------------------
(* Arithmetic.                                                             *)

LEMMA Numbers ==
  /\ BucketCount \in Nat /\ BucketCount >= 1
  /\ TickNs \in Nat /\ TickNs >= 1 /\ MaxClock \in Nat /\ TickNs <= MaxClock
  /\ MaxUInt64 \in Nat /\ MaxClock < MaxUInt64
  /\ 0 \notin Hashes /\ None \notin Packets
BY LatencyAssumption

\* The difference of two times is what a __u64 holds, and is exact in order.
LEMMA MinusIsUInt64 ==
  ASSUME NEW a \in Nat, NEW b \in Nat
  PROVE  /\ Minus(a, b) \in 0 .. MaxUInt64
         /\ b <= a /\ a <= MaxUInt64 => Minus(a, b) = a - b
BY Numbers DEF Minus

LEMMA PlusIsUInt64 ==
  ASSUME NEW a \in Nat, NEW b \in Nat
  PROVE  Plus(a, b) \in 0 .. MaxUInt64
BY Numbers DEF Plus

\* get_latency_bucket returns the index of a bucket.
LEMMA BucketInRange ==
  ASSUME NEW l \in Nat
  PROVE  Bucket(l) \in Buckets
<1> DEFINE All == 0 .. BucketCount - 2
           Below == {b \in All : l \div 1000 >= 2 ^ b}
<1>1. Below \subseteq All
  OBVIOUS
<1>2. IsFiniteSet(All) /\ Cardinality(All) = BucketCount - 1
  <2>1. 0 \in Int /\ BucketCount - 2 \in Int
    BY Numbers
  <2>2. IsFiniteSet(All) /\ Cardinality(All) = IF 0 > BucketCount - 2 THEN 0 ELSE BucketCount - 2 - 0 + 1
    BY <2>1, FS_Interval
  <2> QED
    BY <2>2, Numbers
<1> HIDE DEF Below, All
<1>3. IsFiniteSet(Below) /\ Cardinality(Below) <= Cardinality(All)
  BY <1>1, <1>2, FS_Subset
<1>4. Cardinality(Below) \in Nat
  BY <1>3, FS_CardinalityType
<1>5. Cardinality(Below) \in 0 .. BucketCount - 1
  BY <1>2, <1>3, <1>4, Numbers
<1> QED
  BY <1>5 DEF Bucket, Buckets, Below, All

\* Updated leaves in a slot what a slot can hold.
LEMMA UpdatedIsSlot ==
  ASSUME NEW slot \in Slot, NEW l \in 0 .. MaxUInt64
  PROVE  Updated(slot, l) \in Slot
<1>1. slot.packets \in Nat /\ slot.sum \in Nat /\ slot.min \in 0 .. MaxUInt64 /\ slot.max \in 0 .. MaxUInt64
  BY Numbers DEF Slot
<1>2. Plus(slot.sum, l) \in 0 .. MaxUInt64
  <2>1. slot.sum \in Nat /\ l \in Nat
    BY <1>1, Numbers
  <2> QED
    BY <2>1, PlusIsUInt64
<1>3. (IF l > 0 /\ (l < slot.min \/ slot.min = 0) THEN l ELSE slot.min) \in 0 .. MaxUInt64
  BY <1>1
<1>4. (IF l > slot.max THEN l ELSE slot.max) \in 0 .. MaxUInt64
  BY <1>1
<1>5. slot.packets + 1 \in Nat
  BY <1>1
<1> QED
  BY <1>2, <1>3, <1>4, <1>5 DEF Updated, Slot

--------------------------------------------------------------------------------
(* What XDP does to an entry: it is stored, given up, or as it was.        *)

LEMMA StampEntries ==
  ASSUME NEW c \in CPUs, Stamp(c), TypeOK
  PROVE  /\ stamps' = [g \in Hashes |-> stamps'[g]] /\ owner' = [g \in Hashes |-> owner'[g]]
         /\ forgotten \subseteq forgotten'
         /\ forgotten' \subseteq forgotten \cup Hashes \cup {Key(c)}
         /\ \A g \in Hashes :
              \/ g = Key(c) /\ stamps'[g] = run[c].now /\ owner'[g] = run[c].pkt
              \/ g # Key(c) /\ g \in forgotten' /\ stamps'[g] = 0 /\ owner'[g] = None
              \/ /\ stamps'[g] = stamps[g] /\ owner'[g] = owner[g]
                 /\ g = Key(c) => g \in forgotten'
<1> DEFINE h == Key(c)
<1>1. CASE Store(c)
  <2>1. PICK gone \in SUBSET Hashes :
          /\ stamps' = [g \in Hashes |-> IF g = h THEN run[c].now
                                        ELSE IF g \in gone THEN 0 ELSE stamps[g]]
          /\ owner' = [g \in Hashes |-> IF g = h THEN run[c].pkt
                                       ELSE IF g \in gone THEN None ELSE owner[g]]
          /\ forgotten' = forgotten \cup gone
    BY <1>1 DEF Store
  <2> HIDE DEF h
  <2>2. \A g \in Hashes :
          /\ stamps'[g] = IF g = h THEN run[c].now ELSE IF g \in gone THEN 0 ELSE stamps[g]
          /\ owner'[g] = IF g = h THEN run[c].pkt ELSE IF g \in gone THEN None ELSE owner[g]
    BY <2>1
  <2>3. stamps' = [g \in Hashes |-> stamps'[g]] /\ owner' = [g \in Hashes |-> owner'[g]]
    BY <2>1
  <2> QED
    BY <2>1, <2>2, <2>3 DEF h
<1>2. CASE Refuse(c)
  BY <1>2 DEF Refuse, TypeOK
<1> QED
  BY <1>1, <1>2 DEF Stamp

--------------------------------------------------------------------------------
(* The initial states.                                                     *)

LEMMA InitHolds == Init => IInv
<1> SUFFICES ASSUME Init PROVE IInv
  OBVIOUS
<1>1. TypeOK
  <2>1. clock \in 1 .. MaxClock
    BY Numbers DEF Init
  <2>2. NoRun \in Local
    BY Numbers DEF NoRun, Local, Hooks, XDP
  <2>3. ZeroSlot \in Slot
    BY Numbers DEF ZeroSlot, Slot
  <2>4. 0 \in 0 .. clock
    BY <2>1
  <2>5. /\ passed \in [Packets -> Hooks \cup {3}] /\ arrival \in [Packets -> 0 .. clock]
        /\ stamps \in [Hashes -> 0 .. clock] /\ owner \in [Hashes -> Packets \cup {None}]
    BY <2>4 DEF Init, Hooks, XDP
  <2>6. /\ run \in [CPUs -> Local] /\ iface \in [Ifaces -> [CPUs -> Slot]]
    BY <2>2, <2>3 DEF Init
  <2>7. /\ histogram \in [CPUs -> [Buckets -> Nat]]
        /\ globalPackets \in [CPUs -> Nat] /\ globalLatency \in [CPUs -> 0 .. MaxUInt64]
        /\ measures \in [CPUs -> [Packets -> Nat]]
    BY Numbers DEF Init
  <2> QED
    BY <2>1, <2>5, <2>6, <2>7 DEF Init, TypeOK, Keys
<1>2. \A c \in CPUs : ~Busy(c)
  BY DEF Init, Busy
<1>3. \A p \in Packets : ~Tracked(p)
  BY Numbers DEF Init, Tracked
<1>4. Locals /\ Apart
  BY <1>2 DEF Locals, Apart
<1>5. Entries
  BY DEF Init, Entries, Entry
<1>6. Fresh
  BY <1>3 DEF Init, Fresh
<1>7. Kept
  BY DEF Init, Kept, Reason
<1>8. Once
  BY DEF Init, Once
<1> QED
  BY <1>1, <1>4, <1>5, <1>6, <1>7, <1>8 DEF IInv

--------------------------------------------------------------------------------
(* Types.                                                                  *)

LEMMA TypeStep ==
  ASSUME IInv, [Next]_vars
  PROVE  TypeOK'
<1> USE DEF IInv
<1>t. TypeOK
  OBVIOUS
<1>1. CASE Tick
  <2>1. clock' \in 1 .. MaxClock /\ clock <= clock'
    BY <1>1, <1>t, Numbers DEF Tick, TypeOK
  <2>2. arrival' \in [Packets -> 0 .. clock'] /\ stamps' \in [Hashes -> 0 .. clock']
    <3>1. arrival' = arrival /\ stamps' = stamps
      BY <1>1 DEF Tick, packets, tracking
    <3>2. clock \in Nat /\ clock' \in Nat
      BY <2>1, <1>t, Numbers DEF TypeOK
    <3>3. 0 .. clock \subseteq 0 .. clock'
      BY <2>1, <3>2
    <3> QED
      BY <3>1, <3>3, <1>t DEF TypeOK
  <2> QED
    BY <1>1, <1>t, <2>1, <2>2 DEF Tick, TypeOK, packets, tracking, global, interfaces, reader, Local, Slot
<1>2. ASSUME NEW c \in CPUs, NEW p \in Packets, NEW hook \in Hooks, NEW j \in Ifaces, Enter(c, p, hook, j)
      PROVE  TypeOK'
  <2>1. passed' \in [Packets -> Hooks \cup {3}]
    BY <1>2, <1>t DEF Enter, TypeOK, Hooks, XDP, TCIngress, TCEgress
  <2>2. [pkt |-> p, hook |-> hook, ifindex |-> j, now |-> clock, latency |-> 0, from |-> None] \in Local
    BY <1>t, Numbers DEF Local, TypeOK
  <2>3. clock \in 0 .. clock
    BY <1>t, Numbers DEF TypeOK
  <2>4. CASE UNCHANGED <<pc, run, arrival>>
    BY <1>2, <1>t, <2>1, <2>4 DEF Enter, TypeOK, tracking, global, interfaces, reader
  <2>5. CASE hash[p][hook] # 0
    <3>1. run' \in [CPUs -> Local]
      BY <1>2, <1>t, <2>2, <2>5 DEF Enter, TypeOK
    <3>2. arrival' \in [Packets -> 0 .. clock]
      BY <1>2, <1>t, <2>3, <2>5 DEF Enter, TypeOK
    <3>3. pc' \in [CPUs -> {"idle", "stamp", "lookup", "histogram", "global", "delete", "account"}]
      BY <1>2, <1>t, <2>5 DEF Enter, TypeOK
    <3> QED
      BY <1>2, <1>t, <2>1, <3>1, <3>2, <3>3 DEF Enter, TypeOK, tracking, global, interfaces, reader
  <2> QED
    BY <1>2, <2>4, <2>5 DEF Enter
<1>3. ASSUME NEW c \in CPUs, Stamp(c)
      PROVE  TypeOK'
  <2>1. run[c].now \in 0 .. clock /\ run[c].pkt \in Packets /\ Key(c) \in Hashes
    BY <1>3, <1>t, Numbers DEF Stamp, Locals, LocalOK, Busy, TypeOK
  <2>2. /\ stamps' = [g \in Hashes |-> stamps'[g]] /\ owner' = [g \in Hashes |-> owner'[g]]
        /\ forgotten' \subseteq forgotten \cup Hashes \cup {Key(c)}
        /\ \A g \in Hashes : /\ stamps'[g] \in {run[c].now, 0, stamps[g]}
                             /\ owner'[g] \in {run[c].pkt, None, owner[g]}
    BY <1>3, <1>t, StampEntries
  <2>3. 0 \in 0 .. clock
    BY <1>t, Numbers DEF TypeOK
  <2>4. stamps' \in [Hashes -> 0 .. clock]
    BY <2>1, <2>2, <2>3, <1>t DEF TypeOK
  <2>5. owner' \in [Hashes -> Packets \cup {None}]
    BY <2>1, <2>2, <1>t DEF TypeOK
  <2>6. forgotten' \subseteq Hashes
    BY <2>1, <2>2, <1>t DEF TypeOK
  <2>7. pc' \in [CPUs -> {"idle", "stamp", "lookup", "histogram", "global", "delete", "account"}]
    BY <1>3, <1>t DEF Stamp, TypeOK
  <2> QED
    BY <1>3, <1>t, <2>4, <2>5, <2>6, <2>7 DEF Stamp, TypeOK, packets, global, interfaces, reader
<1>4. ASSUME NEW c \in CPUs, Lookup(c)
      PROVE  TypeOK'
  <2> DEFINE h == Key(c)
  <2>1. h \in Hashes /\ run[c] \in Local
    BY <1>4, <1>t DEF Lookup, Locals, LocalOK, Busy, TypeOK
  <2>2. pc' \in [CPUs -> {"idle", "stamp", "lookup", "histogram", "global", "delete", "account"}]
    BY <1>4, <1>t DEF Lookup, TypeOK
  <2>3. run' \in [CPUs -> Local]
    <3>1. Minus(run[c].now, stamps[h]) \in 0 .. MaxUInt64
      <4>1. run[c].now \in Nat /\ stamps[h] \in Nat
        BY <2>1, <1>t, Numbers DEF Local, TypeOK
      <4> QED
        BY <4>1, MinusIsUInt64
    <3>2. [run[c] EXCEPT !.latency = Minus(run[c].now, stamps[h]), !.from = owner[h]] \in Local
      BY <3>1, <2>1, <1>t DEF Local, TypeOK
    <3>3. CASE run' = run
      BY <3>3, <1>t DEF TypeOK
    <3>4. CASE run' = [run EXCEPT ![c] = [run[c] EXCEPT !.latency = Minus(run[c].now, stamps[h]), !.from = owner[h]]]
      BY <3>2, <3>4, <1>t DEF TypeOK
    <3>5. [run EXCEPT ![c].latency = Minus(run[c].now, stamps[h]), ![c].from = owner[h]]
            = [run EXCEPT ![c] = [run[c] EXCEPT !.latency = Minus(run[c].now, stamps[h]), !.from = owner[h]]]
      BY <1>t DEF TypeOK, Local
    <3> QED
      BY <1>4, <3>3, <3>4, <3>5 DEF Lookup
  <2>4. measures' \in [CPUs -> [Packets -> Nat]]
    <3>1. CASE measures' = measures
      BY <3>1, <1>t DEF TypeOK
    <3>2. CASE measures' = [measures EXCEPT ![c][owner[h]] = @ + 1] /\ stamps[h] # 0
      <4>1. owner[h] \in Packets
        BY <3>2, <2>1, <1>t DEF Entries, Entry, TypeOK
      <4>2. [measures[c] EXCEPT ![owner[h]] = @ + 1] \in [Packets -> Nat]
        BY <4>1, <1>t DEF TypeOK
      <4> QED
        BY <3>2, <4>2, <1>t DEF TypeOK
    <3> QED
      BY <1>4, <3>1, <3>2 DEF Lookup
  <2> QED
    BY <1>4, <1>t, <2>2, <2>3, <2>4 DEF Lookup, TypeOK, packets, tracking, global, interfaces, reader
<1>5. ASSUME NEW c \in CPUs, UpdateHistogram(c)
      PROVE  TypeOK'
  <2> DEFINE b == Bucket(run[c].latency)
  <2>1. b \in Buckets
    BY <1>t, Numbers, BucketInRange DEF TypeOK, Local
  <2>2. histogram' \in [CPUs -> [Buckets -> Nat]]
    <3>1. histogram' = [histogram EXCEPT ![c][b] = @ + 1]
      BY <1>5 DEF UpdateHistogram
    <3> HIDE DEF b
    <3>2. [histogram[c] EXCEPT ![b] = @ + 1] \in [Buckets -> Nat]
      BY <2>1, <1>t DEF TypeOK
    <3> QED
      BY <3>1, <3>2, <1>t DEF TypeOK
  <2> QED
    BY <1>5, <1>t, <2>2 DEF UpdateHistogram, TypeOK, packets, tracking, interfaces, reader
<1>6. ASSUME NEW c \in CPUs, UpdateGlobal(c)
      PROVE  TypeOK'
  <2>1. Plus(globalLatency[c], run[c].latency) \in 0 .. MaxUInt64
    <3>1. globalLatency[c] \in Nat /\ run[c].latency \in Nat
      BY <1>t, Numbers DEF TypeOK, Local
    <3> QED
      BY <3>1, PlusIsUInt64
  <2>2. globalLatency' \in [CPUs -> 0 .. MaxUInt64]
    BY <1>6, <1>t, <2>1 DEF UpdateGlobal, TypeOK
  <2>3. globalPackets' \in [CPUs -> Nat]
    BY <1>6, <1>t DEF UpdateGlobal, TypeOK
  <2> QED
    BY <1>6, <1>t, <2>2, <2>3 DEF UpdateGlobal, TypeOK, packets, tracking, interfaces, reader
<1>7. ASSUME NEW c \in CPUs, Delete(c)
      PROVE  TypeOK'
  <2>1. 0 \in 0 .. clock
    BY <1>t, Numbers DEF TypeOK
  <2>2. stamps' \in [Hashes -> 0 .. clock] /\ owner' \in [Hashes -> Packets \cup {None}]
    BY <1>7, <1>t, <2>1 DEF Delete, TypeOK
  <2> QED
    BY <1>7, <1>t, <2>2 DEF Delete, TypeOK, packets, global, interfaces, reader
<1>8. ASSUME NEW c \in CPUs, Account(c)
      PROVE  TypeOK'
  <2>1. run[c].ifindex \in Ifaces /\ run[c].latency \in 0 .. MaxUInt64
    BY <1>8, <1>t DEF Account, Locals, LocalOK, Busy, TypeOK, Local
  <2>2. Found(c) \in Slot
    <3>1. CASE run[c].ifindex \in known
      BY <3>1, <2>1, <1>t DEF Found, TypeOK
    <3>2. CASE run[c].ifindex \notin known
      <4>1. Found(c) = [ZeroSlot EXCEPT !.min = IF run[c].latency > 0 THEN run[c].latency ELSE MaxUInt64,
                                        !.max = run[c].latency]
        BY <3>2 DEF Found
      <4>2. (IF run[c].latency > 0 THEN run[c].latency ELSE MaxUInt64) \in 0 .. MaxUInt64
        BY <2>1, Numbers
      <4>3. 0 \in 0 .. MaxUInt64 /\ 0 \in Nat
        BY Numbers
      <4> QED
        BY <4>1, <4>2, <4>3, <2>1 DEF ZeroSlot, Slot
    <3> QED
      BY <3>1, <3>2
  <2>3. Updated(Found(c), run[c].latency) \in Slot
    BY <2>1, <2>2, UpdatedIsSlot
  <2>4. iface' \in [Ifaces -> [CPUs -> Slot]]
    BY <1>8, <1>t, <2>1, <2>3 DEF Account, TypeOK
  <2>5. NoRun \in Local
    BY Numbers DEF NoRun, Local, Hooks, XDP
  <2>6. run' \in [CPUs -> Local]
    BY <1>8, <1>t, <2>5 DEF Account, TypeOK
  <2>7. known' \subseteq Ifaces
    BY <1>8, <1>t, <2>1 DEF Account, TypeOK
  <2> QED
    BY <1>8, <1>t, <2>4, <2>6, <2>7 DEF Account, TypeOK, packets, tracking, global, reader
<1>9. CASE StartCollect
  BY <1>9, <1>t DEF StartCollect, TypeOK, Keys, packets, tracking, global, interfaces
<1>10. ASSUME NEW c \in CPUs, CopySlot(c)
       PROVE  TypeOK'
  <2>1. packetsRead' \in Nat /\ bucketsRead' \in Nat
    <3>1. CASE at = PacketsKey
      BY <1>10, <3>1, <1>t DEF CopySlot, TypeOK
    <3>2. CASE at # PacketsKey
      <4>1. at \in Buckets
        BY <1>10, <3>2, <1>t DEF CopySlot, TypeOK, Keys
      <4> QED
        BY <1>10, <3>2, <4>1, <1>t DEF CopySlot, TypeOK
    <3> QED
      BY <3>1, <3>2
  <2>2. at' \in Keys \cup {Idle}
    BY <1>10, <1>t, Numbers DEF CopySlot, TypeOK, Keys, Buckets, PacketsKey, Idle
  <2>3. todo' \subseteq CPUs
    BY <1>10, <1>t DEF CopySlot, TypeOK
  <2> QED
    BY <1>10, <1>t, <2>1, <2>2, <2>3 DEF CopySlot, TypeOK, packets, tracking, global, interfaces
<1>11. CASE UNCHANGED vars
  BY <1>11, <1>t DEF vars, TypeOK, packets, tracking, global, interfaces, reader
<1> QED
  BY <1>1, <1>2, <1>3, <1>4, <1>5, <1>6, <1>7, <1>8, <1>9, <1>10, <1>11 DEF Next, Program, Reading

--------------------------------------------------------------------------------
(* The steps that the packets, the programs and the timestamps notice.     *)

\* The clock and the reader change neither packets nor timestamps.
Quiet == UNCHANGED <<hash, passed, arrival, stamps, owner, forgotten, measures>>

\* A CPU goes on with its program, which keeps its packet and its time.
Proceeds(c) ==
  /\ Busy(c)
  /\ \A d \in CPUs \ {c} : pc'[d] = pc[d] /\ run'[d] = run[d]
  /\ \/ pc'[c] = "idle"
     \/ /\ run'[c].pkt = run[c].pkt /\ run'[c].ifindex = run[c].ifindex
        /\ run'[c].now = run[c].now /\ run'[c].hook = run[c].hook
        /\ \/ pc[c] = "stamp" /\ pc'[c] = "account"
           \/ pc[c] = "lookup" /\ pc'[c] \in {"histogram", "account"}
           \/ pc[c] = "histogram" /\ pc'[c] = "global"
           \/ pc[c] = "global" /\ pc'[c] = "delete" /\ run[c].hook = TCEgress
           \/ pc[c] = "global" /\ pc'[c] = "account" /\ run[c].hook # TCEgress
           \/ pc[c] = "delete" /\ pc'[c] = "account"

LEMMA ProgramProceeds ==
  ASSUME TypeOK, Locals, NEW c \in CPUs,
         Stamp(c) \/ Lookup(c) \/ UpdateHistogram(c) \/ UpdateGlobal(c) \/ Delete(c) \/ Account(c)
  PROVE  Proceeds(c) /\ clock' = clock /\ UNCHANGED <<hash, passed, arrival>>
<1>1. UNCHANGED <<clock, hash, passed, arrival>>
  BY DEF Stamp, Lookup, UpdateHistogram, UpdateGlobal, Delete, Account, packets
<1>2. /\ pc \in [CPUs -> {"idle", "stamp", "lookup", "histogram", "global", "delete", "account"}]
      /\ run \in [CPUs -> Local]
  BY DEF TypeOK
<1>3. CASE Stamp(c)
  <2>1. pc[c] = "stamp" /\ pc' = [pc EXCEPT ![c] = "account"] /\ run' = run
    BY <1>3 DEF Stamp
  <2>2. pc'[c] = "account" /\ \A d \in CPUs \ {c} : pc'[d] = pc[d]
    BY <1>2, <2>1
  <2> QED
    BY <1>1, <2>1, <2>2 DEF Proceeds, Busy
<1>4. CASE Lookup(c)
  <2>1. run' = run \/ \E l, o : run' = [run EXCEPT ![c].latency = l, ![c].from = o]
    BY <1>4 DEF Lookup
  <2>2. /\ run'[c].pkt = run[c].pkt /\ run'[c].ifindex = run[c].ifindex
        /\ run'[c].now = run[c].now /\ run'[c].hook = run[c].hook
        /\ \A d \in CPUs \ {c} : run'[d] = run[d]
    <3>1. CASE run' = run
      BY <3>1
    <3>2. ASSUME NEW l, NEW o, run' = [run EXCEPT ![c].latency = l, ![c].from = o]
          PROVE  /\ run'[c].pkt = run[c].pkt /\ run'[c].ifindex = run[c].ifindex
                 /\ run'[c].now = run[c].now /\ run'[c].hook = run[c].hook
                 /\ \A d \in CPUs \ {c} : run'[d] = run[d]
      <4>1. /\ run'[c] = [run[c] EXCEPT !.latency = l, !.from = o]
            /\ \A d \in CPUs \ {c} : run'[d] = run[d]
        BY <1>2, <3>2
      <4>2. run[c] \in Local
        BY <1>2
      <4>. QED
        BY <4>1, <4>2 DEF Local
    <3>. QED
      BY <2>1, <3>1, <3>2
  <2> QED
    <3>1. pc[c] = "lookup" /\ \E x \in {"histogram", "account"} : pc' = [pc EXCEPT ![c] = x]
      BY <1>4 DEF Lookup
    <3>2. pc'[c] \in {"histogram", "account"} /\ \A d \in CPUs \ {c} : pc'[d] = pc[d]
      BY <1>2, <3>1
    <3> QED
      BY <1>1, <2>2, <3>1, <3>2 DEF Proceeds, Busy
<1>5. CASE UpdateHistogram(c)
  <2>1. pc[c] = "histogram" /\ pc' = [pc EXCEPT ![c] = "global"] /\ run' = run
    BY <1>5 DEF UpdateHistogram
  <2>2. pc'[c] = "global" /\ \A d \in CPUs \ {c} : pc'[d] = pc[d]
    BY <1>2, <2>1
  <2> QED
    BY <1>1, <2>1, <2>2 DEF Proceeds, Busy
<1>6. CASE UpdateGlobal(c)
  <2>1. pc[c] = "global" /\ pc' = [pc EXCEPT ![c] = (IF run[c].hook = TCEgress THEN "delete" ELSE "account")] /\ run' = run
    BY <1>6 DEF UpdateGlobal
  <2>2. pc'[c] = (IF run[c].hook = TCEgress THEN "delete" ELSE "account") /\ \A d \in CPUs \ {c} : pc'[d] = pc[d]
    BY <1>2, <2>1
  <2> QED
    BY <1>1, <2>1, <2>2 DEF Proceeds, Busy
<1>7. CASE Delete(c)
  <2>1. pc[c] = "delete" /\ pc' = [pc EXCEPT ![c] = "account"] /\ run' = run
    BY <1>7 DEF Delete
  <2>2. pc'[c] = "account" /\ \A d \in CPUs \ {c} : pc'[d] = pc[d]
    BY <1>2, <2>1
  <2> QED
    BY <1>1, <2>1, <2>2 DEF Proceeds, Busy
<1>8. CASE Account(c)
  <2>1. pc[c] = "account" /\ pc' = [pc EXCEPT ![c] = "idle"] /\ run' = [run EXCEPT ![c] = NoRun]
    BY <1>8 DEF Account
  <2>2. pc'[c] = "idle" /\ \A d \in CPUs \ {c} : pc'[d] = pc[d] /\ run'[d] = run[d]
    BY <1>2, <2>1
  <2> QED
    BY <1>1, <2>1, <2>2 DEF Proceeds, Busy
<1> QED
  BY <1>1, <1>3, <1>4, <1>5, <1>6, <1>7, <1>8

\* Every step is the head of a hook, the work of a program, or does not matter.
LEMMA Kinds ==
  ASSUME [Next]_vars
  PROVE  \/ \E c \in CPUs, p \in Packets, hook \in Hooks, j \in Ifaces : Enter(c, p, hook, j)
         \/ \E c \in CPUs : \/ Stamp(c) \/ Lookup(c) \/ UpdateHistogram(c)
                            \/ UpdateGlobal(c) \/ Delete(c) \/ Account(c)
         \/ Quiet /\ UNCHANGED <<pc, run>> /\ (clock' = clock \/ clock' = clock + TickNs)
<1>1. CASE Tick
  BY <1>1 DEF Tick, Quiet, packets, tracking
<1>2. CASE StartCollect
  BY <1>2 DEF StartCollect, Quiet, packets, tracking
<1>3. ASSUME NEW c \in CPUs, CopySlot(c)
      PROVE  Quiet /\ UNCHANGED <<pc, run, clock>>
  BY <1>3 DEF CopySlot, Quiet, packets, tracking
<1>4. CASE UNCHANGED vars
  BY <1>4 DEF vars, Quiet, packets, tracking
<1> QED
  BY <1>1, <1>2, <1>3, <1>4 DEF Next, Program, Reading

--------------------------------------------------------------------------------
(* The programs.                                                           *)

LEMMA LocalsStep ==
  ASSUME IInv, [Next]_vars
  PROVE  Locals' /\ Apart'
<1>t. TypeOK /\ Locals /\ Apart
  BY DEF IInv
<1>n. /\ pc \in [CPUs -> {"idle", "stamp", "lookup", "histogram", "global", "delete", "account"}]
      /\ run \in [CPUs -> Local]
      /\ clock \in Nat /\ clock >= 1
  BY <1>t, Numbers DEF TypeOK
<1>1. ASSUME NEW c \in CPUs, NEW p \in Packets, NEW hook \in Hooks, NEW j \in Ifaces, Enter(c, p, hook, j)
      PROVE  Locals' /\ Apart'
  <2>1. clock' = clock /\ hash' = hash
    BY <1>1 DEF Enter
  <2>2. \A d \in CPUs : Busy(d) => run[d].pkt # p
    BY <1>1 DEF Enter, Busy
  <2>3. passed' = [passed EXCEPT ![p] = hook + 1] /\ pc[c] = "idle" /\ arrival[p] < clock
    BY <1>1 DEF Enter
  <2>4. arrival' \in {arrival, [arrival EXCEPT ![p] = clock]}
    BY <1>1 DEF Enter
  <2>5. \A q \in Packets \ {p} : passed'[q] = passed[q] /\ arrival'[q] = arrival[q]
    BY <2>3, <2>4, <1>t DEF TypeOK
  <2>6. ASSUME NEW d \in CPUs, Busy(d)' , d # c
        PROVE  LocalOK(d)' /\ Busy(d) /\ run'[d] = run[d]
    <3>1. pc'[d] = pc[d] /\ run'[d] = run[d]
      BY <1>1, <1>n, <2>6 DEF Enter
    <3>2. Busy(d)
      BY <2>6, <3>1 DEF Busy
    <3>3. LocalOK(d) /\ run[d].pkt # p
      BY <3>2, <2>2, <1>t DEF Locals
    <3> QED
      BY <3>1, <3>2, <3>3, <2>1, <2>5 DEF LocalOK, Key
  <2>7. CASE hash[p][hook] = 0 /\ UNCHANGED <<pc, run, arrival>>
    <3>1. \A d \in CPUs : Busy(d)' => d # c
      BY <2>3, <2>7 DEF Busy
    <3> QED
      BY <3>1, <2>6, <1>t DEF Locals, Apart
  <2>8. CASE hash[p][hook] # 0 /\ ~(hash[p][hook] = 0 /\ UNCHANGED <<pc, run, arrival>>)
    <3>1. /\ pc' = [pc EXCEPT ![c] = IF hook = XDP THEN "stamp" ELSE "lookup"]
          /\ run' = [run EXCEPT ![c] = [pkt |-> p, hook |-> hook, ifindex |-> j,
                                        now |-> clock, latency |-> 0, from |-> None]]
          /\ arrival' = IF hook = XDP THEN [arrival EXCEPT ![p] = clock] ELSE arrival
      BY <1>1, <2>8 DEF Enter
    <3>2. pc'[c] = IF hook = XDP THEN "stamp" ELSE "lookup"
      BY <3>1, <1>n
    <3>3. /\ run'[c].pkt = p /\ run'[c].hook = hook /\ run'[c].ifindex = j
          /\ run'[c].now = clock /\ run'[c].from = None
      BY <3>1, <1>n
    <3>4. passed'[p] = hook + 1 /\ arrival'[p] = IF hook = XDP THEN clock ELSE arrival[p]
      BY <2>3, <3>1, <1>t DEF TypeOK
    <3>5. hash'[p][hook] \in Hashes
      BY <2>1, <2>8, <1>t DEF TypeOK
    <3>6. run'[c].now \in 1 .. clock'
      BY <3>3, <2>1, <1>n
    <3>7. LocalOK(c)'
      BY <2>3, <3>2, <3>3, <3>4, <3>5, <3>6 DEF LocalOK, Key, XDP
    <3>8. \A d \in CPUs : d # c /\ Busy(d)' => run'[d].pkt # p
      BY <2>2, <2>6
    <3>9. Apart'
      BY <2>6, <3>3, <3>8, <1>t DEF Apart
    <3> QED
      BY <2>6, <3>7, <3>9 DEF Locals
  <2> QED
    <3>1. hash[p][hook] # 0 \/ (hash[p][hook] = 0 /\ UNCHANGED <<pc, run, arrival>>)
      BY <1>1 DEF Enter
    <3> QED
      BY <2>7, <2>8, <3>1
<1>2. ASSUME NEW c \in CPUs,
             Stamp(c) \/ Lookup(c) \/ UpdateHistogram(c) \/ UpdateGlobal(c) \/ Delete(c) \/ Account(c)
      PROVE  Locals' /\ Apart'
  <2>1. Proceeds(c) /\ clock' = clock /\ UNCHANGED <<hash, passed, arrival>>
    BY <1>2, <1>t, ProgramProceeds
  <2>2. LocalOK(c) /\ Busy(c)
    BY <2>1, <1>t DEF Proceeds, Locals
  <2>3. ASSUME NEW d \in CPUs, Busy(d)', d # c
        PROVE  LocalOK(d)' /\ Busy(d) /\ run'[d].pkt = run[d].pkt
    <3>1. pc'[d] = pc[d] /\ run'[d] = run[d]
      BY <2>1, <2>3 DEF Proceeds
    <3>2. LocalOK(d) /\ Busy(d)
      BY <3>1, <2>3, <1>t DEF Locals, Busy
    <3> QED
      BY <2>1, <3>1, <3>2 DEF LocalOK, Key
  <2>4. ASSUME Busy(c)'
        PROVE  LocalOK(c)' /\ run'[c].pkt = run[c].pkt
    <3>1. /\ run'[c].pkt = run[c].pkt /\ run'[c].ifindex = run[c].ifindex
          /\ run'[c].now = run[c].now /\ run'[c].hook = run[c].hook
          /\ \/ pc[c] = "stamp" /\ pc'[c] = "account"
             \/ pc[c] = "lookup" /\ pc'[c] \in {"histogram", "account"}
             \/ pc[c] = "histogram" /\ pc'[c] = "global"
             \/ pc[c] = "global" /\ pc'[c] = "delete" /\ run[c].hook = TCEgress
             \/ pc[c] = "global" /\ pc'[c] = "account" /\ run[c].hook # TCEgress
             \/ pc[c] = "delete" /\ pc'[c] = "account"
      BY <2>1, <2>4 DEF Proceeds, Busy
    <3> QED
      BY <3>1, <2>1, <2>2 DEF LocalOK, Key, XDP, TCEgress
  <2>5. Apart'
    BY <2>2, <2>3, <2>4, <1>t DEF Apart
  <2> QED
    BY <2>3, <2>4, <2>5 DEF Locals
<1>3. CASE Quiet /\ UNCHANGED <<pc, run>> /\ (clock' = clock \/ clock' = clock + TickNs)
  <2>1. \A c \in CPUs : Busy(c)' <=> Busy(c)
    BY <1>3 DEF Busy
  <2>2. ASSUME NEW c \in CPUs, Busy(c)
        PROVE  LocalOK(c)'
    <3>1. LocalOK(c)
      BY <2>2, <1>t DEF Locals
    <3>2. run[c].now \in 1 .. clock'
      BY <3>1, <1>3, <1>n, Numbers DEF LocalOK
    <3> QED
      BY <3>1, <3>2, <1>3 DEF LocalOK, Key, Quiet
  <2> QED
    BY <2>1, <2>2, <1>3, <1>t DEF Locals, Apart
<1> QED
  BY <1>1, <1>2, <1>3, Kinds

--------------------------------------------------------------------------------
(* The timestamps.                                                         *)

\* What a program leaves alone, but for its step on the timestamps.
LEMMA Untouched ==
  ASSUME NEW c \in CPUs, UpdateHistogram(c) \/ UpdateGlobal(c) \/ Account(c)
  PROVE  UNCHANGED <<clock, hash, passed, arrival, stamps, owner, forgotten, measures>>
BY DEF UpdateHistogram, UpdateGlobal, Account, packets, tracking

\* A packet meets XDP before any other hook.
LEMMA XDPIsFirst ==
  ASSUME TypeOK, NEW c \in CPUs, NEW p \in Packets, NEW j \in Ifaces, Enter(c, p, XDP, j)
  PROVE  passed[p] = XDP
<1>1. passed[p] \in {0, 1, 2, 3}
  BY DEF TypeOK, Hooks, XDP, TCIngress, TCEgress
<1>2. passed[p] <= 0
  BY DEF Enter, XDP
<1> QED
  BY <1>1, <1>2 DEF XDP

LEMMA EntriesStep ==
  ASSUME IInv, [Next]_vars
  PROVE  Entries'
<1>t. TypeOK /\ Locals /\ Entries /\ Fresh
  BY DEF IInv
<1>q. ASSUME UNCHANGED <<hash, arrival, stamps, owner>>
      PROVE  Entries'
  BY <1>q, <1>t DEF Entries, Entry
<1>1. ASSUME NEW c \in CPUs, NEW p \in Packets, NEW hook \in Hooks, NEW j \in Ifaces, Enter(c, p, hook, j)
      PROVE  Entries'
  <2>1. UNCHANGED <<hash, stamps, owner>>
    BY <1>1 DEF Enter, tracking
  <2>2. \A q \in Packets : arrival'[q] = arrival[q] \/ (q = p /\ passed[p] = XDP)
    <3>1. arrival' \in {arrival, [arrival EXCEPT ![p] = clock]}
      BY <1>1 DEF Enter
    <3>2. arrival' # arrival => hook = XDP
      BY <1>1 DEF Enter
    <3>3. hook = XDP => passed[p] = XDP
      BY <1>1, <1>t, XDPIsFirst
    <3> QED
      BY <3>1, <3>2, <3>3, <1>t DEF TypeOK
  <2>3. ASSUME NEW h \in Hashes
        PROVE  Entry(h)'
    <3>1. Entry(h)
      BY <1>t DEF Entries
    <3>2. owner[h] # None => owner[h] \in Packets /\ passed[owner[h]] # XDP
      BY <1>t DEF Fresh, Tracked, TypeOK
    <3>3. owner[h] # None => arrival'[owner[h]] = arrival[owner[h]]
      BY <2>2, <3>2
    <3> QED
      BY <2>1, <3>1, <3>3 DEF Entry
  <2> QED
    BY <2>3 DEF Entries
<1>2. ASSUME NEW c \in CPUs, Stamp(c)
      PROVE  Entries'
  <2>1. LocalOK(c) /\ pc[c] = "stamp"
    BY <1>2, <1>t DEF Stamp, Locals, Busy
  <2>2. /\ run[c].pkt # None /\ run[c].now # 0
        /\ arrival[run[c].pkt] = run[c].now
    BY <2>1, <1>t, Numbers DEF LocalOK, TypeOK
  <2>3. UNCHANGED <<hash, arrival>> /\ Key(c) = hash[run[c].pkt][XDP]
    BY <1>2, <2>1 DEF Stamp, packets, LocalOK, Key
  <2>5. ASSUME NEW g \in Hashes
        PROVE  Entry(g)'
    <3>1. CASE g = Key(c) /\ stamps'[g] = run[c].now /\ owner'[g] = run[c].pkt
      BY <2>2, <2>3, <3>1 DEF Entry
    <3>2. CASE stamps'[g] = 0 /\ owner'[g] = None
      BY <3>2 DEF Entry
    <3>3. CASE stamps'[g] = stamps[g] /\ owner'[g] = owner[g]
      <4>1. Entry(g)
        BY <1>t DEF Entries
      <4> QED
        BY <2>3, <3>3, <4>1 DEF Entry
    <3> QED
      BY <1>2, <1>t, <3>1, <3>2, <3>3, StampEntries
  <2> QED
    BY <2>5 DEF Entries
<1>3. ASSUME NEW c \in CPUs, Lookup(c)
      PROVE  Entries'
  BY <1>3, <1>q DEF Lookup, packets, tracking
<1>4. ASSUME NEW c \in CPUs, UpdateHistogram(c) \/ UpdateGlobal(c) \/ Account(c)
      PROVE  Entries'
  BY <1>4, <1>q, Untouched
<1>5. ASSUME NEW c \in CPUs, Delete(c)
      PROVE  Entries'
  <2>1. UNCHANGED <<hash, arrival>>
    BY <1>5 DEF Delete, packets
  <2>2. /\ stamps' = [stamps EXCEPT ![Key(c)] = 0]
        /\ owner' = [owner EXCEPT ![Key(c)] = None]
    BY <1>5 DEF Delete
  <2>3. ASSUME NEW g \in Hashes
        PROVE  Entry(g)'
    <3>1. CASE g = Key(c)
      <4>1. stamps'[g] = 0 /\ owner'[g] = None
        BY <2>2, <3>1, <1>t DEF TypeOK
      <4> QED
        BY <4>1 DEF Entry
    <3>2. CASE g # Key(c)
      <4>1. stamps'[g] = stamps[g] /\ owner'[g] = owner[g]
        BY <2>2, <3>2, <1>t DEF TypeOK
      <4>2. Entry(g)
        BY <1>t DEF Entries
      <4> QED
        BY <2>1, <4>1, <4>2 DEF Entry
    <3> QED
      BY <3>1, <3>2
  <2> QED
    BY <2>3 DEF Entries
<1>6. CASE Quiet
  BY <1>6, <1>q DEF Quiet
<1> QED
  BY <1>1, <1>2, <1>3, <1>4, <1>5, <1>6, Kinds

LEMMA FreshStep ==
  ASSUME IInv, [Next]_vars
  PROVE  Fresh'
<1>t. TypeOK /\ Locals /\ Apart /\ Entries /\ Fresh
  BY DEF IInv
<1>n. pc \in [CPUs -> {"idle", "stamp", "lookup", "histogram", "global", "delete", "account"}]
  BY <1>t DEF TypeOK
<1>p. ASSUME NEW c \in CPUs,
             Stamp(c) \/ Lookup(c) \/ UpdateHistogram(c) \/ UpdateGlobal(c) \/ Delete(c) \/ Account(c)
      PROVE  passed' = passed /\ \A p \in Packets : Stamping(p)' => Stamping(p) /\ p # run[c].pkt
  <2>1. Proceeds(c) /\ passed' = passed
    BY <1>p, <1>t, ProgramProceeds
  <2>2. ASSUME NEW p \in Packets, NEW d \in CPUs, pc'[d] = "stamp", run'[d].pkt = p
        PROVE  Stamping(p) /\ p # run[c].pkt
    <3>1. d # c
      BY <2>1, <2>2 DEF Proceeds
    <3>2. pc[d] = "stamp" /\ run[d].pkt = p
      BY <2>1, <2>2, <3>1 DEF Proceeds
    <3>3. p # run[c].pkt
      BY <3>1, <3>2, <2>1, <1>t DEF Apart, Proceeds, Busy
    <3> QED
      BY <3>2, <3>3 DEF Stamping
  <2> QED
    BY <2>1, <2>2 DEF Stamping
<1>1. ASSUME NEW c \in CPUs, NEW p \in Packets, NEW hook \in Hooks, NEW j \in Ifaces, Enter(c, p, hook, j)
      PROVE  Fresh'
  <2>1. UNCHANGED <<owner, measures>>
    BY <1>1 DEF Enter, tracking
  <2>2. passed' = [passed EXCEPT ![p] = hook + 1]
    BY <1>1 DEF Enter
  <2>3. ASSUME NEW q \in Packets, Stamping(q)'
        PROVE  Stamping(q) \/ passed[q] = XDP
    <3>1. PICK d \in CPUs : pc'[d] = "stamp" /\ run'[d].pkt = q
      BY <2>3 DEF Stamping
    <3>2. CASE pc[d] = "stamp" /\ run[d].pkt = q
      BY <3>2 DEF Stamping
    <3>3. CASE ~(pc[d] = "stamp" /\ run[d].pkt = q)
      <4>1. /\ pc' = [pc EXCEPT ![c] = IF hook = XDP THEN "stamp" ELSE "lookup"]
            /\ run' = [run EXCEPT ![c] = [pkt |-> p, hook |-> hook, ifindex |-> j,
                                          now |-> clock, latency |-> 0, from |-> None]]
        BY <1>1, <3>1, <3>3 DEF Enter
      <4>2. d = c /\ hook = XDP
        BY <4>1, <3>1, <3>3, <1>t DEF TypeOK
      <4>3. q = p
        BY <4>1, <4>2, <3>1, <1>t DEF TypeOK
      <4> QED
        BY <1>1, <4>2, <4>3, <1>t, XDPIsFirst
    <3> QED
      BY <3>2, <3>3
  <2>4. ASSUME NEW q \in Packets, passed'[q] = XDP
        PROVE  passed[q] = XDP
    <3>1. hook + 1 # XDP
      BY DEF Hooks, XDP, TCIngress, TCEgress
    <3> QED
      BY <2>2, <2>4, <3>1, <1>t DEF TypeOK
  <2> QED
    BY <2>1, <2>3, <2>4, <1>t DEF Fresh, Tracked
<1>2. ASSUME NEW c \in CPUs, Stamp(c)
      PROVE  Fresh'
  <2>1. measures' = measures /\ pc[c] = "stamp"
    BY <1>2 DEF Stamp
  <2>2. LocalOK(c)
    BY <2>1, <1>t DEF Locals, Busy
  <2>3. \A h \in Hashes : owner'[h] \in {owner[h], run[c].pkt, None}
    BY <1>2, <1>t, StampEntries
  <2>4. ASSUME NEW p \in Packets, passed'[p] = XDP \/ Stamping(p)'
        PROVE  (passed[p] = XDP \/ Stamping(p)) /\ p # run[c].pkt
    <3>1. passed[run[c].pkt] # XDP
      BY <2>2, <1>t DEF LocalOK, TypeOK, Local, Hooks, XDP, TCIngress, TCEgress
    <3> QED
      BY <1>2, <1>p, <2>4, <3>1
  <2>5. ASSUME NEW p \in Packets, passed'[p] = XDP \/ Stamping(p)'
        PROVE  ~Tracked(p)' /\ \A d \in CPUs : measures'[d][p] = 0
    <3>1. ~Tracked(p) /\ \A d \in CPUs : measures[d][p] = 0
      BY <2>4, <2>5, <1>t DEF Fresh
    <3> QED
      BY <2>1, <2>3, <2>4, <2>5, <3>1, Numbers DEF Tracked
  <2> QED
    BY <2>5 DEF Fresh
<1>3. ASSUME NEW c \in CPUs, Lookup(c)
      PROVE  Fresh'
  <2>1. owner' = owner /\ pc[c] = "lookup"
    BY <1>3 DEF Lookup, tracking
  <2>2. Key(c) \in Hashes
    BY <2>1, <1>t DEF Locals, LocalOK, Busy
  <2>3. \/ measures' = measures
        \/ measures' = [measures EXCEPT ![c][owner[Key(c)]] = @ + 1]
    BY <1>3 DEF Lookup
  <2>4. ASSUME NEW p \in Packets, passed'[p] = XDP \/ Stamping(p)'
        PROVE  ~Tracked(p)' /\ \A d \in CPUs : measures'[d][p] = 0
    <3>1. passed[p] = XDP \/ Stamping(p)
      BY <1>3, <1>p, <2>4
    <3>2. ~Tracked(p) /\ \A d \in CPUs : measures[d][p] = 0
      BY <3>1, <1>t DEF Fresh
    <3>3. owner[Key(c)] # p
      BY <2>2, <3>2 DEF Tracked
    <3>4. \A d \in CPUs : measures'[d][p] = measures[d][p]
      <4>1. CASE measures' = measures
        BY <4>1
      <4>2. CASE measures' = [measures EXCEPT ![c][owner[Key(c)]] = @ + 1]
        <5>1. \A d \in CPUs \ {c} : measures'[d] = measures[d]
          BY <4>2, <1>t DEF TypeOK
        <5>2. measures'[c][p] = measures[c][p]
          BY <4>2, <3>3, <1>t DEF TypeOK
        <5> QED
          BY <5>1, <5>2
      <4> QED
        BY <2>3, <4>1, <4>2
    <3> QED
      BY <2>1, <3>2, <3>4 DEF Tracked
  <2> QED
    BY <2>4 DEF Fresh
<1>4. ASSUME NEW c \in CPUs, UpdateHistogram(c) \/ UpdateGlobal(c) \/ Account(c)
      PROVE  Fresh'
  BY <1>4, <1>p, <1>t, Untouched DEF Fresh, Tracked
<1>5. ASSUME NEW c \in CPUs, Delete(c)
      PROVE  Fresh'
  <2>1. measures' = measures
    BY <1>5 DEF Delete
  <2>2. \A h \in Hashes : owner'[h] \in {owner[h], None}
    BY <1>5, <1>t DEF Delete, TypeOK
  <2> QED
    BY <1>5, <1>p, <2>1, <2>2, <1>t, Numbers DEF Fresh, Tracked
<1>6. CASE Quiet /\ UNCHANGED <<pc, run>>
  BY <1>6, <1>t DEF Quiet, Fresh, Tracked, Stamping
<1> QED
  BY <1>1, <1>2, <1>3, <1>4, <1>5, <1>6, Kinds

\* A packet with no entry was not stamped, has been given up, or is done.
LEMMA KeptStep ==
  ASSUME IInv, [Next]_vars
  PROVE  Kept'
<1>t. TypeOK /\ Locals /\ Apart /\ Kept
  BY DEF IInv
<1>n. pc \in [CPUs -> {"idle", "stamp", "lookup", "histogram", "global", "delete", "account"}]
  BY <1>t DEF TypeOK
\* A program leaves a reason as it is, but for the stamp of its packet.
<1>p. ASSUME NEW c \in CPUs, NEW p \in Packets, Reason(p), forgotten \subseteq forgotten',
             Stamp(c) \/ Lookup(c) \/ UpdateHistogram(c) \/ UpdateGlobal(c) \/ Delete(c) \/ Account(c),
             pc[c] = "stamp" => run[c].pkt # p
      PROVE  Reason(p)'
  <2>1. Proceeds(c) /\ UNCHANGED <<hash, passed, arrival>>
    BY <1>p, <1>t, ProgramProceeds
  <2>2. CASE Stamping(p)
    <3>1. PICK d \in CPUs : pc[d] = "stamp" /\ run[d].pkt = p
      BY <2>2 DEF Stamping
    <3>2. d # c
      BY <3>1, <1>p
    <3>3. pc'[d] = "stamp" /\ run'[d].pkt = p
      BY <2>1, <3>1, <3>2 DEF Proceeds
    <3> QED
      BY <3>3 DEF Stamping, Reason
  <2>3. \A d \in CPUs : pc'[d] = "lookup" => pc[d] = "lookup" /\ run'[d] = run[d]
    <3>1. pc'[c] # "lookup"
      BY <2>1 DEF Proceeds
    <3> QED
      BY <2>1, <3>1 DEF Proceeds
  <2> QED
    BY <2>1, <2>2, <2>3, <1>p DEF Reason, DeletedByOthers
<1>1. ASSUME NEW c \in CPUs, NEW p \in Packets, NEW hook \in Hooks, NEW j \in Ifaces, Enter(c, p, hook, j)
      PROVE  Kept'
  <2>1. UNCHANGED <<hash, stamps, forgotten>> /\ pc[c] = "idle"
    BY <1>1 DEF Enter, tracking
  <2>2. passed' = [passed EXCEPT ![p] = hook + 1] /\ passed[p] # 3 /\ ~Stamping(p)
    <3>1. passed[p] <= hook /\ hook <= 2
      BY <1>1 DEF Enter, Hooks, XDP, TCIngress, TCEgress
    <3>2. ~Stamping(p)
      BY <1>1 DEF Enter, Stamping
    <3> QED
      BY <1>1, <3>1, <3>2, <1>t DEF Enter, TypeOK, Hooks, XDP, TCIngress, TCEgress
  <2>3. ASSUME NEW q \in Packets, Lost(q)'
        PROVE  Reason(q)'
    <3>1. Reason(q)
      BY <2>1, <2>3, <1>t DEF Kept, Lost, StoredByOthers
    <3>2. arrival' \in {arrival, [arrival EXCEPT ![p] = clock]}
      BY <1>1 DEF Enter
    <3>3. CASE q = p
      <4>1. arrival[p] = 0 \/ hash[p][XDP] \in forgotten \/ DeletedByOthers(p, hash[p][XDP])
        BY <2>2, <3>1, <3>3 DEF Reason
      <4>2. CASE hook # XDP
        <5>1. arrival' = arrival
          BY <1>1, <4>2 DEF Enter
        <5> QED
          BY <2>1, <3>3, <4>1, <5>1 DEF Reason, DeletedByOthers
      <4>3. CASE hook = XDP
        <5>1. /\ pc' = [pc EXCEPT ![c] = IF hook = XDP THEN "stamp" ELSE "lookup"]
              /\ run' = [run EXCEPT ![c] = [pkt |-> p, hook |-> hook, ifindex |-> j,
                                            now |-> clock, latency |-> 0, from |-> None]]
          <6>1. hash[p][XDP] # 0
            BY <2>1, <2>3, <3>3 DEF Lost
          <6> QED
            BY <1>1, <4>3, <6>1 DEF Enter
        <5>2. pc'[c] = "stamp" /\ run'[c].pkt = p
          BY <4>3, <5>1, <1>t DEF TypeOK
        <5> QED
          BY <3>3, <5>2 DEF Stamping, Reason
      <4> QED
        BY <4>2, <4>3
    <3>4. CASE q # p
      <4>1. arrival'[q] = arrival[q] /\ passed'[q] = passed[q]
        BY <2>2, <3>2, <3>4, <1>t DEF TypeOK
      <4>2. \A d \in CPUs \ {c} : pc'[d] = pc[d] /\ run'[d] = run[d]
        BY <1>1, <1>t DEF Enter, TypeOK
      <4>3. Stamping(q) => Stamping(q)'
        BY <2>1, <4>2 DEF Stamping
      <4>4. pc'[c] = "lookup" => run'[c].pkt = p
        BY <1>1, <2>1, <1>t DEF Enter, TypeOK
      <4> QED
        BY <2>1, <3>1, <3>4, <4>1, <4>2, <4>3, <4>4 DEF Reason, DeletedByOthers
    <3> QED
      BY <3>3, <3>4
  <2>4. \A q \in Packets : Lost(q)' => Reason(q)'
    BY <2>3
  <2> QED
    BY <2>4 DEF Kept
<1>2. ASSUME NEW c \in CPUs, Stamp(c)
      PROVE  Kept'
  <2>1. UNCHANGED <<hash, passed, arrival>> /\ pc[c] = "stamp"
    BY <1>2 DEF Stamp, packets
  <2>2. LocalOK(c)
    BY <2>1, <1>t DEF Locals, Busy
  <2>3. Key(c) = hash[run[c].pkt][XDP] /\ run[c].pkt \in Packets
    BY <2>1, <2>2 DEF LocalOK, Key
  <2>4. run[c].now # 0
    BY <2>2, <1>t, Numbers DEF LocalOK, TypeOK
  <2>5. ASSUME NEW q \in Packets, Lost(q)'
        PROVE  Reason(q)'
    <3> DEFINE h == hash[q][XDP]
    <3>1. h \in Hashes /\ h # 0 /\ ~StoredByOthers(q, h) /\ stamps'[h] = 0
      BY <2>1, <2>5, <1>t DEF TypeOK, Lost, StoredByOthers, Hooks
    <3>2. CASE h \in forgotten'
      BY <2>1, <3>2 DEF Reason
    <3>3. CASE h \notin forgotten'
      <4>1. stamps[h] = 0 /\ h # Key(c)
        BY <1>2, <1>t, <2>4, <3>1, <3>3, StampEntries
      <4>2. Reason(q)
        BY <3>1, <4>1, <1>t DEF Kept, Lost
      <4>3. run[c].pkt # q /\ forgotten \subseteq forgotten'
        BY <1>2, <1>t, <2>3, <4>1, StampEntries
      <4> QED
        BY <1>2, <1>p, <4>2, <4>3
    <3> QED
      BY <3>2, <3>3
  <2>6. \A q \in Packets : Lost(q)' => Reason(q)'
    BY <2>5
  <2> QED
    BY <2>6 DEF Kept
<1>3. ASSUME NEW c \in CPUs, UNCHANGED <<hash, stamps, forgotten>>, pc[c] # "stamp",
             Lookup(c) \/ UpdateHistogram(c) \/ UpdateGlobal(c) \/ Account(c)
      PROVE  Kept'
  <2>1. ASSUME NEW q \in Packets, Lost(q)'
        PROVE  Reason(q)'
    <3>1. Reason(q)
      BY <2>1, <1>3, <1>t DEF Kept, Lost, StoredByOthers
    <3> QED
      BY <1>3, <1>p, <3>1
  <2>2. \A q \in Packets : Lost(q)' => Reason(q)'
    BY <2>1
  <2> QED
    BY <2>2 DEF Kept
<1>4. ASSUME NEW c \in CPUs, Lookup(c) \/ UpdateHistogram(c) \/ UpdateGlobal(c) \/ Account(c)
      PROVE  Kept'
  <2>1. UNCHANGED <<hash, stamps, forgotten>> /\ pc[c] # "stamp"
    BY <1>4 DEF Lookup, UpdateHistogram, UpdateGlobal, Account, packets, tracking
  <2> QED
    BY <1>3, <1>4, <2>1
<1>5. ASSUME NEW c \in CPUs, Delete(c)
      PROVE  Kept'
  <2>1. UNCHANGED <<hash, passed, arrival, forgotten>> /\ pc[c] = "delete"
    BY <1>5 DEF Delete, packets
  <2>2. LocalOK(c) /\ Proceeds(c)
    BY <2>1, <1>5, <1>t, ProgramProceeds DEF Locals, Busy
  <2>3. passed[run[c].pkt] = 3
    BY <2>1, <2>2 DEF LocalOK, TCEgress
  <2>4. ASSUME NEW q \in Packets, Lost(q)'
        PROVE  Reason(q)'
    <3> DEFINE h == hash[q][XDP]
    <3>1. h \in Hashes /\ h # 0 /\ ~StoredByOthers(q, h) /\ stamps'[h] = 0
      BY <2>1, <2>4, <1>t DEF TypeOK, Lost, StoredByOthers, Hooks
    <3>2. CASE q = run[c].pkt
      <4>1. ASSUME NEW d \in CPUs, pc'[d] = "lookup" /\ run'[d].pkt = q
            PROVE  FALSE
        <5>1. d # c
          BY <2>1, <2>2, <4>1 DEF Proceeds
        <5>2. pc[d] = "lookup" /\ run[d].pkt = q
          BY <2>2, <4>1, <5>1 DEF Proceeds
        <5> QED
          BY <2>1, <3>2, <5>1, <5>2, <1>t DEF Apart, Busy
      <4> QED
        BY <2>1, <2>3, <3>2, <4>1 DEF Reason
    <3>3. CASE q # run[c].pkt /\ h = Key(c)
      <4>1. run[c].pkt \in Packets /\ hash[run[c].pkt][TCEgress] = h
        BY <2>1, <2>2, <3>3 DEF LocalOK, Key
      <4> QED
        BY <2>1, <3>3, <4>1 DEF Reason, DeletedByOthers
    <3>4. CASE h # Key(c)
      <4>1. stamps[h] = 0
        BY <1>5, <3>1, <3>4, <1>t DEF Delete, TypeOK
      <4>2. Reason(q)
        BY <3>1, <4>1, <1>t DEF Kept, Lost
      <4> QED
        BY <1>5, <1>p, <2>1, <4>2
    <3> QED
      BY <3>2, <3>3, <3>4
  <2>5. \A q \in Packets : Lost(q)' => Reason(q)'
    BY <2>4
  <2> QED
    BY <2>5 DEF Kept
<1>6. CASE Quiet /\ UNCHANGED <<pc, run>>
  BY <1>6, <1>t DEF Quiet, Kept, Lost, Reason, StoredByOthers, DeletedByOthers, Stamping
<1> QED
  BY <1>1, <1>2, <1>4, <1>5, <1>6, Kinds

LEMMA OnceStep ==
  ASSUME IInv, [Next]_vars
  PROVE  Once'
<1>t. TypeOK /\ Locals /\ Apart /\ Entries /\ Fresh /\ Once
  BY DEF IInv
<1>n. pc \in [CPUs -> {"idle", "stamp", "lookup", "histogram", "global", "delete", "account"}]
  BY <1>t DEF TypeOK
<1> DEFINE At(d, p) == measures[d][p] = 1 /\ (~Tracked(p) \/ Measuring(d, p))
<1>1. ASSUME NEW c \in CPUs, NEW p \in Packets, NEW hook \in Hooks, NEW j \in Ifaces, Enter(c, p, hook, j)
      PROVE  Once'
  <2>1. UNCHANGED <<hash, owner, measures>> /\ pc[c] = "idle"
    BY <1>1 DEF Enter, tracking
  <2>2. \A d \in CPUs \ {c} : pc'[d] = pc[d] /\ run'[d] = run[d]
    BY <1>1, <1>t DEF Enter, TypeOK
  <2>3. \A d \in CPUs, q \in Packets : Measuring(d, q) => Measuring(d, q)'
    BY <2>1, <2>2 DEF Measuring, Key
  <2> QED
    BY <2>1, <2>3, <1>t DEF Once, Tracked
<1>2. ASSUME NEW c \in CPUs, Stamp(c)
      PROVE  Once'
  <2>1. measures' = measures /\ hash' = hash /\ pc[c] = "stamp" /\ Proceeds(c)
    BY <1>2, <1>t, ProgramProceeds DEF Stamp, packets
  <2>2. \A h \in Hashes : owner'[h] \in {owner[h], run[c].pkt, None}
    BY <1>2, <1>t, StampEntries
  <2>3. run[c].pkt \in Packets /\ Stamping(run[c].pkt)
    BY <2>1, <1>t DEF Locals, LocalOK, Busy, Stamping
  <2>4. \A d \in CPUs : measures[d][run[c].pkt] = 0
    BY <2>3, <1>t DEF Fresh
  <2>5. \A q \in Packets \ {run[c].pkt} : ~Tracked(q) => ~Tracked(q)'
    BY <2>2, Numbers DEF Tracked
  <2>6. \A d \in CPUs, q \in Packets : Measuring(d, q) => Measuring(d, q)'
    BY <2>1 DEF Measuring, Key, Proceeds
  <2> QED
    BY <2>1, <2>4, <2>5, <2>6, <1>t DEF Once
<1>3. ASSUME NEW c \in CPUs, Lookup(c)
      PROVE  Once'
  <2> DEFINE h == Key(c)
  <2>1. owner' = owner /\ hash' = hash /\ pc[c] = "lookup" /\ Proceeds(c)
    BY <1>3, <1>t, ProgramProceeds DEF Lookup, packets, tracking
  <2>2. h \in Hashes
    BY <2>1, <1>t DEF Locals, LocalOK, Busy
  <2>3. \A d \in CPUs, q \in Packets : Measuring(d, q) => d # c /\ Measuring(d, q)'
    BY <2>1 DEF Measuring, Key, Proceeds
  <2>4. CASE measures' = measures
    BY <2>1, <2>3, <2>4, <1>t DEF Once, Tracked
  <2>5. CASE /\ stamps[h] # 0 /\ run[c].hook = TCEgress /\ pc' = [pc EXCEPT ![c] = "histogram"]
             /\ measures' = [measures EXCEPT ![c][owner[h]] = @ + 1]
    <3>1. owner[h] \in Packets /\ hash[owner[h]][XDP] = h /\ Tracked(owner[h])
      BY <2>2, <2>5, <1>t DEF Entries, Entry, TypeOK, Tracked
    <3>2. measures[c][owner[h]] = 0
      BY <2>3, <3>1, <1>t DEF Once
    <3>3. measures'[c][owner[h]] = 1
      BY <2>5, <3>1, <3>2, <1>t DEF TypeOK
    <3>4. ASSUME NEW q \in Packets, q = owner[h]
          PROVE  Measuring(c, q)'
      <4>1. pc'[c] = "histogram"
        BY <2>5, <1>n
      <4>2. run'[c].hook = TCEgress /\ run'[c].pkt = run[c].pkt
        BY <2>1, <2>5, <4>1 DEF Proceeds
      <4> QED
        BY <2>1, <2>5, <3>1, <3>4, <4>1, <4>2 DEF Measuring, Key
    <3>5. ASSUME NEW d \in CPUs, NEW q \in Packets, d # c \/ q # owner[h]
          PROVE  measures'[d][q] = measures[d][q]
      <4>1. \A e \in CPUs \ {c} : measures'[e] = measures[e]
        BY <2>5, <1>t DEF TypeOK
      <4>2. q # owner[h] => measures'[c][q] = measures[c][q]
        BY <2>5, <1>t DEF TypeOK
      <4> QED
        BY <3>5, <4>1, <4>2
    <3>6. ASSUME NEW d \in CPUs, NEW q \in Packets
          PROVE  measures'[d][q] = 0 \/ At(d, q)'
      <4>1. CASE d = c /\ q = owner[h]
        BY <3>3, <3>4, <4>1
      <4>2. CASE d # c \/ q # owner[h]
        <5>1. measures[d][q] = 0 \/ At(d, q)
          BY <1>t DEF Once
        <5>2. measures'[d][q] = measures[d][q]
          BY <3>5, <4>2
        <5> QED
          BY <2>1, <2>3, <5>1, <5>2 DEF Tracked
      <4> QED
        BY <4>1, <4>2
    <3> QED
      BY <3>6 DEF Once
  <2> QED
    BY <1>3, <2>4, <2>5 DEF Lookup
<1>4. ASSUME NEW c \in CPUs, UpdateHistogram(c) \/ UpdateGlobal(c) \/ Account(c)
      PROVE  Once'
  <2>1. UNCHANGED <<hash, owner, measures>> /\ Proceeds(c)
    BY <1>4, <1>t, Untouched, ProgramProceeds
  <2>2. \A d \in CPUs, q \in Packets : Measuring(d, q) => Measuring(d, q)'
    <3>1. pc[c] \in {"histogram", "global", "account"}
      BY <1>4 DEF UpdateHistogram, UpdateGlobal, Account
    <3>2. pc[c] \in {"histogram", "global"} /\ run[c].hook = TCEgress =>
            pc'[c] \in {"global", "delete"}
      BY <1>4, <1>n DEF UpdateHistogram, UpdateGlobal, Account
    <3> QED
      BY <2>1, <3>1, <3>2 DEF Measuring, Key, Proceeds
  <2> QED
    BY <2>1, <2>2, <1>t DEF Once, Tracked
<1>5. ASSUME NEW c \in CPUs, Delete(c)
      PROVE  Once'
  <2>1. measures' = measures /\ hash' = hash /\ pc[c] = "delete" /\ Proceeds(c)
    BY <1>5, <1>t, ProgramProceeds DEF Delete, packets
  <2>2. owner' = [owner EXCEPT ![Key(c)] = None]
    BY <1>5 DEF Delete
  <2>3. \A q \in Packets : ~Tracked(q) => ~Tracked(q)'
    BY <2>2, <1>t, Numbers DEF Tracked, TypeOK
  <2>4. ASSUME NEW q \in Packets, hash[q][XDP] = Key(c)
        PROVE  ~Tracked(q)'
    <3>1. ASSUME NEW g \in Hashes, owner'[g] = q
          PROVE  FALSE
      <4>1. g # Key(c)
        BY <2>2, <3>1, <1>t, Numbers DEF TypeOK
      <4>2. owner[g] = q
        BY <2>2, <3>1, <4>1, <1>t DEF TypeOK
      <4>3. hash[q][XDP] = g
        BY <4>2, <1>t, Numbers DEF Entries, Entry
      <4> QED
        BY <2>4, <4>1, <4>3
    <3> QED
      BY <3>1 DEF Tracked
  <2>5. \A d \in CPUs, q \in Packets : Measuring(d, q) => d = c \/ Measuring(d, q)'
    BY <2>1 DEF Measuring, Key, Proceeds
  <2>6. \A q \in Packets : Measuring(c, q) => ~Tracked(q)'
    BY <2>4 DEF Measuring, Key
  <2> QED
    BY <2>1, <2>3, <2>5, <2>6, <1>t DEF Once
<1>6. CASE Quiet /\ UNCHANGED <<pc, run>>
  BY <1>6, <1>t DEF Quiet, Once, Tracked, Measuring, Key
<1> QED
  BY <1>1, <1>2, <1>3, <1>4, <1>5, <1>6, Kinds

--------------------------------------------------------------------------------
(* What follows of a program behind its lookup.                            *)

\* The latency of a TC hook is exact, or there was no entry and a reason for it.
Outcome(c) ==
  LET p == run[c].pkt  h == Key(c) IN
  \/ run[c].from = p /\ hash[p][XDP] = h /\ run[c].latency = run[c].now - arrival[p]
  \/ /\ run[c].from = None
     /\ \/ arrival[p] = 0 \/ hash[p][XDP] # h
        \/ h \in forgotten \/ DeletedByOthers(p, h)

LEMMA ExactInit == Init => UniqueIsExact
BY DEF Init, UniqueIsExact

LEMMA ExactStep ==
  ASSUME IInv, UniqueIsExact, [Next]_vars
  PROVE  UniqueIsExact'
<1>t. TypeOK /\ Locals /\ Apart /\ Entries /\ Kept
  BY DEF IInv
<1>n. /\ pc \in [CPUs -> {"idle", "stamp", "lookup", "histogram", "global", "delete", "account"}]
      /\ run \in [CPUs -> Local]
  BY <1>t DEF TypeOK
<1> DEFINE After(d) == /\ pc[d] \in {"histogram", "global", "delete", "account"}
                       /\ run[d].hook # XDP /\ ~StoredByOthers(run[d].pkt, Key(d))
<1>0. \A d \in CPUs : After(d) => Outcome(d)
  BY DEF UniqueIsExact, Outcome
\* Nothing else is changed for a CPU past its lookup.
<1>k. ASSUME NEW d \in CPUs, After(d), run'[d] = run[d], hash' = hash, forgotten \subseteq forgotten',
             run[d].pkt \in Packets => arrival'[run[d].pkt] = arrival[run[d].pkt]
      PROVE  Outcome(d)'
  <2>1. run[d].pkt \in Packets
    BY <1>k, <1>t DEF Locals, LocalOK, Busy
  <2> QED
    BY <1>0, <1>k, <2>1 DEF Outcome, DeletedByOthers, Key
<1>1. ASSUME NEW c \in CPUs, NEW p \in Packets, NEW hook \in Hooks, NEW j \in Ifaces, Enter(c, p, hook, j),
             NEW d \in CPUs, After(d)'
      PROVE  Outcome(d)'
  <2>1. hash' = hash /\ forgotten' = forgotten /\ pc[c] = "idle"
    BY <1>1 DEF Enter, tracking
  <2>2. pc'[c] \in {"idle", "stamp", "lookup"}
    BY <1>1, <1>n DEF Enter
  <2>3. d # c
    BY <1>1, <2>2
  <2>4. pc'[d] = pc[d] /\ run'[d] = run[d]
    BY <1>1, <1>n, <2>3 DEF Enter
  <2>5. After(d)
    BY <1>1, <2>1, <2>4 DEF StoredByOthers, Key
  <2>6. run[d].pkt # p
    BY <1>1, <2>5 DEF Enter
  <2>7. arrival' \in {arrival, [arrival EXCEPT ![p] = clock]}
    BY <1>1 DEF Enter
  <2>8. run[d].pkt \in Packets => arrival'[run[d].pkt] = arrival[run[d].pkt]
    BY <2>6, <2>7, <1>t DEF TypeOK
  <2> QED
    BY <1>k, <2>1, <2>4, <2>5, <2>8
<1>2. ASSUME NEW c \in CPUs, NEW d \in CPUs, After(d)',
             Stamp(c) \/ UpdateHistogram(c) \/ UpdateGlobal(c) \/ Delete(c) \/ Account(c)
      PROVE  Outcome(d)'
  <2>1. Proceeds(c) /\ UNCHANGED <<hash, passed, arrival>>
    BY <1>2, <1>t, ProgramProceeds
  <2>2. forgotten \subseteq forgotten'
    BY <1>2, <1>t, StampEntries DEF UpdateHistogram, UpdateGlobal, Delete, Account, tracking
  <2>3. ~Account(c) => run' = run
    BY <1>2 DEF Stamp, UpdateHistogram, UpdateGlobal, Delete
  <2>4. Account(c) => pc'[c] = "idle"
    BY <1>n DEF Account
  <2>5. run'[d] = run[d]
    BY <1>2, <2>1, <2>3, <2>4 DEF Proceeds
  <2>6. After(d)
    <3>1. CASE d # c
      BY <1>2, <2>1, <2>5, <3>1 DEF Proceeds, StoredByOthers, Key
    <3>2. CASE d = c
      <4>1. pc[c] # "idle"
        BY <2>1 DEF Proceeds, Busy
      <4>2. pc[c] # "stamp"
        <5>1. pc[c] = "stamp" => run[c].hook = XDP
          BY <1>t DEF Locals, LocalOK, Busy
        <5> QED
          BY <1>2, <2>5, <3>2, <5>1
      <4>3. pc[c] # "lookup"
        BY <1>2 DEF Stamp, UpdateHistogram, UpdateGlobal, Delete, Account
      <4>4. pc[c] \in {"histogram", "global", "delete", "account"}
        BY <1>n, <4>1, <4>2, <4>3
      <4> QED
        BY <1>2, <2>1, <2>5, <3>2, <4>4 DEF StoredByOthers, Key
    <3> QED
      BY <3>1, <3>2
  <2> QED
    BY <1>k, <2>1, <2>2, <2>5, <2>6
<1>3. ASSUME NEW c \in CPUs, NEW d \in CPUs, After(d)', Lookup(c)
      PROVE  Outcome(d)'
  <2>1. Proceeds(c) /\ UNCHANGED <<hash, passed, arrival>> /\ forgotten' = forgotten /\ pc[c] = "lookup"
    BY <1>3, <1>t, ProgramProceeds DEF Lookup, tracking
  <2>2. CASE d # c
    <3>1. pc'[d] = pc[d] /\ run'[d] = run[d]
      BY <2>1, <2>2 DEF Proceeds
    <3>2. After(d)
      BY <1>3, <2>1, <3>1 DEF StoredByOthers, Key
    <3> QED
      BY <1>k, <2>1, <3>1, <3>2
  <2>3. CASE d = c
    <3> DEFINE p == run[c].pkt
               h == Key(c)
    <3>1. LocalOK(c)
      BY <2>1, <1>t DEF Locals, Busy
    <3>2. p \in Packets /\ h \in Hashes /\ h # 0 /\ run[c].from = None /\ arrival[p] < run[c].now
      BY <2>1, <3>1, Numbers DEF LocalOK
    <3>3. run'[c].pkt = p /\ run'[c].now = run[c].now /\ Key(c)' = h
      BY <1>3, <2>1, <2>3 DEF Proceeds, Key
    <3>4. ~StoredByOthers(p, h)
      BY <1>3, <2>1, <2>3, <3>3 DEF StoredByOthers
    <3> HIDE DEF h
    <3>5. CASE stamps[h] = 0
      <4>1. run' = run
        BY <1>3, <3>5 DEF Lookup, h
      <4>2. ~Stamping(p)
        BY <2>1, <1>t DEF Stamping, Apart, Busy
      <4>3. \/ arrival[p] = 0 \/ hash[p][XDP] # h \/ h \in forgotten \/ DeletedByOthers(p, h)
        BY <2>1, <3>2, <3>4, <3>5, <4>2, <1>t DEF Kept, Lost, Reason
      <4> QED
        BY <2>1, <2>3, <3>2, <3>3, <4>1, <4>3 DEF Outcome, DeletedByOthers
    <3>6. CASE stamps[h] # 0
      <4>1. owner[h] \in Packets /\ hash[owner[h]][XDP] = h /\ stamps[h] = arrival[owner[h]]
        BY <3>2, <3>6, <1>t DEF Entries, Entry, TypeOK
      <4>2. owner[h] = p
        BY <3>4, <4>1 DEF StoredByOthers
      <4>3. run' = [run EXCEPT ![c].latency = Minus(run[c].now, stamps[h]), ![c].from = owner[h]]
        BY <1>3, <3>6 DEF Lookup, h
      <4>4. run'[c].latency = Minus(run[c].now, stamps[h]) /\ run'[c].from = owner[h]
        BY <4>3, <1>n DEF Local
      <4>5. Minus(run[c].now, arrival[p]) = run[c].now - arrival[p]
        <5>1. /\ run[c].now \in Nat /\ arrival[p] \in Nat /\ arrival[p] <= run[c].now
              /\ run[c].now <= MaxUInt64
          BY <3>1, <3>2, <1>t, Numbers DEF LocalOK, TypeOK
        <5> QED
          BY <5>1, MinusIsUInt64
      <4> QED
        BY <2>1, <2>3, <3>3, <4>1, <4>2, <4>4, <4>5 DEF Outcome
    <3> QED
      BY <3>5, <3>6
  <2> QED
    BY <2>2, <2>3
<1>4. ASSUME NEW d \in CPUs, After(d)', Quiet, UNCHANGED <<pc, run>>
      PROVE  Outcome(d)'
  BY <1>0, <1>4 DEF Quiet, StoredByOthers, DeletedByOthers, Key, Outcome
<1>5. \A d \in CPUs : After(d)' => Outcome(d)'
  BY <1>1, <1>2, <1>3, <1>4, Kinds
<1> QED
  BY <1>5 DEF UniqueIsExact, Outcome

--------------------------------------------------------------------------------
(* Theorems.                                                               *)

LEMMA StepHolds ==
  ASSUME IInv, [Next]_vars
  PROVE  IInv'
BY TypeStep, LocalsStep, EntriesStep, FreshStep, KeptStep, OnceStep DEF IInv

LEMMA Invariant == Spec => []IInv
BY InitHolds, StepHolds, PTL DEF Spec

\* The maps and the locals of the programs keep the ranges of their C types, on
\* any number of CPUs and for any assignment of hashes to packets.
THEOREM TypeCorrect == Spec => []TypeOK
<1>1. IInv => TypeOK
  BY DEF IInv
<1> QED
  BY <1>1, Invariant, PTL

\* A hook whose hash no other packet had at XDP measures its packet against its
\* own arrival, or not at all because the packet met no XDP hook, its headers have
\* changed, the LRU map gave the entry up, or another packet's egress deleted it.
THEOREM UniqueMeasured == Spec => []UniqueIsExact
BY ExactInit, InitHolds, ExactStep, StepHolds, PTL DEF Spec

\* One CPU accounts for a timestamp at egress at most once, whatever the other
\* packets of that hash do to the entry.
THEOREM MeasuredOnce == Spec => []MeasuredOncePerCPU
<1>1. IInv => MeasuredOncePerCPU
  BY DEF IInv, Once, MeasuredOncePerCPU
<1> QED
  BY <1>1, Invariant, PTL

--------------------------------------------------------------------------------
(* The slots of the interfaces.                                            *)

\* What a slot holds as its extremes, of the latencies accounted for in it.
Extremes(slot, all) ==
  IF all = {} THEN slot.min \in {0, MaxUInt64} /\ slot.max = 0
  ELSE /\ slot.min \in all /\ slot.max \in all
       /\ \A l \in all : slot.min <= l /\ l <= slot.max

\* The slots of an interface are filled by its first packet.
SlotsInv ==
  /\ accounted \in [Ifaces -> [CPUs -> SUBSET (1 .. MaxUInt64)]]
  /\ known # {} => CPUs # {}
  /\ \A i \in Ifaces \ known, c \in CPUs : iface[i][c] = ZeroSlot /\ accounted[i][c] = {}
  /\ \A i \in Ifaces, c \in CPUs : Extremes(iface[i][c], accounted[i][c])

LEMMA SlotsInit == Init => SlotsInv
BY DEF Init, SlotsInv, Extremes, ZeroSlot

\* One more latency for what a CPU finds in its slot.
LEMMA ExtremesUpdated ==
  ASSUME TypeOK, SlotsInv, NEW c \in CPUs, run[c].ifindex \in Ifaces
  PROVE  Extremes(Updated(Found(c), run[c].latency),
                  accounted[run[c].ifindex][c] \cup ({run[c].latency} \ {0}))
<1> DEFINE i == run[c].ifindex
           l == run[c].latency
           all == accounted[i][c]
           slot == Found(c)
<1>1. l \in 0 .. MaxUInt64 /\ iface[i][c] \in Slot /\ MaxUInt64 \in Nat
  BY Numbers DEF TypeOK, Local
<1>2. /\ all \in SUBSET (1 .. MaxUInt64)
      /\ Extremes(iface[i][c], all)
      /\ i \notin known => all = {}
  BY DEF SlotsInv
<1>3. \/ slot = iface[i][c]
      \/ /\ i \notin known
         /\ slot.min = (IF l > 0 THEN l ELSE MaxUInt64) /\ slot.max = l
  BY DEF Found, ZeroSlot
<1>4. /\ Updated(slot, l).min = IF l > 0 /\ (l < slot.min \/ slot.min = 0) THEN l ELSE slot.min
      /\ Updated(slot, l).max = IF l > slot.max THEN l ELSE slot.max
  BY DEF Updated
<1>5. iface[i][c].min \in 0 .. MaxUInt64 /\ iface[i][c].max \in 0 .. MaxUInt64
  BY <1>1 DEF Slot
<1> DEFINE new == Updated(slot, l)
<1> SUFFICES Extremes(new, all \cup ({l} \ {0}))
  OBVIOUS
<1> HIDE DEF slot, i, l, all, new
<1>6. /\ new.min = (IF l > 0 /\ (l < slot.min \/ slot.min = 0) THEN l ELSE slot.min)
      /\ new.max = (IF l > slot.max THEN l ELSE slot.max)
  BY <1>4 DEF new
<1>7. CASE slot = iface[i][c] /\ all = {}
  <2>1. slot.min \in {0, MaxUInt64} /\ slot.max = 0
    BY <1>2, <1>7 DEF Extremes
  <2>2. CASE l = 0
    <3>1. all \cup ({l} \ {0}) = {} /\ new.min = slot.min /\ new.max = slot.max
      BY <1>6, <1>7, <2>1, <2>2
    <3> QED
      BY <3>1, <2>1 DEF Extremes
  <2>3. CASE l > 0
    <3>1. all \cup ({l} \ {0}) = {l} /\ new.min = l /\ new.max = l
      BY <1>1, <1>6, <1>7, <2>1, <2>3
    <3> QED
      BY <1>1, <3>1 DEF Extremes
  <2> QED
    BY <1>1, <2>2, <2>3
<1>8. CASE slot = iface[i][c] /\ all # {}
  <2>1. /\ slot.min \in all /\ slot.max \in all
        /\ \A x \in all : slot.min <= x /\ x <= slot.max
    BY <1>2, <1>8 DEF Extremes
  <2>2. slot.min \in 1 .. MaxUInt64 /\ slot.max \in 1 .. MaxUInt64
    BY <1>2, <2>1
  <2>3. CASE l = 0
    <3>1. all \cup ({l} \ {0}) = all /\ new.min = slot.min /\ new.max = slot.max
      BY <1>6, <2>2, <2>3
    <3> QED
      BY <3>1, <2>1, <1>8 DEF Extremes
  <2>4. CASE l > 0
    <3> DEFINE more == all \cup {l}
    <3>1. all \cup ({l} \ {0}) = more
      BY <2>4
    <3>2. new.min \in more /\ new.max \in more /\ more # {}
      BY <1>6, <2>1
    <3>3. ASSUME NEW x \in more PROVE new.min <= x /\ x <= new.max
      <4>1. CASE x = l
        <5>1. l \in Nat /\ new.min \in Nat /\ new.max \in Nat
          BY <1>1, <1>6, <2>2
        <5> QED
          BY <1>6, <2>2, <2>4, <4>1, <5>1
      <4>2. CASE x \in all
        <5>1. x \in 1 .. MaxUInt64 /\ slot.min <= x /\ x <= slot.max /\ l \in Nat
          BY <1>1, <1>2, <2>1, <4>2
        <5> QED
          BY <1>6, <2>2, <2>4, <5>1
      <4> QED
        BY <4>1, <4>2
    <3> HIDE DEF more
    <3> QED
      BY <3>1, <3>2, <3>3 DEF Extremes
  <2> QED
    BY <1>1, <2>3, <2>4
<1>9. CASE i \notin known /\ slot.min = (IF l > 0 THEN l ELSE MaxUInt64) /\ slot.max = l
  <2>1. all = {}
    BY <1>2, <1>9
  <2>2. CASE l = 0
    <3>1. all \cup ({l} \ {0}) = {} /\ new.min = MaxUInt64 /\ new.max = 0
      BY <1>6, <1>9, <2>1, <2>2
    <3> QED
      BY <3>1 DEF Extremes
  <2>3. CASE l > 0
    <3>1. all \cup ({l} \ {0}) = {l} /\ new.min = l /\ new.max = l
      BY <1>1, <1>6, <1>9, <2>1, <2>3
    <3> QED
      BY <1>1, <3>1 DEF Extremes
  <2> QED
    BY <1>1, <2>2, <2>3
<1> QED
  BY <1>3, <1>7, <1>8, <1>9

LEMMA SlotsStep ==
  ASSUME IInv, SlotsInv, [Next]_vars
  PROVE  SlotsInv'
<1>t. TypeOK /\ Locals
  BY DEF IInv
<1>1. ASSUME NEW c \in CPUs, Account(c) PROVE SlotsInv'
  <2> DEFINE i == run[c].ifindex
             l == run[c].latency
             slot == Updated(Found(c), l)
             all == accounted[i][c] \cup ({l} \ {0})
  <2>1. i \in Ifaces
    BY <1>1, <1>t DEF Account, Locals, LocalOK, Busy
  <2>2. Extremes(slot, all)
    BY <1>t, <2>1, ExtremesUpdated
  <2>3. l \in 0 .. MaxUInt64 /\ iface \in [Ifaces -> [CPUs -> Slot]]
    BY <1>t DEF TypeOK, Local
  <2>4. accounted \in [Ifaces -> [CPUs -> SUBSET (1 .. MaxUInt64)]]
    BY DEF SlotsInv
  <2>5. all \in SUBSET (1 .. MaxUInt64)
    BY <2>1, <2>3, <2>4
  <2>6. /\ known' = known \cup {i}
        /\ iface' = [iface EXCEPT ![i][c] = slot]
        /\ accounted' = [accounted EXCEPT ![i][c] = all]
    BY <1>1 DEF Account
  <2> HIDE DEF i, l, slot, all
  <2>7. accounted' \in [Ifaces -> [CPUs -> SUBSET (1 .. MaxUInt64)]]
    BY <2>4, <2>5, <2>6
  <2>8. /\ iface'[i][c] = slot /\ accounted'[i][c] = all
        /\ \A j \in Ifaces, d \in CPUs : <<j, d>> # <<i, c>> =>
             iface'[j][d] = iface[j][d] /\ accounted'[j][d] = accounted[j][d]
    BY <2>1, <2>3, <2>4, <2>6
  <2>9. \A j \in Ifaces \ known', d \in CPUs : iface'[j][d] = ZeroSlot /\ accounted'[j][d] = {}
    <3>1. ASSUME NEW j \in Ifaces \ known', NEW d \in CPUs
          PROVE  iface'[j][d] = ZeroSlot /\ accounted'[j][d] = {}
      <4>1. j \in Ifaces \ known /\ <<j, d>> # <<i, c>>
        BY <2>6
      <4> QED
        BY <2>8, <4>1 DEF SlotsInv
    <3> QED
      BY <3>1
  <2>10. \A j \in Ifaces, d \in CPUs : Extremes(iface'[j][d], accounted'[j][d])
    <3>1. ASSUME NEW j \in Ifaces, NEW d \in CPUs
          PROVE  Extremes(iface'[j][d], accounted'[j][d])
      <4>1. CASE <<j, d>> = <<i, c>>
        BY <2>2, <2>8, <4>1
      <4>2. CASE <<j, d>> # <<i, c>>
        BY <2>8, <4>2 DEF SlotsInv
      <4> QED
        BY <4>1, <4>2
    <3> QED
      BY <3>1
  <2> QED
    BY <2>7, <2>9, <2>10 DEF SlotsInv, Extremes
<1>2. ASSUME UNCHANGED interfaces PROVE SlotsInv'
  BY <1>2 DEF interfaces, SlotsInv, Extremes
<1>3. ASSUME NEW c \in CPUs, Program(c) PROVE Account(c) \/ UNCHANGED interfaces
  <2>1. ASSUME NEW p \in Packets, NEW hook \in Hooks, NEW i \in Ifaces, Enter(c, p, hook, i)
        PROVE  UNCHANGED interfaces
    BY <2>1 DEF Enter
  <2>2. Stamp(c) \/ Lookup(c) \/ UpdateHistogram(c) \/ UpdateGlobal(c) \/ Delete(c)
          => UNCHANGED interfaces
    BY DEF Stamp, Lookup, UpdateHistogram, UpdateGlobal, Delete
  <2> QED
    BY <1>3, <2>1, <2>2 DEF Program
<1>4. Tick \/ Reading \/ UNCHANGED vars => UNCHANGED interfaces
  BY DEF Tick, Reading, StartCollect, CopySlot, vars
<1> QED
  BY <1>1, <1>2, <1>3, <1>4 DEF Next

LEMMA SlotsHold == Spec => []SlotsInv
BY InitHolds, StepHolds, SlotsInit, SlotsStep, PTL DEF Spec

\* What the exporter shows as the extremes of an interface.
LEMMA ExtremesOfCPUs ==
  ASSUME IInv, SlotsInv
  PROVE  ExtremesExact
<1>1. ASSUME NEW i \in known
      PROVE  LET all == UNION {accounted[i][c] : c \in CPUs} IN
             all # {} => MinExported(i) = Min(all) /\ MaxExported(i) = Max(all)
  <2> DEFINE all == UNION {accounted[i][c] : c \in CPUs}
             mins == {iface[i][c].min : c \in CPUs} \ {0}
             maxs == {iface[i][c].max : c \in CPUs}
  <2>1. i \in Ifaces /\ CPUs # {} /\ MaxUInt64 \in Nat \ {0}
    BY Numbers DEF IInv, TypeOK, SlotsInv
  <2>2. \A c \in CPUs : iface[i][c].min \in 0 .. MaxUInt64 /\ iface[i][c].max \in 0 .. MaxUInt64
    BY <2>1 DEF IInv, TypeOK, Slot
  <2>3. \A c \in CPUs : accounted[i][c] \in SUBSET (1 .. MaxUInt64) /\ Extremes(iface[i][c], accounted[i][c])
    BY <2>1 DEF SlotsInv
  <2>4. all \in SUBSET (1 .. MaxUInt64)
    BY <2>3
  <2>5. mins \in SUBSET Nat /\ maxs \in SUBSET Nat
    BY <2>2
  <2>6. /\ MinExported(i) = (IF mins = {} THEN 0 ELSE Min(mins))
        /\ MaxExported(i) = Max(maxs)
    BY DEF MinExported, MaxExported
  <2>7. CASE all # {}
    <3>1. PICK m \in all : m = Min(all) /\ \A n \in all : m <= n
      <4>1. all \in SUBSET Nat
        BY <2>4
      <4> HIDE DEF all
      <4> QED
        BY <2>7, <4>1, MinIsLeast
    <3>2. PICK g \in all : g = Max(all) /\ \A n \in all : n <= g
      <4>1. all \in SUBSET (0 .. MaxUInt64) /\ all \in SUBSET Nat
        BY <2>4
      <4> HIDE DEF all
      <4>2. PICK g \in all : \A n \in all : n <= g
        BY <2>1, <2>7, <4>1, GreatestNumber
      <4>3. Max(all) = g
        BY <4>1, <4>2, MaxIs
      <4> QED
        BY <4>2, <4>3
    <3>3. m \in 1 .. MaxUInt64 /\ g \in 1 .. MaxUInt64
      BY <2>4, <3>1, <3>2
    <3>4. Min(mins) = m /\ mins # {}
      <4>1. PICK c \in CPUs : m \in accounted[i][c]
        BY <3>1
      <4>2. iface[i][c].min = m
        <5>1. iface[i][c].min \in accounted[i][c] /\ iface[i][c].min <= m
          BY <2>3, <4>1 DEF Extremes
        <5>2. m <= iface[i][c].min
          BY <3>1, <5>1
        <5> QED
          BY <2>2, <3>3, <5>1, <5>2
      <4>3. m \in mins
        BY <3>3, <4>2
      <4>4. ASSUME NEW n \in mins PROVE m <= n
        <5>1. PICK d \in CPUs : n = iface[i][d].min /\ n # 0
          OBVIOUS
        <5>2. n = MaxUInt64 \/ n \in all
          BY <2>3, <5>1 DEF Extremes
        <5> QED
          BY <3>1, <3>3, <5>2
      <4> HIDE DEF mins
      <4> QED
        BY <2>5, <4>3, <4>4, MinIs
    <3>5. Max(maxs) = g
      <4>1. PICK c \in CPUs : g \in accounted[i][c]
        BY <3>2
      <4>2. iface[i][c].max = g
        <5>1. iface[i][c].max \in accounted[i][c] /\ g <= iface[i][c].max
          BY <2>3, <4>1 DEF Extremes
        <5>2. iface[i][c].max <= g
          BY <3>2, <5>1
        <5> QED
          BY <2>2, <3>3, <5>1, <5>2
      <4>3. g \in maxs
        BY <4>2
      <4>4. ASSUME NEW n \in maxs PROVE n <= g
        <5>1. PICK d \in CPUs : n = iface[i][d].max
          OBVIOUS
        <5>2. n = 0 \/ n \in all
          BY <2>3, <5>1 DEF Extremes
        <5> QED
          BY <3>2, <3>3, <5>2
      <4> HIDE DEF maxs
      <4> QED
        BY <2>5, <4>3, <4>4, MaxIs
    <3> HIDE DEF all, mins, maxs
    <3>6. MinExported(i) = Min(all) /\ MaxExported(i) = Max(all)
      BY <2>6, <3>1, <3>2, <3>4, <3>5
    <3> QED
      BY <2>7, <3>6 DEF all
  <2> QED
    BY <2>7
<1> QED
  BY <1>1 DEF ExtremesExact

\* Whatever latencies the CPUs have accounted for to an interface, and whether
\* or not a CPU has seen a packet of it, the exported minimum and maximum are
\* the least and the greatest of them.
THEOREM ExtremesExported == Spec => []ExtremesExact
<1>1. IInv /\ SlotsInv => ExtremesExact
  BY ExtremesOfCPUs
<1> QED
  BY <1>1, Invariant, SlotsHold, PTL

--------------------------------------------------------------------------------
(* The sums.                                                               *)

Sums(c) == [i \in Ifaces |-> iface[i][c].sum]

\* What global_latency_ns has and the slots of the interfaces do not have yet.
Pending(c) == IF pc[c] \in {"delete", "account"} THEN run[c].latency ELSE 0

\* The packet that is in the histogram and not in global_packets yet.
InHistogram(c) == IF pc[c] = "global" THEN 1 ELSE 0

CountAgrees(c) == SumFunction(histogram[c]) = globalPackets[c] + InHistogram(c)

LatencyAgrees(c) ==
  /\ globalLatency[c] = (SumFunction(Sums(c)) + Pending(c)) % (MaxUInt64 + 1)
  /\ pc[c] \in {"idle", "stamp", "lookup"} => run[c].latency = 0

SumsInv == \A c \in CPUs : CountAgrees(c) /\ LatencyAgrees(c)

LEMMA Finite ==
  IsFiniteSet(CPUs) /\ IsFiniteSet(Ifaces) /\ IsFiniteSet(Buckets)
<1>1. IsFiniteSet(Buckets)
  <2>1. 0 \in Int /\ BucketCount - 1 \in Int
    BY Numbers
  <2> QED
    BY <2>1, FS_Interval DEF Buckets
<1> QED
  BY <1>1, LatencyAssumption

LEMMA SumsAreNumbers ==
  ASSUME TypeOK, NEW c \in CPUs
  PROVE  /\ Sums(c) \in [Ifaces -> Int] /\ SumFunction(Sums(c)) \in Int
         /\ histogram[c] \in [Buckets -> Int] /\ SumFunction(histogram[c]) \in Int
         /\ MaxUInt64 + 1 \in Nat \ {0}
<1>1. \A i \in Ifaces : iface[i][c].sum \in Int
  BY Numbers DEF TypeOK, Slot
<1>2. Sums(c) \in [Ifaces -> Int]
  BY <1>1 DEF Sums
<1>3. histogram[c] \in [Buckets -> Int]
  BY DEF TypeOK
<1> QED
  BY <1>2, <1>3, Finite, SumIsInt, Numbers

LEMMA SumsInit == Init => SumsInv
<1> SUFFICES ASSUME Init, NEW c \in CPUs PROVE CountAgrees(c) /\ LatencyAgrees(c)
  BY DEF SumsInv
<1>1. SumFunction(histogram[c]) = 0
  <2>1. histogram[c] \in [Buckets -> Int] /\ \A b \in Buckets : histogram[c][b] = 0
    BY DEF Init
  <2> QED
    BY <2>1, Finite, SumIsZero
<1>2. SumFunction(Sums(c)) = 0
  <2>1. Sums(c) \in [Ifaces -> Int] /\ \A i \in Ifaces : Sums(c)[i] = 0
    BY DEF Init, Sums, ZeroSlot
  <2> QED
    BY <2>1, Finite, SumIsZero
<1>3. 0 % (MaxUInt64 + 1) = 0
  BY Numbers
<1>4. pc[c] = "idle" /\ globalPackets[c] = 0 /\ globalLatency[c] = 0 /\ run[c].latency = 0
  BY DEF Init, NoRun
<1> QED
  BY <1>1, <1>2, <1>3, <1>4 DEF CountAgrees, LatencyAgrees, InHistogram, Pending

\* A step of one CPU leaves the slots of the others alone.
Spared(c) ==
  /\ pc'[c] = pc[c] /\ run'[c] = run[c]
  /\ histogram'[c] = histogram[c] /\ globalPackets'[c] = globalPackets[c]
  /\ globalLatency'[c] = globalLatency[c]
  /\ \A i \in Ifaces : iface'[i][c] = iface[i][c]

LEMMA SparedAgrees ==
  ASSUME NEW c \in CPUs, Spared(c), CountAgrees(c), LatencyAgrees(c)
  PROVE  CountAgrees(c)' /\ LatencyAgrees(c)'
<1>1. Sums(c)' = Sums(c)
  BY DEF Spared, Sums
<1> QED
  BY <1>1 DEF Spared, CountAgrees, LatencyAgrees, InHistogram, Pending

LEMMA OthersSpared ==
  ASSUME TypeOK, Locals, NEW c \in CPUs, Program(c), NEW d \in CPUs \ {c}
  PROVE  Spared(d)
<1>1. ASSUME NEW p \in Packets, NEW hook \in Hooks, NEW i \in Ifaces, Enter(c, p, hook, i)
      PROVE  Spared(d)
  BY <1>1 DEF Enter, Spared, TypeOK, global, interfaces
<1>2. CASE Stamp(c)
  BY <1>2 DEF Stamp, Spared, TypeOK, global, interfaces
<1>3. CASE Lookup(c)
  BY <1>3 DEF Lookup, Spared, TypeOK, global, interfaces
<1>4. CASE UpdateHistogram(c)
  BY <1>4 DEF UpdateHistogram, Spared, TypeOK, interfaces
<1>5. CASE UpdateGlobal(c)
  BY <1>5 DEF UpdateGlobal, Spared, TypeOK, interfaces
<1>6. CASE Delete(c)
  BY <1>6 DEF Delete, Spared, TypeOK, global, interfaces
<1>7. CASE Account(c)
  BY <1>7 DEF Account, Spared, TypeOK, global
<1> QED
  BY <1>1, <1>2, <1>3, <1>4, <1>5, <1>6, <1>7 DEF Program

LEMMA CountStep ==
  ASSUME IInv, SumsInv, NEW c \in CPUs, Program(c)
  PROVE  CountAgrees(c)'
<1>t. TypeOK /\ CountAgrees(c)
  BY DEF IInv, SumsInv
<1>n. /\ pc \in [CPUs -> {"idle", "stamp", "lookup", "histogram", "global", "delete", "account"}]
      /\ histogram \in [CPUs -> [Buckets -> Nat]] /\ globalPackets \in [CPUs -> Nat]
  BY <1>t DEF TypeOK
<1>1. CASE UpdateHistogram(c)
  <2> DEFINE b == Bucket(run[c].latency)
             f == histogram[c]
             h == histogram'[c]
  <2>1. b \in Buckets
    <3>1. run[c].latency \in Nat
      BY <1>t, Numbers DEF TypeOK, Local
    <3> QED
      BY <3>1, BucketInRange
  <2>2. /\ histogram' = [histogram EXCEPT ![c][b] = @ + 1]
        /\ pc[c] = "histogram" /\ pc' = [pc EXCEPT ![c] = "global"]
        /\ globalPackets' = globalPackets
    BY <1>1 DEF UpdateHistogram
  <2> HIDE DEF b
  <2>3. /\ f \in [Buckets -> Int] /\ h \in [Buckets -> Int]
        /\ h[b] = f[b] + 1 /\ \A y \in Buckets \ {b} : h[y] = f[y]
        /\ f[b] \in Int
    BY <1>n, <2>1, <2>2
  <2> HIDE DEF f, h
  <2>4. SumFunction(h) = SumFunction(f) + (h[b] - f[b])
    BY <2>1, <2>3, Finite, SumChangesAt
  <2>5. SumFunction(f) \in Int
    BY <2>3, Finite, SumIsInt
  <2>6. SumFunction(f) = globalPackets[c]
    BY <1>t, <1>n, <2>2 DEF CountAgrees, InHistogram, f
  <2>7. SumFunction(h) = globalPackets[c] + 1
    BY <2>3, <2>4, <2>5, <2>6
  <2>8. pc'[c] = "global"
    BY <1>n, <2>2
  <2> QED
    BY <2>2, <2>7, <2>8 DEF CountAgrees, InHistogram, h
<1>2. CASE UpdateGlobal(c)
  <2>1. /\ globalPackets'[c] = globalPackets[c] + 1 /\ histogram' = histogram
        /\ pc[c] = "global" /\ pc'[c] # "global"
    BY <1>2, <1>n DEF UpdateGlobal
  <2> QED
    BY <1>t, <1>n, <2>1 DEF CountAgrees, InHistogram
<1>3. ASSUME pc[c] # "global", pc'[c] # "global", UNCHANGED <<histogram, globalPackets>>
      PROVE  CountAgrees(c)'
  BY <1>t, <1>3 DEF CountAgrees, InHistogram
<1>4. ASSUME NEW p \in Packets, NEW hook \in Hooks, NEW i \in Ifaces, Enter(c, p, hook, i)
      PROVE  CountAgrees(c)'
  <2>1. pc[c] # "global" /\ pc'[c] # "global" /\ UNCHANGED <<histogram, globalPackets>>
    BY <1>n, <1>4 DEF Enter, global
  <2> QED
    BY <1>3, <2>1
<1>5. CASE Stamp(c) \/ Lookup(c) \/ Delete(c) \/ Account(c)
  <2>1. pc[c] # "global" /\ pc'[c] # "global" /\ UNCHANGED <<histogram, globalPackets>>
    BY <1>n, <1>5 DEF Stamp, Lookup, Delete, Account, global
  <2> QED
    BY <1>3, <2>1
<1> QED
  BY <1>1, <1>2, <1>4, <1>5 DEF Program

LEMMA LatencyStep ==
  ASSUME IInv, SlotsInv, SumsInv, NEW c \in CPUs, Program(c)
  PROVE  LatencyAgrees(c)'
<1>t. TypeOK /\ Locals /\ LatencyAgrees(c)
  BY DEF IInv, SumsInv
<1>n. /\ pc \in [CPUs -> {"idle", "stamp", "lookup", "histogram", "global", "delete", "account"}]
      /\ run \in [CPUs -> Local] /\ globalLatency \in [CPUs -> 0 .. MaxUInt64]
  BY <1>t DEF TypeOK
<1> DEFINE M == MaxUInt64 + 1
           S == SumFunction(Sums(c))
           l == run[c].latency
<1>m. M \in Nat \ {0} /\ S \in Int /\ l \in Int /\ l \in 0 .. MaxUInt64
  BY <1>t, <1>n, SumsAreNumbers, Numbers DEF Local
<1>g. globalLatency[c] = (S + Pending(c)) % M
  BY <1>t DEF LatencyAgrees
<1>1. CASE UpdateGlobal(c)
  <2>1. /\ globalLatency'[c] = Plus(globalLatency[c], l)
        /\ pc[c] = "global" /\ pc'[c] \in {"delete", "account"}
        /\ run' = run /\ iface' = iface
    BY <1>1, <1>n DEF UpdateGlobal, interfaces
  <2>2. globalLatency[c] = S % M
    BY <1>g, <1>m, <2>1 DEF Pending
  <2>3. Sums(c)' = Sums(c) /\ Pending(c)' = l
    BY <2>1 DEF Sums, Pending
  <2> HIDE DEF S, l, M
  <2>4. ((S % M) + l) % M = (S + l) % M
    BY <1>m, SameRemainder
  <2>5. globalLatency'[c] = (S + l) % M
    BY <2>1, <2>2, <2>4 DEF Plus, M
  <2> QED
    BY <2>1, <2>3, <2>5 DEF LatencyAgrees, S, M
<1>2. CASE Account(c)
  <2> DEFINE i == run[c].ifindex
             f == Sums(c)
             h == Sums(c)'
  <2>1. i \in Ifaces /\ pc[c] = "account"
    BY <1>2, <1>t DEF Account, Locals, LocalOK, Busy
  <2>2. Found(c).sum = f[i]
    <3>1. i \notin known => iface[i][c] = ZeroSlot
      BY <2>1 DEF SlotsInv
    <3> QED
      BY <2>1, <3>1 DEF Found, Sums, ZeroSlot
  <2>3. Updated(Found(c), l).sum = Plus(f[i], l)
    BY <2>2 DEF Updated
  <2>4. /\ iface' = [iface EXCEPT ![i][c] = Updated(Found(c), l)]
        /\ globalLatency' = globalLatency /\ pc' = [pc EXCEPT ![c] = "idle"]
        /\ run' = [run EXCEPT ![c] = NoRun]
    BY <1>2 DEF Account, global
  <2>5. h[i] = Plus(f[i], l) /\ \A j \in Ifaces \ {i} : h[j] = f[j]
    <3>1. iface \in [Ifaces -> [CPUs -> Slot]]
      BY <1>t DEF TypeOK
    <3>2. iface'[i][c] = Updated(Found(c), l) /\ \A j \in Ifaces \ {i} : iface'[j][c] = iface[j][c]
      BY <2>1, <2>4, <3>1
    <3> QED
      BY <2>1, <2>3, <3>2 DEF Sums
  <2>6. f \in [Ifaces -> Int] /\ f[i] \in Int /\ h \in [Ifaces -> Int] /\ SumFunction(h) \in Int
    <3>1. f \in [Ifaces -> Int]
      BY <1>t, SumsAreNumbers
    <3>2. Plus(f[i], l) \in Int
      BY <1>m, <2>1, <3>1 DEF Plus
    <3>3. \A j \in Ifaces : h[j] \in Int
      BY <2>1, <2>5, <3>1, <3>2
    <3>4. h = [j \in Ifaces |-> h[j]]
      BY DEF Sums
    <3>5. h \in [Ifaces -> Int]
      BY <3>3, <3>4
    <3> HIDE DEF h
    <3> QED
      BY <2>1, <3>1, <3>5, Finite, SumIsInt
  <2>7. pc'[c] = "idle" /\ run'[c].latency = 0
    BY <1>n, <2>4 DEF NoRun
  <2>8. globalLatency[c] = (S + l) % M
    BY <1>g, <2>1 DEF Pending
  <2> HIDE DEF f, h, l, i, M, S
  <2>9. SumFunction(h) = SumFunction(f) + (h[i] - f[i])
    BY <2>1, <2>5, <2>6, Finite, SumChangesAt
  <2> DEFINE x == f[i] + l
             q == x \div M
  <2>10. x \in Int /\ x = M * q + (x % M) /\ q \in Int /\ x % M \in 0 .. M - 1
    <3>1. x \in Int
      BY <1>m, <2>6
    <3> HIDE DEF x
    <3> QED
      BY <1>m, <3>1, Division
  <2>11. h[i] = x % M
    BY <2>5 DEF Plus, M
  <2>12. S = SumFunction(f)
    BY DEF S, f
  <2> DEFINE k == 0 - q
  <2>13. SumFunction(h) = (S + l) + k * M /\ k \in Int /\ S + l \in Int
    <3>1. x - h[i] = M * q
      BY <1>m, <2>10, <2>11
    <3>2. x = f[i] + l
      OBVIOUS
    <3> HIDE DEF x, q
    <3>3. SumFunction(h) = S + (h[i] - f[i]) /\ h[i] \in Int
      BY <1>m, <2>9, <2>10, <2>11, <2>12
    <3>4. M * q \in Int
      BY <1>m, <2>10
    <3> DEFINE p == M * q
    <3> HIDE DEF p
    <3>5. x - h[i] = p /\ p \in Int
      BY <3>1, <3>4 DEF p
    <3>6. h[i] - f[i] = l - p
      BY <1>m, <2>6, <3>2, <3>3, <3>5
    <3>7. SumFunction(h) = (S + l) - p
      BY <1>m, <2>6, <3>3, <3>5, <3>6
    <3>8. SumFunction(h) = (S + l) - M * q
      BY <3>7 DEF p
    <3> QED
      BY <1>m, <2>10, <3>8
  <2> DEFINE a == S + l
  <2>14. (a + k * M) % M = a % M
    <3>1. a \in Int /\ k \in Int
      BY <2>13
    <3> HIDE DEF a, k
    <3> QED
      BY <1>m, <3>1, Turns
  <2>15. globalLatency'[c] = SumFunction(h) % M
    BY <2>4, <2>8, <2>13, <2>14
  <2>16. Pending(c)' = 0
    BY <2>7 DEF Pending
  <2>17. globalLatency'[c] = (SumFunction(h) + 0) % M
    BY <2>6, <2>15
  <2> QED
    BY <2>7, <2>16, <2>17 DEF LatencyAgrees, M, h
<1>3. ASSUME iface' = iface, globalLatency' = globalLatency, Pending(c)' = Pending(c),
             pc'[c] \in {"idle", "stamp", "lookup"} => run'[c].latency = 0
      PROVE  LatencyAgrees(c)'
  <2>1. Sums(c)' = Sums(c)
    BY <1>3 DEF Sums
  <2> QED
    BY <1>3, <1>g, <2>1 DEF LatencyAgrees
<1>4. ASSUME NEW p \in Packets, NEW hook \in Hooks, NEW i \in Ifaces, Enter(c, p, hook, i)
      PROVE  LatencyAgrees(c)'
  <2>1. /\ pc[c] = "idle" /\ run[c].latency = 0 /\ iface' = iface /\ globalLatency' = globalLatency
        /\ run'[c].latency = 0 /\ pc'[c] \in {"idle", "stamp", "lookup"}
    BY <1>4, <1>n, <1>t DEF Enter, LatencyAgrees, global, interfaces
  <2>2. Pending(c)' = Pending(c)
    BY <2>1 DEF Pending
  <2> QED
    BY <1>3, <2>1, <2>2
<1>5. CASE Stamp(c)
  <2>1. /\ pc[c] = "stamp" /\ pc'[c] = "account" /\ run[c].latency = 0 /\ run' = run
        /\ iface' = iface /\ globalLatency' = globalLatency
    BY <1>5, <1>n, <1>t DEF Stamp, LatencyAgrees, global, interfaces
  <2>2. Pending(c)' = Pending(c)
    BY <2>1 DEF Pending
  <2> QED
    BY <1>3, <2>1, <2>2
<1>6. CASE Lookup(c)
  <2>1. /\ pc[c] = "lookup" /\ run[c].latency = 0
        /\ pc'[c] = "histogram" \/ (pc'[c] = "account" /\ run' = run)
        /\ iface' = iface /\ globalLatency' = globalLatency
    BY <1>6, <1>n, <1>t DEF Lookup, LatencyAgrees, global, interfaces
  <2>2. Pending(c)' = Pending(c)
    BY <2>1 DEF Pending
  <2> QED
    BY <1>3, <2>1, <2>2
<1>7. CASE UpdateHistogram(c)
  <2>1. /\ pc[c] = "histogram" /\ pc'[c] = "global"
        /\ iface' = iface /\ globalLatency' = globalLatency
    BY <1>7, <1>n DEF UpdateHistogram, interfaces
  <2>2. Pending(c)' = Pending(c)
    BY <2>1 DEF Pending
  <2> QED
    BY <1>3, <2>1, <2>2
<1>8. CASE Delete(c)
  <2>1. /\ pc[c] = "delete" /\ pc'[c] = "account" /\ run' = run
        /\ iface' = iface /\ globalLatency' = globalLatency
    BY <1>8, <1>n DEF Delete, global, interfaces
  <2>2. Pending(c)' = Pending(c)
    BY <2>1 DEF Pending
  <2> QED
    BY <1>3, <2>1, <2>2
<1> QED
  BY <1>1, <1>2, <1>4, <1>5, <1>6, <1>7, <1>8 DEF Program

LEMMA SumsStep ==
  ASSUME IInv, SlotsInv, SumsInv, [Next]_vars
  PROVE  SumsInv'
<1>t. TypeOK /\ Locals
  BY DEF IInv
<1>1. ASSUME NEW c \in CPUs, Program(c) PROVE SumsInv'
  <2>1. ASSUME NEW d \in CPUs PROVE CountAgrees(d)' /\ LatencyAgrees(d)'
    <3>1. CASE d = c
      BY <1>1, <3>1, CountStep, LatencyStep
    <3>2. CASE d # c
      <4>1. Spared(d)
        BY <1>1, <1>t, <3>2, OthersSpared
      <4> QED
        BY <4>1, SparedAgrees DEF SumsInv
    <3> QED
      BY <3>1, <3>2
  <2> QED
    BY <2>1 DEF SumsInv
<1>2. CASE Tick \/ Reading \/ UNCHANGED vars
  <2>1. \A d \in CPUs : Spared(d)
    BY <1>2 DEF Tick, Reading, StartCollect, CopySlot, vars, Spared, global, interfaces
  <2> QED
    BY <2>1, SparedAgrees DEF SumsInv
<1> QED
  BY <1>1, <1>2 DEF Next

LEMMA SumsHold == Spec => []SumsInv
BY InitHolds, StepHolds, SlotsInit, SlotsStep, SumsInit, SumsStep, PTL DEF Spec

LEMMA SumsAgree ==
  ASSUME IInv, SumsInv
  PROVE  MapsAgree
<1>1. ASSUME NEW c \in CPUs, pc[c] = "idle"
      PROVE  /\ SumFunction(histogram[c]) = globalPackets[c]
             /\ globalLatency[c] = SumFunction(Sums(c)) % (MaxUInt64 + 1)
  <2>1. TypeOK /\ CountAgrees(c) /\ LatencyAgrees(c)
    BY DEF IInv, SumsInv
  <2>2. SumFunction(Sums(c)) \in Int /\ globalPackets[c] \in Nat
    BY <2>1, SumsAreNumbers DEF TypeOK
  <2>3. InHistogram(c) = 0 /\ Pending(c) = 0
    BY <1>1 DEF InHistogram, Pending
  <2> QED
    BY <2>1, <2>2, <2>3 DEF CountAgrees, LatencyAgrees
<1> QED
  BY <1>1 DEF MapsAgree, Sums

\* The three maps that three functions update agree whenever a CPU is between
\* two packets: the buckets add up to the packets counted, and the latencies of
\* the interfaces to the global one, in the arithmetic of a __u64.
THEOREM TotalsAgree == Spec => []MapsAgree
<1>1. IInv /\ SumsInv => MapsAgree
  BY SumsAgree
<1> QED
  BY <1>1, Invariant, SumsHold, PTL

--------------------------------------------------------------------------------
(* The reader.                                                             *)

\* The bucket of a CPU whose packets are in packetsRead, as its counter has been
\* copied, and not in bucketsRead yet.
Owes(c, b) ==
  \/ at = PacketsKey /\ c \notin todo
  \/ at \in Buckets /\ (b > at \/ (b = at /\ c \in todo))

Owed(c) == [b \in Buckets |-> IF Owes(c, b) THEN histogram[c][b] ELSE 0]

AllOwed == [c \in CPUs |-> SumFunction(Owed(c))]

\* The packets read are in the buckets read or in those still to be read.
ReaderInv == packetsRead <= bucketsRead + SumFunction(AllOwed)

LEMMA OwedIsNat ==
  ASSUME TypeOK
  PROVE  /\ \A c \in CPUs : Owed(c) \in [Buckets -> Nat] /\ Owed(c) \in [Buckets -> Int]
         /\ AllOwed \in [CPUs -> Int] /\ SumFunction(AllOwed) \in Int
         /\ \A c \in CPUs : SumFunction(Owed(c)) \in Int
<1>1. ASSUME NEW c \in CPUs
      PROVE  /\ Owed(c) \in [Buckets -> Nat] /\ Owed(c) \in [Buckets -> Int]
             /\ SumFunction(Owed(c)) \in Int
  <2>1. \A b \in Buckets : histogram[c][b] \in Nat
    BY DEF TypeOK
  <2>2. Owed(c) \in [Buckets -> Nat]
    BY <2>1 DEF Owed
  <2>3. Owed(c) \in [Buckets -> Int]
    BY <2>2
  <2> HIDE DEF Owed
  <2> QED
    BY <2>2, <2>3, Finite, SumIsInt
<1>2. AllOwed \in [CPUs -> Int]
  BY <1>1 DEF AllOwed
<1>3. SumFunction(AllOwed) \in Int
  BY <1>2, Finite, SumIsInt
<1> QED
  BY <1>1, <1>2, <1>3

\* Nothing is owed while the reader is idle or has just begun.
LEMMA NothingOwed ==
  ASSUME \A c \in CPUs, b \in Buckets : ~Owes(c, b)
  PROVE  SumFunction(AllOwed) = 0
<1>1. ASSUME NEW c \in CPUs PROVE SumFunction(Owed(c)) = 0
  <2>1. Owed(c) \in [Buckets -> Int] /\ \A b \in Buckets : Owed(c)[b] = 0
    BY DEF Owed
  <2> QED
    BY <2>1, Finite, SumIsZero
<1>2. AllOwed \in [CPUs -> Int] /\ \A c \in CPUs : AllOwed[c] = 0
  BY <1>1 DEF AllOwed
<1> QED
  BY <1>2, Finite, SumIsZero

LEMMA ReaderInit == Init => ReaderInv
<1> SUFFICES ASSUME Init PROVE ReaderInv
  OBVIOUS
<1>1. \A c \in CPUs, b \in Buckets : ~Owes(c, b)
  BY Numbers DEF Init, Owes, Idle, PacketsKey, Buckets
<1>2. SumFunction(AllOwed) = 0
  BY <1>1, NothingOwed
<1> QED
  BY <1>2 DEF Init, ReaderInv

\* A lookup of a CPU's slot, which copies global_packets or a bucket.
LEMMA CopyMoves ==
  ASSUME TypeOK, NEW c \in CPUs, CopySlot(c)
  PROVE  \/ /\ at = PacketsKey
            /\ \A b \in Buckets : ~Owes(c, b) /\ Owes(c, b)'
            /\ \A d \in CPUs \ {c}, b \in Buckets : (Owes(d, b)' <=> Owes(d, b))
         \/ /\ at \in Buckets
            /\ Owes(c, at) /\ ~(\E b \in Buckets : b = at /\ Owes(c, b)')
            /\ \A d \in CPUs, b \in Buckets : <<d, b>> # <<c, at>> => (Owes(d, b)' <=> Owes(d, b))
<1>1. at # Idle /\ c \in todo /\ todo \subseteq CPUs /\ at \in Keys
  BY DEF CopySlot, TypeOK
<1>2. \/ /\ todo # {c} /\ todo' = todo \ {c} /\ at' = at
      \/ /\ todo = {c} /\ at = BucketCount - 1 /\ at' = Idle /\ todo' = {}
      \/ /\ todo = {c} /\ at # BucketCount - 1 /\ at' = at + 1 /\ todo' = CPUs
  BY DEF CopySlot
<1>3. BucketCount \in Nat /\ BucketCount >= 1
  BY Numbers
<1>4. CASE at = PacketsKey
  <2>1. at = -1 /\ at \notin Buckets
    BY <1>4 DEF PacketsKey, Buckets
  <2>2. \A b \in Buckets : ~Owes(c, b)
    BY <1>1, <2>1 DEF Owes
  <2>3. \A d \in CPUs, b \in Buckets : Owes(d, b) <=> d \notin todo
    BY <1>4, <2>1 DEF Owes
  <2>4. \A d \in CPUs, b \in Buckets : Owes(d, b)' <=> (d \notin todo \/ d = c)
    <3>1. CASE todo # {c} /\ todo' = todo \ {c} /\ at' = at
      <4>1. at' = PacketsKey /\ at' \notin Buckets
        BY <1>4, <2>1, <3>1
      <4> QED
        BY <3>1, <4>1 DEF Owes
    <3>2. CASE todo = {c} /\ at # BucketCount - 1 /\ at' = at + 1 /\ todo' = CPUs
      <4>1. at' = 0 /\ at' \in Buckets /\ at' # PacketsKey
        BY <1>3, <2>1, <3>2 DEF Buckets, PacketsKey
      <4>2. \A b \in Buckets : b > at' \/ b = at'
        BY <1>3, <4>1 DEF Buckets
      <4> QED
        BY <3>2, <4>1, <4>2 DEF Owes
    <3> QED
      BY <1>2, <1>3, <2>1, <3>1, <3>2
  <2> QED
    BY <1>1, <1>4, <2>2, <2>3, <2>4
<1>5. CASE at \in Buckets
  <2>1. at # PacketsKey /\ at \in Int /\ at >= 0 /\ at <= BucketCount - 1
    BY <1>3, <1>5 DEF PacketsKey, Buckets
  <2>2. \A d \in CPUs, b \in Buckets : Owes(d, b) <=> (b > at \/ (b = at /\ d \in todo))
    BY <1>5, <2>1 DEF Owes
  <2>3. \A d \in CPUs, b \in Buckets : Owes(d, b)' <=> (b > at \/ (b = at /\ d \in todo /\ d # c))
    <3>1. CASE todo # {c} /\ todo' = todo \ {c} /\ at' = at
      <4>1. at' \in Buckets /\ at' # PacketsKey
        BY <1>5, <2>1, <3>1 DEF PacketsKey, Buckets
      <4> QED
        BY <3>1, <4>1 DEF Owes
    <3>2. CASE todo = {c} /\ at = BucketCount - 1 /\ at' = Idle /\ todo' = {}
      <4>1. at' \notin Buckets /\ at' # PacketsKey
        BY <3>2 DEF Buckets, Idle, PacketsKey
      <4>2. \A b \in Buckets : ~(b > at)
        BY <1>3, <3>2 DEF Buckets
      <4> QED
        BY <3>2, <4>1, <4>2 DEF Owes
    <3>3. CASE todo = {c} /\ at # BucketCount - 1 /\ at' = at + 1 /\ todo' = CPUs
      <4>1. at' \in Buckets /\ at' # PacketsKey
        BY <1>3, <2>1, <3>3 DEF Buckets, PacketsKey
      <4>2. \A b \in Buckets : (b > at' \/ b = at') <=> b > at
        BY <1>3, <2>1, <3>3 DEF Buckets
      <4> QED
        BY <3>3, <4>1, <4>2 DEF Owes
    <3> QED
      BY <1>2, <3>1, <3>2, <3>3
  <2>4. Owes(c, at)
    BY <1>1, <1>5, <2>2
  <2>5. \A b \in Buckets : b = at => ~Owes(c, b)'
    BY <2>1, <2>3
  <2>6. \A d \in CPUs, b \in Buckets : <<d, b>> # <<c, at>> => (Owes(d, b)' <=> Owes(d, b))
    BY <2>2, <2>3
  <2> QED
    BY <1>5, <2>4, <2>5, <2>6
<1> QED
  BY <1>1, <1>4, <1>5 DEF Keys

\* A step that changes what one CPU owes.
LEMMA OwedChangesAt ==
  ASSUME TypeOK, TypeOK', NEW c \in CPUs, \A d \in CPUs \ {c} : Owed(d)' = Owed(d)
  PROVE  SumFunction(AllOwed)' = SumFunction(AllOwed) + (SumFunction(Owed(c)') - SumFunction(Owed(c)))
<1> DEFINE f == AllOwed
           h == AllOwed'
<1>1. f \in [CPUs -> Int]
  BY OwedIsNat
<1>2. h = [d \in CPUs |-> SumFunction(Owed(d)')]
  BY DEF AllOwed
<1>3. h[c] = SumFunction(Owed(c)') /\ f[c] = SumFunction(Owed(c))
  BY <1>2 DEF AllOwed
<1>4. \A d \in CPUs \ {c} : h[d] = f[d]
  BY <1>2 DEF AllOwed
<1>5. h[c] \in Int
  <2>1. Owed(c)' \in [Buckets -> Int]
    <3>1. \A b \in Buckets : histogram'[c][b] \in Int
      BY DEF TypeOK
    <3> QED
      BY <3>1 DEF Owed
  <2> DEFINE g == Owed(c)'
  <2>2. g \in [Buckets -> Int]
    BY <2>1
  <2> HIDE DEF g
  <2>3. SumFunction(g) \in Int
    BY <2>2, Finite, SumIsInt
  <2> QED
    BY <1>3, <2>3 DEF g
<1>6. h \in [CPUs -> Int]
  <2>1. \A d \in CPUs : h[d] \in Int
    BY <1>1, <1>4, <1>5
  <2> QED
    BY <1>2, <2>1
<1> HIDE DEF f, h
<1>7. SumFunction(h) = SumFunction(f) + (h[c] - f[c])
  BY <1>1, <1>4, <1>6, Finite, SumChangesAt
<1> QED
  BY <1>3, <1>7 DEF f, h

LEMMA ReaderStep ==
  ASSUME IInv, SumsInv, ReaderInv, [Next]_vars
  PROVE  ReaderInv'
<1>t. TypeOK /\ TypeOK'
  BY StepHolds DEF IInv
<1>n. /\ packetsRead \in Nat /\ bucketsRead \in Nat /\ SumFunction(AllOwed) \in Int
      /\ packetsRead <= bucketsRead + SumFunction(AllOwed)
  BY <1>t, OwedIsNat DEF TypeOK, ReaderInv
<1>1. CASE StartCollect
  <2>1. \A c \in CPUs, b \in Buckets : ~Owes(c, b)'
    BY <1>1 DEF StartCollect, Owes, PacketsKey, Buckets
  <2>2. \A c \in CPUs : Owed(c)' = [b \in Buckets |-> 0]
    BY <2>1 DEF Owed
  <2> DEFINE z == [b \in Buckets |-> 0]
  <2>3. SumFunction(z) = 0
    <3>1. z \in [Buckets -> Int] /\ \A b \in Buckets : z[b] = 0
      OBVIOUS
    <3> HIDE DEF z
    <3> QED
      BY <3>1, Finite, SumIsZero
  <2> DEFINE h == AllOwed'
  <2>4. SumFunction(h) = 0
    <3>1. h \in [CPUs -> Int] /\ \A c \in CPUs : h[c] = 0
      BY <2>2, <2>3 DEF AllOwed
    <3> HIDE DEF h
    <3> QED
      BY <3>1, Finite, SumIsZero
  <2>5. packetsRead' = 0 /\ bucketsRead' = 0
    BY <1>1 DEF StartCollect
  <2> QED
    BY <2>4, <2>5 DEF ReaderInv
<1>2. ASSUME NEW c \in CPUs, CopySlot(c) PROVE ReaderInv'
  <2>0. histogram' = histogram /\ globalPackets' = globalPackets
    BY <1>2 DEF CopySlot, global
  <2> DEFINE f == Owed(c)
             h == Owed(c)'
  <2>h. /\ histogram[c] \in [Buckets -> Nat] /\ histogram[c] \in [Buckets -> Int]
        /\ globalPackets[c] \in Nat
    BY <1>t DEF TypeOK
  <2>1. CASE /\ at = PacketsKey
             /\ \A b \in Buckets : ~Owes(c, b) /\ Owes(c, b)'
             /\ \A d \in CPUs \ {c}, b \in Buckets : (Owes(d, b)' <=> Owes(d, b))
    <3>1. \A d \in CPUs \ {c} : Owed(d)' = Owed(d)
      BY <2>0, <2>1 DEF Owed
    <3>2. SumFunction(AllOwed)' = SumFunction(AllOwed) + (SumFunction(h) - SumFunction(f))
      BY <1>t, <3>1, OwedChangesAt
    <3>3. h = histogram[c]
      BY <2>0, <2>1, <2>h DEF Owed
    <3>4. SumFunction(f) = 0
      <4>1. f \in [Buckets -> Int] /\ \A b \in Buckets : f[b] = 0
        BY <2>1 DEF Owed
      <4> HIDE DEF f
      <4> QED
        BY <4>1, Finite, SumIsZero
    <3>5. SumFunction(h) >= globalPackets[c] /\ SumFunction(h) \in Int
      BY <1>t, <2>h, <3>3, SumsAreNumbers DEF SumsInv, CountAgrees, InHistogram
    <3>6. packetsRead' = packetsRead + globalPackets[c] /\ bucketsRead' = bucketsRead
      BY <1>2, <2>1 DEF CopySlot
    <3> HIDE DEF f, h
    <3>7. packetsRead' <= bucketsRead' + SumFunction(AllOwed)'
      BY <1>n, <2>h, <3>2, <3>4, <3>5, <3>6
    <3> QED
      BY <3>7 DEF ReaderInv
  <2>2. CASE /\ at \in Buckets
             /\ Owes(c, at) /\ ~(\E b \in Buckets : b = at /\ Owes(c, b)')
             /\ \A d \in CPUs, b \in Buckets : <<d, b>> # <<c, at>> => (Owes(d, b)' <=> Owes(d, b))
    <3> DEFINE k == at
    <3>1. \A d \in CPUs \ {c} : Owed(d)' = Owed(d)
      BY <2>0, <2>2 DEF Owed
    <3>2. SumFunction(AllOwed)' = SumFunction(AllOwed) + (SumFunction(h) - SumFunction(f))
      BY <1>t, <3>1, OwedChangesAt
    <3>3. \A b \in Buckets \ {k} : h[b] = f[b]
      BY <2>0, <2>2 DEF Owed
    <3>4. f[k] = histogram[c][k] /\ h[k] = 0
      BY <2>0, <2>2 DEF Owed
    <3>5. f \in [Buckets -> Int] /\ h \in [Buckets -> Int]
      BY <2>0, <2>h DEF Owed
    <3>6. k \in Buckets /\ histogram[c][k] \in Nat
      BY <2>2, <2>h
    <3>7. bucketsRead' = bucketsRead + histogram[c][k] /\ packetsRead' = packetsRead
      <4>1. at # PacketsKey
        BY <2>2 DEF Buckets, PacketsKey
      <4> QED
        BY <1>2, <4>1 DEF CopySlot
    <3> HIDE DEF f, h, k
    <3>8. SumFunction(h) = SumFunction(f) + (h[k] - f[k])
      BY <3>3, <3>5, <3>6, Finite, SumChangesAt
    <3>9. SumFunction(f) \in Int
      BY <3>5, Finite, SumIsInt
    <3>10. packetsRead' <= bucketsRead' + SumFunction(AllOwed)'
      BY <1>n, <3>2, <3>4, <3>6, <3>7, <3>8, <3>9
    <3> QED
      BY <3>10 DEF ReaderInv
  <2> QED
    BY <1>2, <1>t, <2>1, <2>2, CopyMoves
<1>3. ASSUME NEW c \in CPUs, UpdateHistogram(c) PROVE ReaderInv'
  <2> DEFINE f == Owed(c)
             h == Owed(c)'
             k == Bucket(run[c].latency)
  <2>1. k \in Buckets
    <3>1. run[c].latency \in Nat
      BY <1>t, Numbers DEF TypeOK, Local
    <3> QED
      BY <3>1, BucketInRange
  <2>2. /\ histogram' = [histogram EXCEPT ![c][k] = @ + 1]
        /\ at' = at /\ todo' = todo /\ packetsRead' = packetsRead /\ bucketsRead' = bucketsRead
    BY <1>3 DEF UpdateHistogram, reader
  <2>3. histogram \in [CPUs -> [Buckets -> Nat]]
    BY <1>t DEF TypeOK
  <2> HIDE DEF k
  <2>4. /\ \A d \in CPUs \ {c} : histogram'[d] = histogram[d]
        /\ \A b \in Buckets : histogram'[c][b] \in Nat /\ histogram[c][b] <= histogram'[c][b]
    BY <2>1, <2>2, <2>3
  <2>5. \A d \in CPUs, b \in Buckets : (Owes(d, b)' <=> Owes(d, b))
    BY <2>2 DEF Owes
  <2>6. \A d \in CPUs \ {c} : Owed(d)' = Owed(d)
    BY <2>4, <2>5 DEF Owed
  <2>7. SumFunction(AllOwed)' = SumFunction(AllOwed) + (SumFunction(h) - SumFunction(f))
    BY <1>t, <2>6, OwedChangesAt
  <2>8. /\ f \in [Buckets -> Int] /\ h \in [Buckets -> Int]
        /\ \A b \in Buckets : f[b] <= h[b]
    BY <2>3, <2>4, <2>5 DEF Owed
  <2> HIDE DEF f, h
  <2>9. SumFunction(f) <= SumFunction(h) /\ SumFunction(f) \in Int /\ SumFunction(h) \in Int
    BY <2>8, Finite, SumIsMonotone, SumIsInt
  <2>10. packetsRead' <= bucketsRead' + SumFunction(AllOwed)'
    BY <1>n, <2>2, <2>7, <2>9
  <2> QED
    BY <2>10 DEF ReaderInv
<1>4. ASSUME UNCHANGED <<histogram, reader>> PROVE ReaderInv'
  <2>1. histogram' = histogram /\ at' = at /\ todo' = todo /\ packetsRead' = packetsRead /\ bucketsRead' = bucketsRead
    BY <1>4 DEF reader
  <2>2. AllOwed' = AllOwed
    BY <2>1 DEF AllOwed, Owed, Owes
  <2> QED
    BY <2>1, <2>2 DEF ReaderInv
<1>5. ASSUME NEW c \in CPUs, Program(c)
      PROVE  UpdateHistogram(c) \/ UNCHANGED <<histogram, reader>>
  <2>1. ASSUME NEW p \in Packets, NEW hook \in Hooks, NEW i \in Ifaces, Enter(c, p, hook, i)
        PROVE  UNCHANGED <<histogram, reader>>
    BY <2>1 DEF Enter, global
  <2>2. CASE Stamp(c)
    BY <2>2 DEF Stamp, global
  <2>3. CASE Lookup(c)
    BY <2>3 DEF Lookup, global
  <2>4. CASE UpdateGlobal(c)
    BY <2>4 DEF UpdateGlobal
  <2>5. CASE Delete(c)
    BY <2>5 DEF Delete, global
  <2>6. CASE Account(c)
    BY <2>6 DEF Account, global
  <2> QED
    BY <1>5, <2>1, <2>2, <2>3, <2>4, <2>5, <2>6 DEF Program
<1>6. Tick \/ UNCHANGED vars => UNCHANGED <<histogram, reader>>
  BY DEF Tick, vars, global
<1> QED
  BY <1>1, <1>2, <1>3, <1>4, <1>5, <1>6 DEF Next, Reading

LEMMA ReaderHolds == Spec => []ReaderInv
BY InitHolds, StepHolds, SlotsInit, SlotsStep, SumsInit, SumsStep, ReaderInit, ReaderStep, PTL DEF Spec

LEMMA ReaderCovers ==
  ASSUME IInv, ReaderInv
  PROVE  SnapshotCovers
<1>1. ASSUME at = Idle PROVE packetsRead <= bucketsRead
  <2>1. \A c \in CPUs, b \in Buckets : ~Owes(c, b)
    BY <1>1 DEF Owes, Idle, PacketsKey, Buckets
  <2>2. SumFunction(AllOwed) = 0
    BY <2>1, NothingOwed
  <2> QED
    BY <2>2 DEF ReaderInv, IInv, TypeOK
<1> QED
  BY <1>1 DEF SnapshotCovers

\* A reader that copies the counters of packets before the buckets, CPU by CPU
\* and while the programs run, has every packet it counted in a bucket.
THEOREM SnapshotsCover == Spec => []SnapshotCovers
<1>1. IInv /\ ReaderInv => SnapshotCovers
  BY ReaderCovers
<1> QED
  BY <1>1, Invariant, ReaderHolds, PTL

--------------------------------------------------------------------------------
(***************************************************************************)
(* Theorems about LatencyCollector, for any number of processes, maps and  *)
(* interfaces and without a bound on the packets or the starts.            *)
(*                                                                         *)
(* The invariant rests on one fact that no line of the code states: a name *)
(* once pinned keeps its object, for nothing unpins.  Every handle a       *)
(* Collector holds, finished or half-way through Start, is therefore the   *)
(* pinned one (Pinned), a process has links only on interfaces it shows as *)
(* attached (Linked), and the packets it shows are bounded by a map that   *)
(* only grows (Shown).                                                     *)
(***************************************************************************)

LEMMA CollectorConstants ==
  /\ StatsMap \in Maps /\ Objects # {}
  /\ Nobody \notin Objects /\ Nobody \notin Procs
  BY CollectorAssumption

--------------------------------------------------------------------------------
LEMMA CollectorTypeInit == CollectorInit => CollectorTypeOK
<1> SUFFICES ASSUME CollectorInit PROVE CollectorTypeOK
  OBVIOUS
<1>1. NoMaps \in Fields
  BY DEF NoMaps, Fields
<1>2. value \in [Objects -> [Interfaces -> Nat]] /\ shown \in [Procs -> [Interfaces -> Nat]]
  BY DEF CollectorInit
<1>3. pins \in Fields /\ opened \in [Procs -> Fields]
      /\ handles \in [Procs -> Fields] /\ program \in [Procs -> Fields]
  BY <1>1 DEF CollectorInit
<1> QED
  BY <1>2, <1>3 DEF CollectorInit, CollectorTypeOK

\* A handle taken from the pins keeps the maps opened so far a record of maps.
LEMMA OpenMapType ==
  ASSUME CollectorTypeOK, NEW p \in Procs, OpenMap(p)
  PROVE  opened' \in [Procs -> Fields] /\ handles' \in [Procs -> Fields]
<1> DEFINE maps == [opened[p] EXCEPT ![NextMap(p)] = pins[NextMap(p)]]
<1>1. maps \in Fields
  <2>1. opened[p] \in Fields /\ pins \in Fields
    BY DEF CollectorTypeOK
  <2>2. DOMAIN maps = Maps
    BY <2>1 DEF Fields
  <2>3. ASSUME NEW x \in Maps PROVE maps[x] \in Objects \cup {Nobody}
    BY <2>1, <2>3 DEF Fields
  <2>4. maps = [x \in Maps |-> maps[x]]
    BY <2>1 DEF Fields
  <2> HIDE DEF maps
  <2> QED
    BY <2>3, <2>4 DEF Fields
<1>2. /\ opened' = [opened EXCEPT ![p] = maps] \/ opened' = [opened EXCEPT ![p] = NoMaps]
      /\ handles' = handles \/ handles' = [handles EXCEPT ![p] = maps]
  BY DEF OpenMap
<1>3. NoMaps \in Fields
  BY DEF NoMaps, Fields
<1> HIDE DEF maps
<1>4. opened \in [Procs -> Fields] /\ handles \in [Procs -> Fields]
  BY DEF CollectorTypeOK
<1>5. opened' \in [Procs -> Fields]
  BY <1>1, <1>2, <1>3, <1>4
<1>6. handles' \in [Procs -> Fields]
  BY <1>1, <1>2, <1>4
<1> QED
  BY <1>5, <1>6

--------------------------------------------------------------------------------
(* The inductive invariant.                                                *)

AllHandles(f) == \A m \in Maps : f[m] # Nobody

\* Every handle, also of a Start that is not done, is what is pinned.
Pinned ==
  \A p \in Procs : \A m \in Maps :
    /\ opened[p][m] # Nobody => opened[p][m] = pins[m]
    /\ handles[p][m] # Nobody => handles[p][m] = pins[m]
    /\ program[p][m] # Nobody => program[p][m] = pins[m]

\* What a Collector has when it runs or attaches.
Complete ==
  \A p \in Procs :
    /\ running[p] => AllHandles(handles[p]) /\ stage[p] = "idle"
    /\ stage[p] = "attach" => AllHandles(handles[p]) /\ AllHandles(program[p]) /\ readable

\* The links of a process and the interfaces it shows as attached.
Linked ==
  \A p \in Procs : \A i \in Interfaces :
    /\ i \in attached[p] => hooked[i] = p /\ AllHandles(program[p]) /\ readable
    /\ hooked[i] = p => /\ i \in attached[p]
                        /\ running[p] \/ (stage[p] = "attach" /\ i \notin toAttach[p])

\* The packets shown are bounded by those in the map.
Shown ==
  \A p \in Procs : \A i \in Interfaces :
    /\ handles[p][StatsMap] = Nobody => shown[p][i] = 0
    /\ handles[p][StatsMap] # Nobody => shown[p][i] <= value[handles[p][StatsMap]][i]

CollectorInv == CollectorTypeOK /\ Pinned /\ Complete /\ Linked /\ Shown

LEMMA CollectorTypeStep == CollectorTypeOK /\ Complete /\ [CollectorNext]_collectorVars => CollectorTypeOK'
<1> SUFFICES ASSUME CollectorTypeOK, Complete, [CollectorNext]_collectorVars PROVE CollectorTypeOK'
  OBVIOUS
<1> USE CollectorConstants
<1>0. NoMaps \in Fields
  BY DEF NoMaps, Fields
<1>1. ASSUME NEW p \in Procs, Start(p) PROVE CollectorTypeOK'
  BY <1>0, <1>1 DEF Start, Go, CollectorTypeOK, kernel, fields, gauges
<1>2. ASSUME NEW p \in Procs, OpenMap(p) PROVE CollectorTypeOK'
  <2>1. opened' \in [Procs -> Fields] /\ handles' \in [Procs -> Fields]
    BY <1>2, OpenMapType
  <2>2. /\ stage' = stage \/ stage' = [stage EXCEPT ![p] = "idle"]
        /\ running' = running \/ running' = [running EXCEPT ![p] = TRUE]
        /\ up' = up \/ up' = [up EXCEPT ![p] = 1]
    BY <1>2 DEF OpenMap
  <2>3. UNCHANGED <<kernel, toAttach, program, names, attached, shown, starts>>
    BY <1>2 DEF OpenMap
  <2> QED
    BY <2>1, <2>2, <2>3 DEF CollectorTypeOK, kernel
<1>3. ASSUME NEW p \in Procs, OpenFails(p) PROVE CollectorTypeOK'
  BY <1>0, <1>3 DEF OpenFails, Go, CollectorTypeOK, kernel, fields, gauges
<1>4. ASSUME NEW p \in Procs, NEW m \in Maps, ReuseMap(p, m) PROVE CollectorTypeOK'
  BY <1>4 DEF ReuseMap, CollectorTypeOK, Fields, kernel, fields, gauges
<1>5. ASSUME NEW p \in Procs, NEW m \in Maps, NEW o \in Objects, CreateMap(p, m, o)
      PROVE CollectorTypeOK'
  BY <1>5 DEF CreateMap, CollectorTypeOK, Fields, fields, gauges
<1>6. ASSUME NEW p \in Procs, LoadFails(p) PROVE CollectorTypeOK'
  BY <1>0, <1>6 DEF LoadFails, Go, CollectorTypeOK, kernel, fields, gauges
<1>7. ASSUME NEW p \in Procs, Loaded(p) PROVE CollectorTypeOK'
  BY <1>0, <1>7 DEF Loaded, Go, CollectorTypeOK, gauges
<1>8. ASSUME NEW p \in Procs, NEW i \in Interfaces, Attach(p, i) PROVE CollectorTypeOK'
  BY <1>8 DEF Attach, CollectorTypeOK
<1>9. ASSUME NEW p \in Procs, NEW i \in Interfaces, AttachFails(p, i) PROVE CollectorTypeOK'
  <2>1. /\ names \in [Procs -> SUBSET Interfaces]
        /\ attached \in [Procs -> SUBSET Interfaces]
        /\ toAttach \in [Procs -> SUBSET Interfaces]
    BY DEF CollectorTypeOK
  <2>2. names' \in [Procs -> SUBSET Interfaces]
    BY <1>9, <2>1 DEF AttachFails
  <2>3. attached' \in [Procs -> SUBSET Interfaces] /\ toAttach' \in [Procs -> SUBSET Interfaces]
    BY <1>9, <2>1 DEF AttachFails
  <2>4. UNCHANGED <<kernel, stage, opened, handles, program, running, up, shown, starts>>
    BY <1>9 DEF AttachFails
  <2> QED
    BY <2>2, <2>3, <2>4 DEF CollectorTypeOK, kernel
<1>10. ASSUME NEW p \in Procs, Started(p) PROVE CollectorTypeOK'
  BY <1>10 DEF Started, Go, CollectorTypeOK, kernel, starting
<1>11. ASSUME NEW p \in Procs, Collect(p) PROVE CollectorTypeOK'
  <2>1. up' = [up EXCEPT ![p] = IF running[p] THEN 1 ELSE 0]
    BY <1>11 DEF Collect
  <2>2. shown' \in [Procs -> [Interfaces -> Nat]]
    <3> DEFINE now == [i \in Interfaces |->
           IF running[p] /\ i \in names[p] THEN value[handles[p][StatsMap]][i] ELSE shown[p][i]]
    <3>1. shown' = [shown EXCEPT ![p] = now]
      BY <1>11 DEF Collect, CollectorTypeOK
    <3>2. now \in [Interfaces -> Nat]
      BY <1>11 DEF CollectorTypeOK, Fields, Complete, AllHandles
    <3> QED
      BY <3>1, <3>2 DEF CollectorTypeOK
  <2> QED
    BY <2>1, <2>2, <1>11 DEF Collect, CollectorTypeOK, kernel, starting, fields
<1>12. ASSUME NEW p \in Procs, Stop(p) PROVE CollectorTypeOK'
  BY <1>12 DEF Stop, CollectorTypeOK, starting
<1>13. ASSUME NEW p \in Procs, Die(p) PROVE CollectorTypeOK'
  BY <1>0, <1>13 DEF Die, CollectorTypeOK
<1>14. ASSUME NEW i \in Interfaces, Packet(i) PROVE CollectorTypeOK'
  <2> DEFINE o == program[hooked[i]][StatsMap]
  <2>1. value' = [value EXCEPT ![o] = [value[o] EXCEPT ![i] = @ + 1]]
    BY <1>14 DEF Packet
  <2>2. CASE o \in Objects
    <3>1. [value[o] EXCEPT ![i] = @ + 1] \in [Interfaces -> Nat]
      BY <2>2 DEF CollectorTypeOK
    <3>2. value' \in [Objects -> [Interfaces -> Nat]]
      BY <2>1, <3>1 DEF CollectorTypeOK
    <3> QED
      BY <3>2, <1>14 DEF Packet, CollectorTypeOK, starting, fields, gauges
  <2>3. CASE o \notin Objects
    <3>1. value' = value
      BY <2>1, <2>3 DEF CollectorTypeOK
    <3> QED
      BY <3>1, <1>14 DEF Packet, CollectorTypeOK, starting, fields, gauges
  <2> QED
    BY <2>2, <2>3
<1>15. ASSUME UNCHANGED collectorVars PROVE CollectorTypeOK'
  BY <1>15 DEF collectorVars, kernel, starting, fields, gauges, CollectorTypeOK
<1> QED
  BY <1>1, <1>2, <1>3, <1>4, <1>5, <1>6, <1>7, <1>8, <1>9, <1>10, <1>11, <1>12, <1>13,
     <1>14, <1>15 DEF CollectorNext, Starting

\* Handles come from the pins, and a pinned name keeps its object.
LEMMA PinnedStep == CollectorInv /\ [CollectorNext]_collectorVars => Pinned'
<1> SUFFICES ASSUME CollectorInv, [CollectorNext]_collectorVars PROVE Pinned'
  OBVIOUS
<1> USE CollectorConstants DEF CollectorInv, Pinned, CollectorTypeOK, Fields
<1>1. ASSUME NEW p \in Procs, Start(p) PROVE Pinned'
  BY <1>1 DEF Start, kernel, fields, NoMaps
<1>2. ASSUME NEW p \in Procs, OpenMap(p) PROVE Pinned'
  <2> DEFINE maps == [opened[p] EXCEPT ![NextMap(p)] = pins[NextMap(p)]]
  <2>1. \A m \in Maps : maps[m] # Nobody => maps[m] = pins[m]
    OBVIOUS
  <2>2. /\ opened' = [opened EXCEPT ![p] = maps] \/ opened' = [opened EXCEPT ![p] = NoMaps]
        /\ handles' = handles \/ handles' = [handles EXCEPT ![p] = maps]
        /\ pins' = pins /\ program' = program
    BY <1>2 DEF OpenMap, kernel
  <2> HIDE DEF maps
  <2>3. ASSUME NEW q \in Procs, NEW m \in Maps, opened'[q][m] # Nobody
        PROVE  opened'[q][m] = pins'[m]
    <3>1. opened'[q] \in {opened[q], maps, NoMaps}
      BY <2>2
    <3>2. NoMaps[m] = Nobody
      BY DEF NoMaps
    <3> QED
      BY <2>1, <2>2, <2>3, <3>1, <3>2
  <2>4. ASSUME NEW q \in Procs, NEW m \in Maps, handles'[q][m] # Nobody
        PROVE  handles'[q][m] = pins'[m]
    <3>1. handles'[q] \in {handles[q], maps}
      BY <2>2
    <3> QED
      BY <2>1, <2>2, <2>4, <3>1
  <2> QED
    BY <2>2, <2>3, <2>4
<1>3. ASSUME NEW p \in Procs, OpenFails(p) PROVE Pinned'
  BY <1>3 DEF OpenFails, kernel, fields, NoMaps
<1>4. ASSUME NEW p \in Procs, NEW m \in Maps, ReuseMap(p, m) PROVE Pinned'
  BY <1>4 DEF ReuseMap, kernel, fields
<1>5. ASSUME NEW p \in Procs, NEW m \in Maps, NEW o \in Objects, CreateMap(p, m, o)
      PROVE Pinned'
  BY <1>5 DEF CreateMap, fields
<1>6. ASSUME NEW p \in Procs, LoadFails(p) PROVE Pinned'
  BY <1>6 DEF LoadFails, kernel, fields, NoMaps
<1>7. ASSUME NEW p \in Procs, Loaded(p) PROVE Pinned'
  BY <1>7 DEF Loaded, NoMaps
<1>8. ASSUME NEW p \in Procs, Die(p) PROVE Pinned'
  BY <1>8 DEF Die, NoMaps
<1>9. ASSUME UNCHANGED <<pins, opened, handles, program>> PROVE Pinned'
  BY <1>9
<1> QED
  BY <1>1, <1>2, <1>3, <1>4, <1>5, <1>6, <1>7, <1>8, <1>9
  DEF CollectorNext, Starting, Attach, AttachFails, Started, Collect, Stop, Packet, collectorVars, kernel,
      starting, fields

LEMMA CompleteStep == CollectorInv /\ [CollectorNext]_collectorVars => Complete'
<1> SUFFICES ASSUME CollectorInv, [CollectorNext]_collectorVars PROVE Complete'
  OBVIOUS
<1> USE CollectorConstants DEF CollectorInv, Complete, CollectorTypeOK, Fields, AllHandles
<1>1. ASSUME NEW p \in Procs, Start(p) PROVE Complete'
  BY <1>1 DEF Start, Go, kernel, fields
<1>2. ASSUME NEW p \in Procs, OpenMap(p) PROVE Complete'
  <2> DEFINE maps == [opened[p] EXCEPT ![NextMap(p)] = pins[NextMap(p)]]
  <2>1. CASE UNCHANGED <<stage, handles, running>>
    BY <1>2, <2>1 DEF OpenMap, kernel
  <2>2. CASE Got(maps) = Maps /\ stage' = [stage EXCEPT ![p] = "idle"]
             /\ handles' = [handles EXCEPT ![p] = maps]
             /\ running' = [running EXCEPT ![p] = TRUE]
    <3>1. AllHandles(maps)
      BY <2>2 DEF Got
    <3> HIDE DEF maps
    <3> QED
      BY <1>2, <2>2, <3>1 DEF OpenMap, kernel
  <2> QED
    BY <1>2, <2>1, <2>2 DEF OpenMap
<1>3. ASSUME NEW p \in Procs, OpenFails(p) PROVE Complete'
  BY <1>3 DEF OpenFails, Go, kernel, fields
<1>4. ASSUME NEW p \in Procs, LoadFails(p) PROVE Complete'
  BY <1>4 DEF LoadFails, Go, kernel, fields
<1>5. ASSUME NEW p \in Procs, Loaded(p) PROVE Complete'
  BY <1>5 DEF Loaded, Go, Got
<1>6. ASSUME NEW p \in Procs, Started(p) PROVE Complete'
  BY <1>6 DEF Started, Go, kernel
<1>7. ASSUME NEW p \in Procs, Stop(p) PROVE Complete'
  BY <1>7 DEF Stop
<1>8. ASSUME NEW p \in Procs, Die(p) PROVE Complete'
  BY <1>8 DEF Die
<1>9. ASSUME UNCHANGED <<readable, stage, handles, program, running>> PROVE Complete'
  BY <1>9
<1> QED
  BY <1>1, <1>2, <1>3, <1>4, <1>5, <1>6, <1>7, <1>8, <1>9
  DEF CollectorNext, Starting, ReuseMap, CreateMap, Attach, AttachFails, Collect, Packet, collectorVars,
      kernel, starting, fields

LEMMA LinkedStep == CollectorInv /\ [CollectorNext]_collectorVars => Linked'
<1> SUFFICES ASSUME CollectorInv, [CollectorNext]_collectorVars PROVE Linked'
  OBVIOUS
<1> USE CollectorConstants DEF CollectorInv, Linked, Complete, CollectorTypeOK, Fields, AllHandles
<1>1. ASSUME NEW p \in Procs, Start(p) PROVE Linked'
  BY <1>1 DEF Start, Go, kernel, fields, gauges
<1>2. ASSUME NEW p \in Procs, OpenMap(p) PROVE Linked'
  BY <1>2 DEF OpenMap, kernel
<1>3. ASSUME NEW p \in Procs, OpenFails(p) PROVE Linked'
  BY <1>3 DEF OpenFails, Go, kernel, fields, gauges
<1>4. ASSUME NEW p \in Procs, LoadFails(p) PROVE Linked'
  BY <1>4 DEF LoadFails, Go, kernel, fields, gauges
<1>5. ASSUME NEW p \in Procs, Loaded(p) PROVE Linked'
  BY <1>5 DEF Loaded, Go, Got, gauges
<1>6. ASSUME NEW p \in Procs, NEW i \in Interfaces, Attach(p, i) PROVE Linked'
  BY <1>6 DEF Attach
<1>7. ASSUME NEW p \in Procs, NEW i \in Interfaces, AttachFails(p, i) PROVE Linked'
  BY <1>7 DEF AttachFails, kernel
<1>8. ASSUME NEW p \in Procs, Started(p) PROVE Linked'
  <2>1. /\ running' = [running EXCEPT ![p] = TRUE] /\ stage' = [stage EXCEPT ![p] = "idle"]
        /\ hooked' = hooked /\ attached' = attached /\ program' = program
        /\ readable' = readable /\ toAttach' = toAttach
    BY <1>8 DEF Started, Go, kernel, starting
  <2>2. ASSUME NEW q \in Procs, running[q] PROVE running'[q]
    BY <2>1, <2>2
  <2>3. ASSUME NEW q \in Procs, stage[q] = "attach"
        PROVE  running'[q] \/ stage'[q] = "attach"
    <3>1. CASE q = p
      BY <2>1, <3>1
    <3>2. CASE q # p
      BY <2>1, <2>3, <3>2
    <3> QED
      BY <3>1, <3>2
  <2>4. ASSUME NEW q \in Procs, NEW i \in Interfaces, hooked'[i] = q
        PROVE  /\ i \in attached'[q]
               /\ running'[q] \/ (stage'[q] = "attach" /\ i \notin toAttach'[q])
    <3>1. hooked[i] = q
      BY <2>1, <2>4
    <3>2. i \in attached[q] /\ (running[q] \/ stage[q] = "attach")
      BY <3>1
    <3>3. ~running[q] => i \notin toAttach[q]
      BY <3>1
    <3>4. i \in attached'[q]
      BY <2>1, <3>2
    <3>5. CASE running[q]
      BY <2>2, <3>4, <3>5
    <3>6. CASE ~running[q]
      BY <2>1, <2>3, <3>2, <3>3, <3>4, <3>6
    <3> QED
      BY <3>5, <3>6
  <2>5. ASSUME NEW q \in Procs, NEW i \in Interfaces, i \in attached'[q]
        PROVE  hooked'[i] = q /\ (\A m \in Maps : program'[q][m] # Nobody) /\ readable'
    BY <2>1, <2>5
  <2> QED
    BY <2>4, <2>5
<1>9. ASSUME NEW p \in Procs, Stop(p) PROVE Linked'
  BY <1>9 DEF Stop, starting
<1>10. ASSUME NEW p \in Procs, Die(p) PROVE Linked'
  BY <1>10 DEF Die
<1>11. ASSUME UNCHANGED <<readable, hooked, stage, toAttach, program, running, attached>>
       PROVE Linked'
  BY <1>11
<1> QED
  BY <1>1, <1>2, <1>3, <1>4, <1>5, <1>6, <1>7, <1>8, <1>9, <1>10, <1>11
  DEF CollectorNext, Starting, ReuseMap, CreateMap, Collect, Packet, collectorVars, kernel, starting,
      fields, gauges

\* The maps only grow, and a Collector keeps the map it has shown packets of.
LEMMA ShownStep == CollectorInv /\ [CollectorNext]_collectorVars => Shown'
<1> SUFFICES ASSUME CollectorInv, [CollectorNext]_collectorVars PROVE Shown'
  OBVIOUS
<1> USE CollectorConstants DEF CollectorInv, Shown
<1>t. /\ \A p \in Procs : handles[p][StatsMap] \in Objects \cup {Nobody}
      /\ \A p \in Procs : \A i \in Interfaces : shown[p][i] \in Nat
      /\ \A o \in Objects : \A i \in Interfaces : value[o][i] \in Nat
  BY DEF CollectorTypeOK, Fields
<1>p. pins[StatsMap] \in Objects \cup {Nobody}
  BY DEF CollectorTypeOK, Fields
<1>1. ASSUME NEW p \in Procs, OpenMap(p) PROVE Shown'
  <2>1. \/ handles' = handles
        \/ handles' = [handles EXCEPT ![p] = [opened[p] EXCEPT ![NextMap(p)] = pins[NextMap(p)]]]
    BY <1>1 DEF OpenMap
  <2>2. value' = value /\ shown' = shown
    BY <1>1 DEF OpenMap, kernel
  <2>3. ASSUME NEW q \in Procs, handles[q][StatsMap] # Nobody
        PROVE  handles'[q][StatsMap] = handles[q][StatsMap]
    <3> DEFINE maps == [opened[p] EXCEPT ![NextMap(p)] = pins[NextMap(p)]]
    <3>1. CASE handles' = handles
      BY <3>1
    <3>2. CASE handles' = [handles EXCEPT ![p] = maps] /\ Got(maps) = Maps
      <4>1. maps[StatsMap] # Nobody
        BY <3>2 DEF Got
      <4>2. handles'[q][StatsMap] # Nobody
        <5> HIDE DEF maps
        <5> QED
          BY <2>3, <3>2, <4>1 DEF CollectorTypeOK
      <4>3. pins' = pins
        BY <1>1 DEF OpenMap, kernel
      <4> QED
        BY <4>2, <4>3, <2>3, PinnedStep DEF Pinned
    <3> QED
      BY <1>1, <3>1, <3>2 DEF OpenMap
  <2>4. ASSUME NEW q \in Procs PROVE handles'[q][StatsMap] \in Objects \cup {Nobody}
    BY <1>1, CollectorTypeStep, <2>4 DEF CollectorTypeOK, Fields
  <2> QED
    BY <2>2, <2>3, <2>4, <1>t
<1>2. ASSUME NEW p \in Procs, Loaded(p) PROVE Shown'
  <2>1. /\ handles' = [handles EXCEPT ![p] = opened[p]] /\ pins' = pins
        /\ value' = value /\ shown' = shown
    BY <1>2 DEF Loaded, gauges
  <2>2. opened[p][StatsMap] = pins[StatsMap] /\ opened[p][StatsMap] # Nobody
    BY <1>2 DEF Loaded, Got, Pinned
  <2> QED
    BY <2>1, <2>2, <1>t, <1>p DEF Pinned, CollectorTypeOK
<1>3. ASSUME NEW p \in Procs, Collect(p) PROVE Shown'
  <2> DEFINE now == [i \in Interfaces |->
        IF running[p] /\ i \in names[p] THEN value[handles[p][StatsMap]][i] ELSE shown[p][i]]
  <2>1. handles' = handles /\ value' = value /\ shown' = [shown EXCEPT ![p] = now]
    BY <1>3 DEF Collect, fields, kernel, CollectorTypeOK
  <2>2. running[p] => handles[p][StatsMap] # Nobody
    BY DEF Complete, AllHandles
  <2>3. \A i \in Interfaces :
          \/ now[i] = shown[p][i]
          \/ (handles[p][StatsMap] # Nobody /\ now[i] = value[handles[p][StatsMap]][i])
    BY <2>2
  <2> HIDE DEF now
  <2>4. ASSUME NEW q \in Procs
        PROVE  shown'[q] = shown[q] \/ (q = p /\ shown'[q] = now)
    <3>1. shown \in [Procs -> [Interfaces -> Nat]]
      BY DEF CollectorTypeOK
    <3>2. CASE q = p
      BY <2>1, <3>1, <3>2
    <3>3. CASE q # p
      BY <2>1, <3>1, <3>3
    <3> QED
      BY <3>2, <3>3
  <2> QED
    BY <2>1, <2>3, <2>4, <1>t
<1>4. ASSUME NEW p \in Procs, Die(p) PROVE Shown'
  BY <1>4, <1>t DEF Die, NoMaps, CollectorTypeOK
<1>5. ASSUME NEW i \in Interfaces, Packet(i) PROVE Shown'
  <2>1. /\ handles' = handles /\ shown' = shown
        /\ \A o \in Objects : \A j \in Interfaces : value'[o][j] \in Nat /\ value'[o][j] >= value[o][j]
    BY <1>5, <1>t DEF Packet, fields, gauges, CollectorTypeOK
  <2> QED
    BY <2>1, <1>t
<1>6. ASSUME UNCHANGED <<handles, value, shown>> PROVE Shown'
  BY <1>6
<1> QED
  BY <1>1, <1>2, <1>3, <1>4, <1>5, <1>6
  DEF CollectorNext, Starting, Start, OpenFails, ReuseMap, CreateMap, LoadFails, Attach,
      AttachFails, Started, Stop, collectorVars, kernel, fields, gauges

--------------------------------------------------------------------------------
LEMMA CollectorInvariance == CollectorSpec => []CollectorInv
<1>1. CollectorInit => CollectorInv
  <2> SUFFICES ASSUME CollectorInit PROVE CollectorInv
    OBVIOUS
  <2>1. CollectorTypeOK
    BY CollectorTypeInit
  <2>2. Pinned /\ Complete
    BY DEF CollectorInit, Pinned, Complete, NoMaps
  <2>3. Linked
    BY CollectorConstants DEF CollectorInit, Linked
  <2>4. Shown
    BY CollectorConstants DEF CollectorInit, Shown, NoMaps
  <2> QED
    BY <2>1, <2>2, <2>3, <2>4 DEF CollectorInv
<1>2. CollectorInv /\ [CollectorNext]_collectorVars => CollectorInv'
  BY CollectorTypeStep, PinnedStep, CompleteStep, LinkedStep, ShownStep DEF CollectorInv
<1> QED
  BY <1>1, <1>2, PTL DEF CollectorSpec

\* The variables keep to their types.
THEOREM CollectorTypes == CollectorSpec => []CollectorTypeOK
  BY CollectorInvariance, PTL DEF CollectorInv

\* Every running Collector reads the maps that are pinned.
THEOREM CollectorsShare == CollectorSpec => []RunningSharesPins
<1>1. CollectorInv => RunningSharesPins
  <2> SUFFICES ASSUME CollectorInv, NEW p \in Procs, running[p] PROVE handles[p] = pins
    BY DEF RunningSharesPins
  <2>1. \A m \in Maps : handles[p][m] = pins[m]
    BY DEF CollectorInv, Pinned, Complete, AllHandles
  <2>2. handles[p] \in Fields /\ pins \in Fields
    BY DEF CollectorInv, CollectorTypeOK
  <2> QED
    BY <2>1, <2>2 DEF Fields
<1> QED
  BY <1>1, CollectorInvariance, PTL

\* An interface shown as attached is measured, in the maps that are pinned.
THEOREM AttachedMeasured == CollectorSpec => []AttachedIsMeasured
<1>1. CollectorInv => AttachedIsMeasured
  <2> SUFFICES ASSUME CollectorInv, NEW p \in Procs, NEW i \in attached[p]
               PROVE  hooked[i] = p /\ program[p] = pins /\ readable
    BY DEF AttachedIsMeasured
  <2>1. i \in Interfaces
    BY DEF CollectorInv, CollectorTypeOK
  <2>2. hooked[i] = p /\ AllHandles(program[p]) /\ readable
    BY <2>1 DEF CollectorInv, Linked
  <2>3. \A m \in Maps : program[p][m] = pins[m]
    BY <2>2 DEF CollectorInv, Pinned, AllHandles
  <2>4. program[p] \in Fields /\ pins \in Fields
    BY DEF CollectorInv, CollectorTypeOK
  <2> QED
    BY <2>2, <2>3, <2>4 DEF Fields
<1> QED
  BY <1>1, CollectorInvariance, PTL

\* A Collector that neither runs nor starts has no program on any interface.
THEOREM NothingStaysAttached == CollectorSpec => []NothingLeftBehind
<1>1. CollectorInv => NothingLeftBehind
  BY DEF CollectorInv, Linked, NothingLeftBehind, Links
<1> QED
  BY <1>1, CollectorInvariance, PTL

\* The packets shown never decrease and are never more than were counted.
THEOREM ShownTotalsGrow == CollectorSpec => TotalsGrow
<1>1. ASSUME CollectorInv, CollectorInv', [CollectorNext]_collectorVars, NEW p \in Procs, NEW i \in Interfaces, ~Die(p)
      PROVE  /\ shown'[p][i] >= shown[p][i]
             /\ \E o \in Objects : shown'[p][i] <= value'[o][i]
  <2>t. /\ shown[p][i] \in Nat /\ shown'[p][i] \in Nat
        /\ handles[p][StatsMap] \in Objects \cup {Nobody}
        /\ handles'[p][StatsMap] \in Objects \cup {Nobody}
        /\ \A o \in Objects : value'[o][i] \in Nat
    BY <1>1, CollectorConstants DEF CollectorInv, CollectorTypeOK, Fields
  <2>1. shown'[p][i] >= shown[p][i]
    <3>1. ASSUME NEW q \in Procs, Die(q) PROVE shown'[p][i] >= shown[p][i]
      <4>1. q # p
        BY <1>1, <3>1
      <4>2. shown'[p][i] = shown[p][i]
        BY <1>1, <3>1, <4>1 DEF Die, CollectorInv, CollectorTypeOK
      <4> QED
        BY <4>2, <2>t
    <3>2. ASSUME NEW q \in Procs, Collect(q) PROVE shown'[p][i] >= shown[p][i]
      <4>1. shown' = [shown EXCEPT ![q] = [j \in Interfaces |->
               IF running[q] /\ j \in names[q] THEN value[handles[q][StatsMap]][j]
               ELSE shown[q][j]]]
        BY <3>2 DEF Collect, CollectorInv, CollectorTypeOK
      <4>2. running[q] => handles[q][StatsMap] # Nobody
        BY <1>1, CollectorConstants DEF CollectorInv, Complete, AllHandles
      <4>3. CASE q = p /\ running[p] /\ i \in names[p]
        <5>1. shown'[p][i] = value[handles[p][StatsMap]][i]
          BY <4>1, <4>3, <1>1 DEF CollectorInv, CollectorTypeOK
        <5>2. shown[p][i] <= value[handles[p][StatsMap]][i]
          BY <4>2, <4>3, <1>1 DEF CollectorInv, Shown
        <5> QED
          BY <5>1, <5>2, <2>t
      <4>4. CASE ~(q = p /\ running[p] /\ i \in names[p])
        <5>1. shown'[p][i] = shown[p][i]
          BY <4>1, <4>4, <1>1 DEF CollectorInv, CollectorTypeOK
        <5> QED
          BY <5>1, <2>t
      <4> QED
        BY <4>3, <4>4
    <3>3. CASE UNCHANGED shown
      BY <3>3, <2>t
    <3>4. UNCHANGED shown \/ \E q \in Procs : Die(q) \/ Collect(q)
      <4>1. \A q \in Procs : Starting(q) => UNCHANGED shown
        BY DEF Starting, Start, OpenMap, OpenFails, ReuseMap, CreateMap, LoadFails,
               Loaded, Attach, AttachFails, Started, gauges
      <4>2. ASSUME NEW q \in Procs, Stop(q) PROVE UNCHANGED shown
        BY <4>2 DEF Stop
      <4>3. ASSUME NEW j \in Interfaces, Packet(j) PROVE UNCHANGED shown
        BY <4>3 DEF Packet, gauges
      <4> QED
        BY <1>1, <4>1, <4>2, <4>3 DEF CollectorNext, collectorVars, gauges
    <3> QED
      BY <3>1, <3>2, <3>3, <3>4
  <2>2. \E o \in Objects : shown'[p][i] <= value'[o][i]
    <3>1. CASE handles'[p][StatsMap] = Nobody
      <4>1. shown'[p][i] = 0
        BY <1>1, <3>1 DEF CollectorInv, Shown
      <4> QED
        BY <4>1, <2>t, CollectorConstants
    <3>2. CASE handles'[p][StatsMap] # Nobody
      BY <1>1, <3>2, <2>t DEF CollectorInv, Shown
    <3> QED
      BY <3>1, <3>2
  <2> QED
    BY <2>1, <2>2
<1>2. CollectorInv /\ CollectorInv' /\ [CollectorNext]_collectorVars =>
        [\A p \in Procs, i \in Interfaces : ~Die(p) =>
           /\ shown'[p][i] >= shown[p][i]
           /\ \E o \in Objects : shown'[p][i] <= value'[o][i]]_collectorVars
  BY <1>1
<1> QED
  BY <1>2, CollectorInvariance, PTL DEF CollectorSpec, TotalsGrow
================================================================================
