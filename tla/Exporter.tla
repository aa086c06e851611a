--------------------------------- MODULE Exporter ---------------------------------
(***************************************************************************)
(* The ebpf-exporter process (cmd/ebpf-exporter/main.go): main, which      *)
(* opens the maps once at start and closes them at the end, the goroutine  *)
(* that polls them, and the HTTP handlers.                                 *)
(*                                                                         *)
(* The pin directory and the content of the maps belong to its             *)
(* environment, which changes them at any moment, also between two maps    *)
(* of one openMaps and between two reads of one collect.  All the          *)
(* environment is asked for is that a statistics map never decreases.      *)
(*                                                                         *)
(* collector.mu is held from the start of a collect to its end, so it is   *)
(* free exactly when the poller is waiting: what close and readyHandler do *)
(* under it is one step, enabled then.  The values collect publishes are   *)
(* the same for every interface, so one interface stands for all.  A       *)
(* sumPerCPUMap is one read here; StressTotals shows how far it is from    *)
(* that.                                                                   *)
(***************************************************************************)
EXTENDS Integers, Sequences

CONSTANTS
  ReadOrder,   \* the statistics maps as collect reads them, stats_packets first
  LoopMap,     \* config_loop_count
  RateMaps,    \* the statistics maps whose rate is exported
  Objects,     \* identities of map objects
  None,        \* no map object
  MaxUInt64,   \* the largest uint64
  Root         \* the exporter may open maps that are not world-readable

StatMaps == {ReadOrder[n] : n \in 1 .. Len(ReadOrder)}
PacketsMap == ReadOrder[1]
OpenMaps == StatMaps \cup {LoopMap}

ASSUME ExporterAssumption ==
  /\ ReadOrder \in Seq(STRING) /\ Len(ReadOrder) > 0
  /\ \A j, k \in 1 .. Len(ReadOrder) : j # k => ReadOrder[j] # ReadOrder[k]
  /\ LoopMap \notin StatMaps
  /\ RateMaps \subseteq StatMaps
  /\ None \notin Objects
  /\ MaxUInt64 \in Nat
  /\ Root \in BOOLEAN

VARIABLES
  \* The environment.
  pins,      \* the object pinned under each name, or None
  readable,  \* the names with mode 0644
  value,     \* value[m][o]: the content of object o of map m
  \* The collector.
  pc,        \* the poller: in main's openMaps, waiting, or inside collect
  toOpen,    \* the maps openMaps has still to open
  next,      \* the next map of ReadOrder to read
  handle,    \* the objects the collector's map pointers refer to
  closed,    \* the maps have been closed
  sample,    \* packets, loops, bytes, timeNs of the collect in progress
  last,      \* LastPackets, LastLoops, ...
  latencyMapsAvailable,
  \* The metrics.
  up,        \* ebpf_exporter_up
  ifaceUp,   \* ebpf_stress_interface_up
  totals,    \* ebpf_stress_packets_total, ...
  rates,     \* ebpf_stress_packets_per_second, ..., times the elapsed time
  latencyFresh, \* the latest collect has updated the kernel stack metrics
  \* main and the handlers.
  stage,     \* how far main is
  ready      \* the latest answer of /ready

environment == <<pins, readable, value>>
collector == <<pc, toOpen, next, handle, closed, sample, last, latencyMapsAvailable>>
metrics == <<up, ifaceUp, totals, rates, latencyFresh>>
vars == <<environment, collector, metrics, stage, ready>>

Zeros == [m \in StatMaps |-> 0]

--------------------------------------------------------------------------------
(* newMetrics registers the gauges; one that has not been set counts as 0. *)
(* The latency maps, which nothing in this repository unpins, are there at *)
(* start or are not: in the latter case, or if they are not asked for,     *)
(* they stay unavailable.                                                  *)
Init ==
  /\ pins \in [OpenMaps -> Objects \cup {None}]
  /\ readable \in SUBSET OpenMaps
  /\ value \in [OpenMaps -> [Objects -> 0 .. MaxUInt64]]
  /\ pc = "boot" /\ toOpen = OpenMaps /\ next = 1
  /\ handle = [m \in OpenMaps |-> None] /\ closed = FALSE
  /\ sample = Zeros /\ last = Zeros
  /\ latencyMapsAvailable = FALSE
  /\ up = 0 /\ ifaceUp = 0
  /\ totals = Zeros /\ rates = [m \in RateMaps |-> 0] /\ latencyFresh = FALSE
  /\ stage = "start" /\ ready = "unasked"

--------------------------------------------------------------------------------
(* openMaps: the range over a Go map takes the names in any order and      *)
(* stops at the first it cannot open, keeping the handles it has set.      *)

CanOpen(m) == pins[m] # None /\ (Root \/ m \in readable)

\* One map opened; with the last one openMaps succeeds, and main goes on or
\* the collect that called it does.
OpenMap(m) ==
  /\ pc \in {"boot", "open"} /\ m \in toOpen /\ CanOpen(m)
  /\ handle' = [handle EXCEPT ![m] = pins[m]]
  /\ toOpen' = toOpen \ {m}
  /\ IF toOpen = {m}
     THEN /\ up' = 1
          /\ pc' = IF pc = "boot" THEN "latency" ELSE "read"
          /\ next' = 1
     ELSE UNCHANGED <<up, pc, next>>
  /\ UNCHANGED <<environment, closed, sample, last, latencyMapsAvailable, ifaceUp,
                 totals, rates, latencyFresh, stage, ready>>

\* MUTANT of OpenFails: the map is skipped and the others are opened.
OpenFailsSkipping(m) ==
  /\ pc \in {"boot", "open"} /\ m \in toOpen /\ ~CanOpen(m)
  /\ toOpen' = toOpen \ {m}
  /\ IF toOpen = {m}
     THEN /\ up' = 1
          /\ pc' = IF pc = "boot" THEN "latency" ELSE "read"
          /\ next' = 1
     ELSE UNCHANGED <<up, pc, next>>
  /\ UNCHANGED <<environment, handle, closed, sample, last, latencyMapsAvailable,
                 ifaceUp, totals, rates, latencyFresh, stage, ready>>

\* One map that is not there, or not readable: main goes on without, and
\* collect returns at once, before the latency metrics.
OpenFails(m) ==
  /\ pc \in {"boot", "open"} /\ m \in toOpen /\ ~CanOpen(m)
  /\ up' = 0
  /\ toOpen' = {}
  /\ IF pc = "boot" THEN pc' = "latency" /\ UNCHANGED latencyFresh
                    ELSE pc' = "wait" /\ latencyFresh' = FALSE
  /\ UNCHANGED <<environment, next, handle, closed, sample, last,
                 latencyMapsAvailable, ifaceUp, totals, rates, stage, ready>>

\* main tries openLatencyMaps, then starts the poller and the HTTP server.
OpenLatencyMaps(found) ==
  /\ pc = "latency"
  /\ latencyMapsAvailable' = found
  /\ pc' = "wait"
  /\ stage' = "serving"
  /\ UNCHANGED <<environment, toOpen, next, handle, closed, sample, last, metrics,
                 ready>>

--------------------------------------------------------------------------------
(* collect, called once when the poller starts and then at every tick.     *)

\* MUTANT of Poll: the maps opened at start or never.
PollUnconnected ==
  /\ pc = "wait" /\ stage # "exited"
  /\ pc' = "read" /\ next' = 1
  /\ UNCHANGED <<environment, toOpen, handle, closed, sample, last,
                 latencyMapsAvailable, metrics, stage, ready>>

\* Reconnect only if stats_packets is not open.  The select of run may still
\* choose a tick after the context is cancelled, even after close.
Poll ==
  /\ pc = "wait" /\ stage # "exited"
  /\ IF handle[PacketsMap] = None
     THEN pc' = "open" /\ toOpen' = OpenMaps /\ UNCHANGED next
     ELSE pc' = "read" /\ next' = 1 /\ UNCHANGED toOpen
  /\ UNCHANGED <<environment, handle, closed, sample, last, latencyMapsAvailable,
                 metrics, stage, ready>>

\* MUTANT of Sum: the map looked up by its path at every read.
SumByPath(m) == IF pins[m] = None \/ closed THEN 0 ELSE value[m][pins[m]]

\* sumPerCPUMap: 0 for a map that is not open, and for one that is closed,
\* whose lookup fails.
Sum(m) == IF handle[m] = None \/ closed THEN 0 ELSE value[m][handle[m]]

ReadMap ==
  /\ pc = "read" /\ stage # "exited"
  /\ sample' = [sample EXCEPT ![ReadOrder[next]] = Sum(ReadOrder[next])]
  /\ IF next = Len(ReadOrder) THEN pc' = "publish" /\ UNCHANGED next
                              ELSE next' = next + 1 /\ UNCHANGED pc
  /\ UNCHANGED <<environment, toOpen, handle, closed, last, latencyMapsAvailable,
                 metrics, stage, ready>>

\* MUTANT of Minus: the operands swapped.
MinusSwapped(a, b) == IF b >= a THEN b - a ELSE b - a + MaxUInt64 + 1

\* The subtraction of two uint64.
Minus(a, b) == IF a >= b THEN a - b ELSE a - b + MaxUInt64 + 1

\* MUTANT of Publish: the gauges set only when a packet has been counted.
PublishWhenActive ==
  /\ pc = "publish" /\ stage # "exited"
  /\ IF sample[PacketsMap] > 0
     THEN /\ ifaceUp' = 1
          /\ totals' = sample
          /\ rates' = [m \in RateMaps |-> Minus(sample[m], last[m])]
     ELSE ifaceUp' = 0 /\ UNCHANGED <<totals, rates>>
  /\ last' = sample
  /\ latencyFresh' = latencyMapsAvailable
  /\ pc' = "wait"
  /\ UNCHANGED <<environment, toOpen, next, handle, closed, sample,
                 latencyMapsAvailable, up, stage, ready>>

\* MUTANT of Publish: the sample not remembered for the next collect.
PublishForgetting ==
  /\ pc = "publish" /\ stage # "exited"
  /\ totals' = sample
  /\ IF sample[PacketsMap] > 0
     THEN /\ ifaceUp' = 1
          /\ rates' = [m \in RateMaps |-> Minus(sample[m], last[m])]
     ELSE ifaceUp' = 0 /\ UNCHANGED rates
  /\ latencyFresh' = latencyMapsAvailable
  /\ pc' = "wait"
  /\ UNCHANGED <<environment, toOpen, next, handle, closed, sample, last,
                 latencyMapsAvailable, up, stage, ready>>

\* The gauges are set, the rates only if a packet has been counted, and the
\* sample is remembered; then collectLatencyMetrics.
Publish ==
  /\ pc = "publish" /\ stage # "exited"
  /\ totals' = sample
  /\ IF sample[PacketsMap] > 0
     THEN /\ ifaceUp' = 1
          /\ rates' = [m \in RateMaps |-> Minus(sample[m], last[m])]
     ELSE ifaceUp' = 0 /\ UNCHANGED rates
  /\ last' = sample
  /\ latencyFresh' = latencyMapsAvailable
  /\ pc' = "wait"
  /\ UNCHANGED <<environment, toOpen, next, handle, closed, sample,
                 latencyMapsAvailable, up, stage, ready>>

\* run returns when it sees the context cancelled.
PollerReturns ==
  /\ pc = "wait" /\ stage \in {"cancelled", "closed"}
  /\ pc' = "returned"
  /\ UNCHANGED <<environment, toOpen, next, handle, closed, sample, last,
                 latencyMapsAvailable, metrics, stage, ready>>

--------------------------------------------------------------------------------
(* The handlers and the end of main.                                       *)

LockFree == pc \in {"wait", "returned"}

\* readyHandler, until the server has shut down.
Probe ==
  /\ stage \in {"serving", "stopping"} /\ LockFree
  /\ ready' = IF handle[PacketsMap] # None THEN "ready" ELSE "not ready"
  /\ UNCHANGED <<environment, collector, metrics, stage>>

Advance(from, to) == stage = from /\ stage' = to

\* The signal: main calls server.Shutdown.
Signal ==
  /\ Advance("serving", "stopping")
  /\ UNCHANGED <<environment, collector, metrics, ready>>

\* Shutdown has returned, or given up after 5s; cancel.
Cancel ==
  /\ Advance("stopping", "cancelled")
  /\ UNCHANGED <<environment, collector, metrics, ready>>

\* collector.close waits for the lock; the pointers are not reset.
Close ==
  /\ Advance("cancelled", "closed") /\ LockFree
  /\ closed' = TRUE
  /\ UNCHANGED <<environment, pc, toOpen, next, handle, sample, last,
                 latencyMapsAvailable, metrics, ready>>

\* main returns, wherever the poller is.
Exit ==
  /\ Advance("closed", "exited")
  /\ UNCHANGED <<environment, collector, metrics, ready>>

--------------------------------------------------------------------------------
\* What the environment may do in one step: anything to the pins, and count.
Environment ==
  /\ pins' \in [OpenMaps -> Objects \cup {None}]
  /\ readable' \in SUBSET OpenMaps
  /\ value' \in [OpenMaps -> [Objects -> 0 .. MaxUInt64]]
  /\ \A m \in StatMaps, o \in Objects : value'[m][o] >= value[m][o]
  /\ UNCHANGED <<collector, metrics, stage, ready>>

Collector ==
  \/ \E m \in OpenMaps : OpenMap(m) \/ OpenFails(m)
  \/ \E found \in BOOLEAN : OpenLatencyMaps(found)
  \/ Poll \/ ReadMap \/ Publish \/ PollerReturns

Main == Signal \/ Cancel \/ Close \/ Exit

Exporting == Collector \/ Main \/ Probe

Next == Exporting \/ Environment

Spec == Init /\ [][Next]_vars

\* The poller is scheduled and its ticker ticks.
Fairness == WF_vars(Collector)

--------------------------------------------------------------------------------
(* Properties.                                                             *)

Handles == [OpenMaps -> Objects \cup {None}]

EnvironmentOK ==
  /\ pins \in Handles
  /\ readable \subseteq OpenMaps
  /\ value \in [OpenMaps -> [Objects -> 0 .. MaxUInt64]]

CollectorOK ==
  /\ pc \in {"boot", "latency", "open", "read", "publish", "wait", "returned"}
  /\ toOpen \subseteq OpenMaps
  /\ next \in 1 .. Len(ReadOrder)
  /\ handle \in Handles
  /\ closed \in BOOLEAN
  /\ sample \in [StatMaps -> 0 .. MaxUInt64]
  /\ last \in [StatMaps -> 0 .. MaxUInt64]
  /\ latencyMapsAvailable \in BOOLEAN

MetricsOK ==
  /\ up \in {0, 1} /\ ifaceUp \in {0, 1}
  /\ totals \in [StatMaps -> 0 .. MaxUInt64]
  /\ rates \in [RateMaps -> 0 .. MaxUInt64]
  /\ latencyFresh \in BOOLEAN

\* The values the variables range over.
TypeOK ==
  /\ EnvironmentOK /\ CollectorOK /\ MetricsOK
  /\ stage \in {"start", "serving", "stopping", "cancelled", "closed", "exited"}
  /\ ready \in {"unasked", "ready", "not ready"}

\* ebpf_exporter_up is 1 only with all five maps open, although openMaps keeps
\* the handles of a failed attempt and is retried from any of them.
UpMeansAllOpen ==
  up = 1 => \A m \in OpenMaps : handle[m] # None

\* No rate wraps around: each one is at most the total exported with it, since
\* the sample never falls below the one before (collect subtracts uint64s and
\* relies on the maps of two polls being the same and growing).
NoRateWraps ==
  ~closed => \A m \in RateMaps : rates[m] <= totals[m]

\* The totals exported never decrease while the maps are open, whatever is
\* pinned, unpinned or pinned anew meanwhile.
TotalsGrow ==
  [][~closed => \A m \in StatMaps : totals'[m] >= totals[m]]_vars

\* /ready never takes back a 200: a failed openMaps does not reset a handle.
ReadyIsKept ==
  [][ready = "ready" => ready' # "not ready"]_vars

\* A collector that has reported itself up keeps reading the same five objects
\* until it exits, also after they were unpinned and others pinned instead.
ConnectionIsForLife == [][up = 1 => handle' = handle]_vars

AllCanBeOpened == \A m \in OpenMaps : CanOpen(m)

\* An exporter that waits without a single handle and finds the maps there from
\* now on connects to them.
ConnectsWhenUntouched ==
  [](/\ pc = "wait" /\ handle[PacketsMap] = None
     /\ [](AllCanBeOpened /\ stage = "serving")
     => <>(up = 1))

\* Once the counting stops the totals exported are those of the maps held,
\* although each collect may have read every map at a different moment.
TotalsCatchUp ==
  \A m \in StatMaps :
    <>[](stage = "serving" /\ handle[PacketsMap] # None /\ handle[m] # None)
      => <>[](handle[m] # None => totals[m] = value[m][handle[m]])

\* The rates go back to 0 when the counting stops, although collect leaves them
\* alone whenever stats_packets reads 0.
RatesSettle ==
  \A m \in RateMaps : <>[](stage = "serving") => <>[](rates[m] = 0)
================================================================================
