------------------------------ MODULE ExporterProofs ------------------------------
(***************************************************************************)
(* Theorems about Exporter, for any number of maps and objects, any width  *)
(* of the counters and any environment that only counts upwards.           *)
(*                                                                         *)
(* The invariant says what the code never states: the maps are opened only *)
(* while nothing has been sampled (BeforeConnection), and from then on     *)
(* every stage of a collect, the values remembered of the previous one     *)
(* included, is at most what the maps held hold now (Samples).             *)
(***************************************************************************)
EXTENDS Exporter, TLAPS

LEMMA Maps ==
  /\ Len(ReadOrder) \in Nat /\ 1 \in 1 .. Len(ReadOrder)
  /\ \A n \in 1 .. Len(ReadOrder) : ReadOrder[n] \in StatMaps
  /\ \A m \in StatMaps : \E n \in 1 .. Len(ReadOrder) : m = ReadOrder[n]
  /\ PacketsMap \in StatMaps
  /\ StatMaps \subseteq OpenMaps /\ LoopMap \in OpenMaps
  /\ \A m \in RateMaps : m \in StatMaps
  /\ None \notin Objects
  /\ MaxUInt64 \in Nat
  /\ 0 \in 0 .. MaxUInt64
<1>1. Len(ReadOrder) \in Nat /\ Len(ReadOrder) > 0
  BY ExporterAssumption
<1>2. 1 \in 1 .. Len(ReadOrder)
  BY <1>1
<1> QED
  BY <1>1, <1>2, ExporterAssumption DEF StatMaps, PacketsMap, OpenMaps

\* Subtracting uint64s gives a uint64, and no wrap if there is none.
LEMMA MinusIsUInt64 ==
  ASSUME NEW a \in 0 .. MaxUInt64, NEW b \in 0 .. MaxUInt64
  PROVE  /\ Minus(a, b) \in 0 .. MaxUInt64
         /\ b <= a => Minus(a, b) <= a
  BY Maps DEF Minus

\* What sumPerCPUMap returns is a uint64.
LEMMA SumIsUInt64 ==
  ASSUME TypeOK, NEW m \in StatMaps
  PROVE  Sum(m) \in 0 .. MaxUInt64
<1>1. m \in OpenMaps /\ handle[m] \in Objects \cup {None}
  BY Maps DEF TypeOK, CollectorOK, Handles
<1>2. CASE handle[m] = None \/ closed
  BY <1>2, Maps DEF Sum
<1>3. CASE ~(handle[m] = None \/ closed)
  BY <1>1, <1>3 DEF Sum, TypeOK, EnvironmentOK, CollectorOK
<1> QED
  BY <1>2, <1>3

--------------------------------------------------------------------------------
LEMMA TypeInit == Init => TypeOK
<1> SUFFICES ASSUME Init PROVE TypeOK
  OBVIOUS
<1>1. EnvironmentOK
  BY DEF Init, EnvironmentOK, Handles
<1>2. CollectorOK
  <2>1. handle \in Handles
    BY DEF Init, Handles
  <2>2. sample \in [StatMaps -> 0 .. MaxUInt64] /\ last \in [StatMaps -> 0 .. MaxUInt64]
    BY Maps DEF Init, Zeros
  <2>3. next \in 1 .. Len(ReadOrder)
    BY Maps DEF Init
  <2> QED
    BY <2>1, <2>2, <2>3 DEF Init, CollectorOK
<1>3. MetricsOK
  BY Maps DEF Init, MetricsOK, Zeros
<1> QED
  BY <1>1, <1>2, <1>3 DEF Init, TypeOK

LEMMA TypeStep == TypeOK /\ [Next]_vars => TypeOK'
<1> SUFFICES ASSUME TypeOK, [Next]_vars PROVE TypeOK'
  OBVIOUS
<1>e. UNCHANGED environment => EnvironmentOK'
  BY DEF TypeOK, environment, EnvironmentOK, Handles
<1>c. UNCHANGED collector => CollectorOK'
  BY DEF TypeOK, collector, CollectorOK, Handles
<1>m. UNCHANGED metrics => MetricsOK'
  BY DEF TypeOK, metrics, MetricsOK
<1>1. ASSUME NEW m \in OpenMaps, OpenMap(m) PROVE TypeOK'
  <2>1. CollectorOK'
    BY <1>1, Maps DEF OpenMap, CanOpen, TypeOK, EnvironmentOK, CollectorOK, Handles
  <2>2. MetricsOK'
    BY <1>1 DEF OpenMap, TypeOK, MetricsOK
  <2> QED
    BY <1>1, <1>e, <2>1, <2>2 DEF OpenMap, TypeOK
<1>2. ASSUME NEW m \in OpenMaps, OpenFails(m) PROVE TypeOK'
  <2>1. CollectorOK'
    BY <1>2 DEF OpenFails, TypeOK, CollectorOK, Handles
  <2>2. MetricsOK'
    BY <1>2 DEF OpenFails, TypeOK, MetricsOK
  <2> QED
    BY <1>2, <1>e, <2>1, <2>2 DEF OpenFails, TypeOK
<1>3. ASSUME NEW found \in BOOLEAN, OpenLatencyMaps(found) PROVE TypeOK'
  <2>1. CollectorOK'
    BY <1>3 DEF OpenLatencyMaps, TypeOK, CollectorOK, Handles
  <2> QED
    BY <1>3, <1>e, <1>m, <2>1 DEF OpenLatencyMaps, TypeOK
<1>4. CASE Poll
  <2>1. CollectorOK'
    BY <1>4, Maps DEF Poll, TypeOK, CollectorOK, Handles
  <2> QED
    BY <1>4, <1>e, <1>m, <2>1 DEF Poll, TypeOK
<1>5. CASE ReadMap
  <2>1. ReadOrder[next] \in StatMaps
    BY Maps DEF TypeOK, CollectorOK
  <2>2. Sum(ReadOrder[next]) \in 0 .. MaxUInt64
    BY <2>1, SumIsUInt64
  <2>3. sample' \in [StatMaps -> 0 .. MaxUInt64]
    BY <1>5, <2>2 DEF ReadMap, TypeOK, CollectorOK
  <2>4. next' \in 1 .. Len(ReadOrder) /\ pc' \in {"read", "publish"}
    <3>1. Len(ReadOrder) \in Nat /\ next \in 1 .. Len(ReadOrder)
      BY Maps DEF TypeOK, CollectorOK
    <3>2. CASE next = Len(ReadOrder)
      BY <1>5, <3>1, <3>2 DEF ReadMap
    <3>3. CASE next # Len(ReadOrder)
      <4>1. next + 1 \in 1 .. Len(ReadOrder)
        BY <3>1, <3>3
      <4> QED
        BY <1>5, <3>3, <4>1 DEF ReadMap
    <3> QED
      BY <3>2, <3>3
  <2>5. CollectorOK'
    BY <1>5, <2>3, <2>4 DEF ReadMap, TypeOK, CollectorOK, Handles
  <2> QED
    BY <1>5, <1>e, <1>m, <2>5 DEF ReadMap, TypeOK
<1>6. CASE Publish
  <2>1. CollectorOK'
    BY <1>6 DEF Publish, TypeOK, CollectorOK, Handles
  <2>2. \A m \in RateMaps : Minus(sample[m], last[m]) \in 0 .. MaxUInt64
    BY Maps, MinusIsUInt64 DEF TypeOK, CollectorOK
  <2>3. MetricsOK'
    BY <1>6, <2>2 DEF Publish, TypeOK, CollectorOK, MetricsOK
  <2> QED
    BY <1>6, <1>e, <2>1, <2>3 DEF Publish, TypeOK
<1>7. CASE PollerReturns
  <2>1. CollectorOK'
    BY <1>7 DEF PollerReturns, TypeOK, CollectorOK, Handles
  <2> QED
    BY <1>7, <1>e, <1>m, <2>1 DEF PollerReturns, TypeOK
<1>8. CASE Close
  <2>1. CollectorOK'
    BY <1>8 DEF Close, TypeOK, CollectorOK, Handles
  <2> QED
    BY <1>8, <1>e, <1>m, <2>1 DEF Close, Advance, TypeOK
<1>9. CASE Signal \/ Cancel \/ Exit \/ Probe
  BY <1>9, <1>e, <1>c, <1>m DEF Signal, Cancel, Exit, Probe, Advance, TypeOK
<1>10. CASE Environment
  <2>1. EnvironmentOK'
    BY <1>10 DEF Environment, EnvironmentOK, Handles
  <2> QED
    BY <1>10, <1>c, <1>m, <2>1 DEF Environment, TypeOK
<1>11. CASE UNCHANGED vars
  BY <1>11, <1>e, <1>c, <1>m DEF vars, TypeOK
<1> QED
  BY <1>1, <1>2, <1>3, <1>4, <1>5, <1>6, <1>7, <1>8, <1>9, <1>10, <1>11
     DEF Next, Exporting, Collector, Main

\* Every variable keeps its range; the rates in particular are uint64s.
THEOREM TypeCorrect == Spec => []TypeOK
<1>1. Init => TypeOK
  BY TypeInit
<1>2. TypeOK /\ [Next]_vars => TypeOK'
  BY TypeStep
<1> QED
  BY <1>1, <1>2, PTL DEF Spec

--------------------------------------------------------------------------------
(* The connection.                                                         *)

\* While the maps are opened, those done are open; a collect that goes on has
\* opened the first; the collector is up only with all of them open, and does
\* not open any then; /ready has told the truth about the first.
Connection ==
  /\ pc \in {"boot", "open"} => \A m \in OpenMaps \ toOpen : handle[m] # None
  /\ pc \in {"boot", "open"} => up = 0
  /\ pc \in {"read", "publish"} => handle[PacketsMap] # None
  /\ up = 1 => \A m \in OpenMaps : handle[m] # None
  /\ ready = "ready" => handle[PacketsMap] # None

LEMMA ConnectionInit == Init => Connection
  BY DEF Init, Connection

LEMMA ConnectionStep == TypeOK /\ Connection /\ [Next]_vars => Connection'
<1> SUFFICES ASSUME TypeOK, Connection, [Next]_vars PROVE Connection'
  OBVIOUS
<1> USE Maps DEF Connection
<1>1. ASSUME NEW m \in OpenMaps, OpenMap(m) PROVE Connection'
  <2>1. /\ \A k \in OpenMaps : handle[k] # None => handle'[k] # None
        /\ handle'[m] # None
    BY <1>1 DEF OpenMap, CanOpen, TypeOK, CollectorOK, Handles
  <2>2. \A k \in OpenMaps \ toOpen' : handle'[k] # None
    BY <1>1, <2>1 DEF OpenMap
  <2>3. CASE toOpen = {m}
    <3>1. \A k \in OpenMaps : handle'[k] # None
      BY <1>1, <2>2, <2>3 DEF OpenMap
    <3> QED
      BY <1>1, <2>3, <3>1 DEF OpenMap
  <2>4. CASE toOpen # {m}
    BY <1>1, <2>1, <2>2, <2>4 DEF OpenMap
  <2> QED
    BY <2>3, <2>4
<1>2. ASSUME NEW m \in OpenMaps, OpenFails(m) PROVE Connection'
  BY <1>2 DEF OpenFails
<1>3. ASSUME NEW found \in BOOLEAN, OpenLatencyMaps(found) PROVE Connection'
  BY <1>3 DEF OpenLatencyMaps, metrics
<1>4. CASE Poll
  <2>1. CASE handle[PacketsMap] = None
    BY <1>4, <2>1 DEF Poll, metrics, TypeOK, MetricsOK
  <2>2. CASE handle[PacketsMap] # None
    BY <1>4, <2>2 DEF Poll, metrics
  <2> QED
    BY <2>1, <2>2
<1>5. CASE ReadMap
  BY <1>5 DEF ReadMap, metrics
<1>6. CASE Publish
  BY <1>6 DEF Publish
<1>7. CASE PollerReturns
  BY <1>7 DEF PollerReturns, metrics
<1>8. CASE Probe
  BY <1>8 DEF Probe, collector, metrics
<1>9. CASE Main
  BY <1>9 DEF Main, Signal, Cancel, Close, Exit, Advance, collector, metrics
<1>10. CASE Environment
  BY <1>10 DEF Environment, collector, metrics
<1>11. CASE UNCHANGED vars
  BY <1>11 DEF vars, collector, metrics
<1> QED
  BY <1>1, <1>2, <1>3, <1>4, <1>5, <1>6, <1>7, <1>8, <1>9, <1>10, <1>11
     DEF Next, Exporting, Collector

THEOREM ConnectionHolds == Spec => [](TypeOK /\ Connection)
<1>1. Init => TypeOK /\ Connection
  BY TypeInit, ConnectionInit
<1>2. (TypeOK /\ Connection) /\ [Next]_vars => (TypeOK /\ Connection)'
  BY TypeStep, ConnectionStep
<1> QED
  BY <1>1, <1>2, PTL DEF Spec

\* ebpf_exporter_up is 1 only with every map open, in whatever order openMaps
\* took them and however many attempts failed before.
THEOREM UpHonest == Spec => []UpMeansAllOpen
<1>1. TypeOK /\ Connection => UpMeansAllOpen
  BY DEF Connection, UpMeansAllOpen
<1> QED
  BY <1>1, ConnectionHolds, PTL

\* A collector that is up does not change a handle.
LEMMA ConnectedStep ==
  ASSUME Connection, [Next]_vars, up = 1
  PROVE  handle' = handle
<1>1. pc \notin {"boot", "open"}
  BY DEF Connection
<1> QED
  BY <1>1 DEF Next, Exporting, Collector, OpenMap, OpenFails, OpenLatencyMaps, Poll,
       ReadMap, Publish, PollerReturns, Main, Probe, Signal, Cancel, Close, Exit,
       Environment, vars, collector

\* The objects read are the same from the first collect that used them all to
\* the exporter's exit, whatever happens to the pin directory.
THEOREM ConnectedForLife == Spec => ConnectionIsForLife
<1>1. (TypeOK /\ Connection) /\ [Next]_vars => [up = 1 => handle' = handle]_vars
  BY ConnectedStep
<1> QED
  BY <1>1, ConnectionHolds, PTL DEF Spec, ConnectionIsForLife

\* /ready answers 200 at most once too early and never takes it back.
THEOREM ReadyForLife == Spec => ReadyIsKept
<1>1. (TypeOK /\ Connection) /\ [Next]_vars
        => [ready = "ready" => ready' # "not ready"]_vars
  BY DEF Connection, Next, Exporting, Collector, OpenMap, OpenFails, OpenLatencyMaps,
         Poll, ReadMap, Publish, PollerReturns, Main, Probe, Signal, Cancel, Close,
         Exit, Environment, vars, metrics
<1> QED
  BY <1>1, ConnectionHolds, PTL DEF Spec, ReadyIsKept
--------------------------------------------------------------------------------
(* The samples.                                                            *)

\* What the object held of a map counts now.
Now(m) == IF handle[m] = None THEN 0 ELSE value[m][handle[m]]

\* As long as nothing has been sampled a handle may still be replaced.
BeforeConnection ==
  /\ pc \in {"boot", "latency", "open"} => last = Zeros
  /\ pc = "wait" /\ handle[PacketsMap] = None => last = Zeros
  /\ totals = last

\* The sample of a collect in progress is at least the one before and at most
\* what is there now.
Samples ==
  ~closed =>
    /\ \A m \in StatMaps : last[m] <= Now(m)
    /\ pc = "read" => \A n \in 1 .. next - 1 :
         last[ReadOrder[n]] <= sample[ReadOrder[n]] /\ sample[ReadOrder[n]] <= Now(ReadOrder[n])
    /\ pc = "publish" => \A m \in StatMaps : last[m] <= sample[m] /\ sample[m] <= Now(m)

Order == Connection /\ BeforeConnection /\ Samples /\ NoRateWraps

LEMMA NowIsUInt64 ==
  ASSUME TypeOK, NEW m \in StatMaps
  PROVE  Now(m) \in 0 .. MaxUInt64
<1>1. m \in OpenMaps /\ handle[m] \in Objects \cup {None}
  BY Maps DEF TypeOK, CollectorOK, Handles
<1>2. CASE handle[m] = None
  BY <1>2, Maps DEF Now
<1>3. CASE handle[m] # None
  BY <1>1, <1>3 DEF Now, TypeOK, EnvironmentOK
<1> QED
  BY <1>2, <1>3

LEMMA Numbers ==
  ASSUME TypeOK, NEW m \in StatMaps
  PROVE  Now(m) \in Int /\ last[m] \in Int /\ sample[m] \in Int
<1>1. Now(m) \in 0 .. MaxUInt64
  BY NowIsUInt64
<1>2. last[m] \in 0 .. MaxUInt64 /\ sample[m] \in 0 .. MaxUInt64
  BY DEF TypeOK, CollectorOK
<1>3. \A k \in 0 .. MaxUInt64 : k \in Int
  BY Maps
<1> QED
  BY <1>1, <1>2, <1>3

\* The environment, and nobody else, moves the maps, and only upwards.
LEMMA NowGrows ==
  ASSUME TypeOK, [Next]_vars, handle' = handle, NEW m \in StatMaps
  PROVE  Now(m)' \in Int /\ Now(m) <= Now(m)'
<1>1. TypeOK'
  BY TypeStep
<1>2. Now(m) \in 0 .. MaxUInt64 /\ Now(m)' \in 0 .. MaxUInt64
  <2>1. Now(m)' \in 0 .. MaxUInt64
    <3>1. m \in OpenMaps /\ handle'[m] \in Objects \cup {None}
      BY <1>1, Maps DEF TypeOK, CollectorOK, Handles
    <3>2. CASE handle'[m] = None
      BY <3>2, Maps DEF Now
    <3>3. CASE handle'[m] # None
      BY <1>1, <3>1, <3>3 DEF Now, TypeOK, EnvironmentOK
    <3> QED
      BY <3>2, <3>3
  <2> QED
    BY <2>1, NowIsUInt64
<1>3. CASE handle[m] = None
  BY <1>3, <1>2 DEF Now
<1>4. CASE handle[m] # None
  <2>1. m \in OpenMaps /\ handle[m] \in Objects
    BY <1>4, Maps DEF TypeOK, CollectorOK, Handles
  <2>2. value'[m][handle[m]] >= value[m][handle[m]]
    <3>1. CASE Environment
      BY <3>1, <2>1 DEF Environment
    <3>2. CASE UNCHANGED value
      <4>1. Now(m)' = Now(m)
        BY <3>2 DEF Now
      <4> QED
        BY <3>2, <4>1, <1>2, <1>4 DEF Now
    <3>3. [Next]_vars => Environment \/ UNCHANGED value
      BY DEF Next, Exporting, Collector, OpenMap, OpenFails, OpenLatencyMaps, Poll,
           ReadMap, Publish, PollerReturns, Main, Probe, Signal, Cancel, Close, Exit,
           vars, environment
    <3> QED
      BY <3>1, <3>2, <3>3
  <2> QED
    BY <2>2, <1>2, <1>4 DEF Now
<1> QED
  BY <1>2, <1>3, <1>4

LEMMA OrderInit == Init => Order
<1> SUFFICES ASSUME Init PROVE Order
  OBVIOUS
<1>1. Connection
  BY ConnectionInit
<1>2. BeforeConnection
  BY DEF Init, BeforeConnection
<1>3. Samples
  <2>1. \A m \in StatMaps : last[m] = 0 /\ Now(m) = 0
    BY Maps DEF Init, Zeros, Now
  <2> QED
    BY <2>1 DEF Init, Samples
<1>4. NoRateWraps
  BY Maps DEF Init, NoRateWraps, Zeros
<1> QED
  BY <1>1, <1>2, <1>3, <1>4 DEF Order

LEMMA BeforeConnectionStep ==
  TypeOK /\ Connection /\ BeforeConnection /\ [Next]_vars => BeforeConnection'
<1> SUFFICES ASSUME TypeOK, Connection, BeforeConnection, [Next]_vars
             PROVE  BeforeConnection'
  OBVIOUS
<1> USE DEF BeforeConnection
<1>1. ASSUME NEW m \in OpenMaps, OpenMap(m) PROVE BeforeConnection'
  BY <1>1 DEF OpenMap
<1>2. ASSUME NEW m \in OpenMaps, OpenFails(m) PROVE BeforeConnection'
  BY <1>2 DEF OpenFails
<1>3. ASSUME NEW found \in BOOLEAN, OpenLatencyMaps(found) PROVE BeforeConnection'
  BY <1>3 DEF OpenLatencyMaps, metrics
<1>4. CASE Poll
  BY <1>4 DEF Poll, metrics
<1>5. CASE ReadMap
  BY <1>5 DEF ReadMap, metrics
<1>6. CASE Publish
  BY <1>6 DEF Publish, Connection
<1>7. CASE PollerReturns
  BY <1>7 DEF PollerReturns, metrics
<1>8. CASE Main \/ Probe
  BY <1>8 DEF Main, Probe, Signal, Cancel, Close, Exit, Advance, collector, metrics
<1>9. CASE Environment \/ UNCHANGED vars
  BY <1>9 DEF Environment, vars, collector, metrics
<1> QED
  BY <1>1, <1>2, <1>3, <1>4, <1>5, <1>6, <1>7, <1>8, <1>9
     DEF Next, Exporting, Collector

\* The steps that neither open nor read a map keep the order of the samples.
LEMMA SamplesKept ==
  ASSUME TypeOK, Samples, [Next]_vars,
         UNCHANGED <<pc, next, handle, closed, sample, last>>
  PROVE  Samples'
<1> SUFFICES ASSUME ~closed PROVE Samples'
  BY DEF Samples
<1>1. \A m \in StatMaps : /\ Now(m) \in Int /\ Now(m)' \in Int /\ Now(m) <= Now(m)'
                          /\ last[m] \in Int /\ sample[m] \in Int
  BY NowGrows, Numbers
<1>2. \A m \in StatMaps : last'[m] <= Now(m)'
  BY <1>1 DEF Samples
<1>3. ASSUME pc' = "read", NEW n \in 1 .. next' - 1
      PROVE  /\ last'[ReadOrder[n]] <= sample'[ReadOrder[n]]
             /\ sample'[ReadOrder[n]] <= Now(ReadOrder[n])'
  <2>1. n \in 1 .. Len(ReadOrder) /\ n \in 1 .. next - 1
    <3>1. next \in 1 .. Len(ReadOrder) /\ Len(ReadOrder) \in Nat
      BY Maps DEF TypeOK, CollectorOK
    <3>2. n \in 1 .. next - 1
      BY <1>3
    <3> QED
      BY <3>1, <3>2
  <2>2. ReadOrder[n] \in StatMaps
    BY <2>1, Maps
  <2>3. last[ReadOrder[n]] <= sample[ReadOrder[n]]
        /\ sample[ReadOrder[n]] <= Now(ReadOrder[n])
    BY <1>3, <2>1 DEF Samples
  <2> QED
    BY <1>1, <2>2, <2>3
<1>4. pc' = "publish" => \A m \in StatMaps : last'[m] <= sample'[m] /\ sample'[m] <= Now(m)'
  BY <1>1 DEF Samples
<1> QED
  BY <1>2, <1>3, <1>4 DEF Samples

\* A step that samples nothing and ends outside a collect, or at its start.
LEMMA SamplesRestart ==
  ASSUME TypeOK, [Next]_vars, closed' \in BOOLEAN,
         ~closed' => \A m \in StatMaps : last'[m] <= Now(m)',
         pc' # "publish", pc' = "read" => next' = 1
  PROVE  Samples'
<1>1. pc' = "read" => 1 .. next' - 1 = {}
  OBVIOUS
<1> QED
  BY <1>1 DEF Samples

LEMMA SamplesStep ==
  TypeOK /\ Connection /\ BeforeConnection /\ Samples /\ [Next]_vars => Samples'
<1> SUFFICES ASSUME TypeOK, Connection, BeforeConnection, Samples, [Next]_vars
             PROVE  Samples'
  OBVIOUS
<1>t. TypeOK'
  BY TypeStep
<1>b. closed' \in BOOLEAN /\ \A m \in StatMaps : last[m] \in Int
  BY <1>t, Numbers DEF TypeOK, CollectorOK
<1>z. ASSUME last = Zeros, last' = last PROVE \A m \in StatMaps : last'[m] <= Now(m)'
  <2>1. ASSUME NEW m \in StatMaps PROVE Now(m)' \in 0 .. MaxUInt64
    <3>1. m \in OpenMaps /\ handle'[m] \in Objects \cup {None}
      BY <1>t, Maps DEF TypeOK, CollectorOK, Handles
    <3>2. CASE handle'[m] = None
      BY <3>2, Maps DEF Now
    <3>3. CASE handle'[m] # None
      BY <1>t, <3>1, <3>3 DEF Now, TypeOK, EnvironmentOK
    <3> QED
      BY <3>2, <3>3
  <2> QED
    BY <1>z, <2>1 DEF Zeros
<1>g. ASSUME handle' = handle, last' = last, closed' = closed
      PROVE  ~closed' => \A m \in StatMaps : last'[m] <= Now(m)'
  BY <1>g, <1>b, NowGrows, NowIsUInt64 DEF Samples
<1>1. ASSUME NEW m \in OpenMaps, OpenMap(m) PROVE Samples'
  <2>1. last = Zeros /\ last' = last
    BY <1>1 DEF OpenMap, BeforeConnection
  <2>2. pc' # "publish" /\ (pc' = "read" => next' = 1)
    BY <1>1 DEF OpenMap
  <2> QED
    BY <1>b, <1>z, <2>1, <2>2, SamplesRestart
<1>2. ASSUME NEW m \in OpenMaps, OpenFails(m) PROVE Samples'
  <2>1. UNCHANGED <<handle, last, closed>> /\ pc' \in {"latency", "wait"}
    BY <1>2 DEF OpenFails
  <2> QED
    BY <1>b, <1>g, <2>1, SamplesRestart
<1>3. ASSUME NEW found \in BOOLEAN, OpenLatencyMaps(found) PROVE Samples'
  <2>1. UNCHANGED <<handle, last, closed>> /\ pc' = "wait"
    BY <1>3 DEF OpenLatencyMaps
  <2> QED
    BY <1>b, <1>g, <2>1, SamplesRestart
<1>4. CASE Poll
  <2>1. UNCHANGED <<handle, last, closed>>
        /\ pc' \in {"open", "read"} /\ (pc' = "read" => next' = 1)
    BY <1>4 DEF Poll
  <2> QED
    BY <1>b, <1>g, <2>1, SamplesRestart
<1>5. CASE ReadMap
  <2> SUFFICES ASSUME ~closed' PROVE Samples'
    BY DEF Samples
  <2> DEFINE r == ReadOrder[next]
  <2>1. /\ UNCHANGED <<handle, last, closed>> /\ pc = "read"
        /\ sample' = [sample EXCEPT ![r] = Sum(r)]
    BY <1>5 DEF ReadMap
  <2>2. next \in 1 .. Len(ReadOrder) /\ Len(ReadOrder) \in Nat /\ r \in StatMaps
    BY Maps DEF TypeOK, CollectorOK
  <2>3. Sum(r) = Now(r)
    BY <2>1 DEF Sum, Now
  <2>4. \A m \in StatMaps : /\ Now(m) \in Int /\ Now(m)' \in Int /\ Now(m) <= Now(m)'
                            /\ last[m] \in Int /\ sample[m] \in Int /\ last[m] <= Now(m)
    BY <2>1, NowGrows, Numbers DEF Samples
  <2>5. \A m \in StatMaps : last'[m] <= Now(m)'
    BY <2>1, <2>4
  <2>6. ASSUME NEW n \in 1 .. next
        PROVE  /\ last'[ReadOrder[n]] <= sample'[ReadOrder[n]]
               /\ sample'[ReadOrder[n]] <= Now(ReadOrder[n])'
    <3>1. ReadOrder[n] \in StatMaps
      BY <2>2, Maps
    <3>2. CASE ReadOrder[n] = r
      <4>1. sample'[r] = Now(r)
        BY <2>1, <2>2, <2>3 DEF TypeOK, CollectorOK
      <4> QED
        BY <2>1, <2>2, <2>4, <3>2, <4>1
    <3>3. CASE ReadOrder[n] # r
      <4>1. n \in 1 .. next - 1
        BY <2>2, <3>3
      <4>2. sample'[ReadOrder[n]] = sample[ReadOrder[n]]
        BY <2>1, <3>1, <3>3 DEF TypeOK, CollectorOK
      <4>3. last[ReadOrder[n]] <= sample[ReadOrder[n]]
            /\ sample[ReadOrder[n]] <= Now(ReadOrder[n])
        BY <2>1, <4>1 DEF Samples
      <4> QED
        BY <2>1, <2>4, <3>1, <4>2, <4>3
    <3> QED
      BY <3>2, <3>3
  <2>7. CASE next = Len(ReadOrder)
    <3>1. pc' = "publish"
      BY <1>5, <2>7 DEF ReadMap
    <3>2. \A m \in StatMaps : last'[m] <= sample'[m] /\ sample'[m] <= Now(m)'
      BY <2>6, <2>7, Maps
    <3> QED
      BY <2>5, <3>1, <3>2 DEF Samples
  <2>8. CASE next # Len(ReadOrder)
    <3>1. pc' = "read" /\ next' = next + 1
      BY <1>5, <2>1, <2>8 DEF ReadMap
    <3>2. 1 .. next' - 1 = 1 .. next
      BY <2>2, <3>1
    <3> QED
      BY <2>5, <2>6, <3>1, <3>2 DEF Samples
  <2> QED
    BY <2>7, <2>8
<1>6. CASE Publish
  <2>1. UNCHANGED <<handle, closed>> /\ last' = sample /\ pc = "publish" /\ pc' = "wait"
    BY <1>6 DEF Publish
  <2>2. ASSUME ~closed', NEW m \in StatMaps PROVE last'[m] <= Now(m)'
    <3>1. sample[m] <= Now(m)
      BY <2>1, <2>2 DEF Samples
    <3>2. Now(m) \in Int /\ Now(m)' \in Int /\ Now(m) <= Now(m)' /\ sample[m] \in Int
      BY <2>1, NowGrows, Numbers
    <3> QED
      BY <2>1, <3>1, <3>2
  <2> QED
    BY <1>b, <2>1, <2>2, SamplesRestart
<1>7. CASE PollerReturns
  <2>1. UNCHANGED <<handle, last, closed>> /\ pc' = "returned"
    BY <1>7 DEF PollerReturns
  <2> QED
    BY <1>b, <1>g, <2>1, SamplesRestart
<1>8. CASE Close
  BY <1>8 DEF Close, Samples
<1>9. CASE Signal \/ Cancel \/ Exit \/ Probe \/ Environment \/ UNCHANGED vars
  <2>1. UNCHANGED <<pc, next, handle, closed, sample, last>>
    BY <1>9 DEF Signal, Cancel, Exit, Probe, Environment, vars, collector
  <2> QED
    BY <2>1, SamplesKept
<1> QED
  BY <1>1, <1>2, <1>3, <1>4, <1>5, <1>6, <1>7, <1>8, <1>9
     DEF Next, Exporting, Collector, Main

\* Publishing is where the rates change: the sample is at least the one before,
\* so nothing wraps, and where they are left alone the totals only grow.
LEMMA RatesStep ==
  TypeOK /\ Order /\ [Next]_vars => NoRateWraps'
<1> SUFFICES ASSUME TypeOK, Order, [Next]_vars PROVE NoRateWraps'
  OBVIOUS
<1>1. CASE Publish
  <2> SUFFICES ASSUME ~closed', NEW m \in RateMaps PROVE rates'[m] <= totals'[m]
    BY DEF NoRateWraps
  <2>1. ~closed /\ pc = "publish" /\ totals' = sample /\ m \in StatMaps
    BY <1>1, Maps DEF Publish
  <2>2. last[m] <= sample[m] /\ totals = last /\ rates[m] <= totals[m]
    BY <2>1 DEF Order, Samples, BeforeConnection, NoRateWraps
  <2>3. sample[m] \in 0 .. MaxUInt64 /\ last[m] \in 0 .. MaxUInt64
        /\ rates[m] \in 0 .. MaxUInt64
    BY <2>1 DEF TypeOK, CollectorOK, MetricsOK
  <2>4. CASE sample[PacketsMap] > 0
    <3>1. rates'[m] = Minus(sample[m], last[m])
      BY <1>1, <2>4 DEF Publish
    <3>2. Minus(sample[m], last[m]) <= sample[m]
      BY <2>2, <2>3, MinusIsUInt64
    <3> QED
      BY <2>1, <3>1, <3>2
  <2>5. CASE ~(sample[PacketsMap] > 0)
    <3>1. rates' = rates
      BY <1>1, <2>5 DEF Publish
    <3>2. MaxUInt64 \in Nat
      BY Maps
    <3> QED
      BY <2>1, <2>2, <2>3, <3>1, <3>2
  <2> QED
    BY <2>4, <2>5
<1>2. CASE ~Publish
  <2>1. UNCHANGED <<rates, totals>>
    BY <1>2 DEF Next, Exporting, Collector, OpenMap, OpenFails, OpenLatencyMaps, Poll,
         ReadMap, PollerReturns, Main, Probe, Signal, Cancel, Close, Exit,
         Environment, vars, metrics
  <2>2. ~closed' => ~closed
    BY <1>2 DEF Next, Exporting, Collector, OpenMap, OpenFails, OpenLatencyMaps, Poll,
         ReadMap, PollerReturns, Main, Probe, Signal, Cancel, Close, Exit,
         Environment, vars, collector
  <2> QED
    BY <2>1, <2>2 DEF Order, NoRateWraps
<1> QED
  BY <1>1, <1>2

THEOREM OrderHolds == Spec => [](TypeOK /\ Order)
<1>1. Init => TypeOK /\ Order
  BY TypeInit, OrderInit
<1>2. (TypeOK /\ Order) /\ [Next]_vars => (TypeOK /\ Order)'
  <2> SUFFICES ASSUME TypeOK, Order, [Next]_vars PROVE (TypeOK /\ Order)'
    OBVIOUS
  <2>1. TypeOK'
    BY TypeStep
  <2>2. Connection'
    BY ConnectionStep DEF Order
  <2>3. BeforeConnection'
    BY BeforeConnectionStep DEF Order
  <2>4. Samples'
    BY SamplesStep DEF Order
  <2>5. NoRateWraps'
    BY RatesStep
  <2> QED
    BY <2>1, <2>2, <2>3, <2>4, <2>5 DEF Order
<1> QED
  BY <1>1, <1>2, PTL DEF Spec

\* No rate exported before the shutdown is the result of an unsigned wrap,
\* although collect subtracts samples of maps that come and go without a check.
THEOREM RatesDoNotWrap == Spec => []NoRateWraps
<1>1. TypeOK /\ Order => NoRateWraps
  BY DEF Order
<1> QED
  BY <1>1, OrderHolds, PTL

LEMMA TotalsStep ==
  ASSUME TypeOK, Order, [Next]_vars, ~closed, NEW m \in StatMaps
  PROVE  totals'[m] >= totals[m]
<1>1. totals = last /\ last[m] \in Int /\ sample[m] \in Int
  BY Numbers DEF Order, BeforeConnection
<1>2. CASE Publish
  <2>1. totals' = sample /\ last[m] <= sample[m]
    BY <1>2 DEF Publish, Order, Samples
  <2> QED
    BY <1>1, <2>1
<1>3. CASE ~Publish
  <2>1. UNCHANGED totals
    BY <1>3 DEF Next, Exporting, Collector, OpenMap, OpenFails, OpenLatencyMaps, Poll,
         ReadMap, PollerReturns, Main, Probe, Signal, Cancel, Close, Exit,
         Environment, vars, metrics
  <2> QED
    BY <1>1, <2>1
<1> QED
  BY <1>2, <1>3

\* The totals are counters to whoever scrapes them, until the maps are closed.
THEOREM TotalsAreMonotonic == Spec => TotalsGrow
<1>1. (TypeOK /\ Order) /\ [Next]_vars
        => [~closed => \A m \in StatMaps : totals'[m] >= totals[m]]_vars
  BY TotalsStep
<1> QED
  BY <1>1, OrderHolds, PTL DEF Spec, TotalsGrow

================================================================================
