----------------------------- MODULE LatencyCollector -----------------------------
(***************************************************************************)
(* The Collector of pkg/latency in several processes around one pin path.  *)
(* Start takes the five maps from the pins if all of them are there and    *)
(* loads and attaches programs of its own otherwise; Collect publishes     *)
(* what the maps hold; Stop closes the links.  Nothing ever unpins.        *)
(*                                                                         *)
(* Start, Collect and Stop hold the mutex of their Collector, so within a  *)
(* process they follow one another; between processes every step of Start  *)
(* may interleave.  A failed Start may be tried again, and a process may   *)
(* die at any moment: its XDP links go with it and its pins stay.          *)
(***************************************************************************)
EXTENDS Integers, Sequences, FiniteSets

CONSTANTS
  Procs,       \* the processes that have a Collector
  MapOrder,    \* mapNames: the names of the maps in the order they are opened
  StatsMap,    \* interface_latency_stats, the one XDP packets are counted in
  Interfaces,  \* Config.Interfaces, all of which exist or not
  Objects,     \* map objects the kernel can create under one name
  Nobody,      \* no object, no process
  MaxStarts,   \* BOUND: calls of Start in one process, over all its lives
  MaxPackets   \* BOUND: packets counted on one interface in one object

Maps == {MapOrder[k] : k \in 1 .. Len(MapOrder)}

ASSUME CollectorAssumption ==
  /\ MapOrder \in Seq(STRING) /\ Cardinality(Maps) = Len(MapOrder)
  /\ StatsMap \in Maps
  /\ Objects # {} /\ Nobody \notin Objects /\ Nobody \notin Procs
  /\ MaxStarts \in Nat /\ MaxPackets \in Nat

VARIABLES
  pins,      \* the object pinned under each name
  readable,  \* whether the pins can be read by everybody
  hooked,    \* the process whose XDP link each interface has
  value,     \* interface_latency_stats: packets by object and interface
  stage,     \* where Start, Collect or Stop of each process is
  opened,    \* Start: the maps opened from the pins, or the collection loaded
  toAttach,  \* Start: the interfaces still to attach
  handles,   \* the map fields of each Collector
  program,   \* the maps its XDP program was loaded with
  names,     \* ifindexToName
  running,   \* running
  up,        \* gauge kernel_stack_latency_collector_up
  attached,  \* gauge of the attached interfaces: the set of those at 1
  shown,     \* gauge of the packets of each interface
  starts     \* BOUND: calls of Start so far

kernel == <<pins, readable, hooked, value>>
starting == <<opened, toAttach>>
fields == <<handles, program, names, running>>
gauges == <<up, attached, shown>>
collectorVars == <<kernel, stage, starting, fields, gauges, starts>>

NoMaps == [m \in Maps |-> Nobody]
Links(p) == {i \in Interfaces : hooked[i] = p}

CollectorInit ==
  /\ pins = NoMaps /\ readable = FALSE
  /\ hooked = [i \in Interfaces |-> Nobody]
  /\ value = [o \in Objects |-> [i \in Interfaces |-> 0]]
  /\ stage = [p \in Procs |-> "idle"]
  /\ opened = [p \in Procs |-> NoMaps] /\ toAttach = [p \in Procs |-> {}]
  /\ handles = [p \in Procs |-> NoMaps] /\ program = [p \in Procs |-> NoMaps]
  /\ names = [p \in Procs |-> {}] /\ running = [p \in Procs |-> FALSE]
  /\ up = [p \in Procs |-> 0] /\ attached = [p \in Procs |-> {}]
  /\ shown = [p \in Procs |-> [i \in Interfaces |-> 0]]
  /\ starts = [p \in Procs |-> 0]

Got(maps) == {m \in Maps : maps[m] # Nobody}

Go(p, from, to) == stage[p] = from /\ stage' = [stage EXCEPT ![p] = to]

\* The map openPinnedMaps opens next.
NextMap(p) == MapOrder[Cardinality(Got(opened[p])) + 1]

--------------------------------------------------------------------------------
(* Start.                                                                  *)

\* The directory is made, or Start fails there, which changes nothing.
Start(p) ==
  /\ Go(p, "idle", "open")
  /\ ~running[p]
  /\ starts[p] < MaxStarts
  /\ starts' = [starts EXCEPT ![p] = @ + 1]
  /\ opened' = [opened EXCEPT ![p] = NoMaps]
  /\ UNCHANGED <<kernel, toAttach, fields, gauges>>

\* openPinnedMaps: the next map is there.  With the last one the fields are set,
\* and Start is done.
OpenMap(p) ==
  LET m == NextMap(p)  maps == [opened[p] EXCEPT ![m] = pins[m]] IN
  /\ stage[p] = "open" /\ pins[m] # Nobody
  /\ \/ /\ Got(maps) # Maps
        /\ opened' = [opened EXCEPT ![p] = maps]
        /\ UNCHANGED <<stage, handles, running, up>>
     \/ /\ Got(maps) = Maps
        /\ opened' = [opened EXCEPT ![p] = NoMaps]
        /\ stage' = [stage EXCEPT ![p] = "idle"]
        /\ handles' = [handles EXCEPT ![p] = maps]
        /\ running' = [running EXCEPT ![p] = TRUE]
        /\ up' = [up EXCEPT ![p] = 1]
  /\ UNCHANGED <<kernel, toAttach, program, names, attached, shown, starts>>

\* It is not: what was opened is forgotten, and the collection is loaded.
OpenFails(p) ==
  /\ Go(p, "open", "load")
  /\ pins[NextMap(p)] = Nobody
  /\ opened' = [opened EXCEPT ![p] = NoMaps]
  /\ UNCHANGED <<kernel, toAttach, fields, gauges, starts>>

\* MUTANT of ReuseMap: PinPath not given to the library.
ReuseMapPrivate(p, m) ==
  /\ stage[p] = "load" /\ opened[p][m] = Nobody /\ pins[m] # Nobody
  /\ \E o \in Objects \ {pins[m]} : opened' = [opened EXCEPT ![p][m] = o]
  /\ UNCHANGED <<kernel, stage, toAttach, fields, gauges, starts>>

\* NewCollectionWithOptions reuses the maps that are pinned and creates and pins
\* the others, one by one.
ReuseMap(p, m) ==
  /\ stage[p] = "load" /\ opened[p][m] = Nobody /\ pins[m] # Nobody
  /\ opened' = [opened EXCEPT ![p][m] = pins[m]]
  /\ UNCHANGED <<kernel, stage, toAttach, fields, gauges, starts>>

CreateMap(p, m, o) ==
  /\ stage[p] = "load" /\ opened[p][m] = Nobody /\ pins[m] = Nobody
  /\ \A q \in Procs : handles[q][m] # o /\ program[q][m] # o
  /\ pins' = [pins EXCEPT ![m] = o]
  /\ opened' = [opened EXCEPT ![p][m] = o]
  /\ UNCHANGED <<readable, hooked, value, stage, toAttach, fields, gauges, starts>>

\* The object file is missing, the kernel refuses a map or a program, another
\* process was faster to pin: Start returns an error, what was pinned stays.
LoadFails(p) ==
  /\ Go(p, "load", "idle")
  /\ opened' = [opened EXCEPT ![p] = NoMaps]
  /\ UNCHANGED <<kernel, toAttach, fields, gauges, starts>>

\* The fields are set, the pins made readable, and then the interfaces attached
\* one after another.
Loaded(p) ==
  /\ Go(p, "load", "attach")
  /\ Got(opened[p]) = Maps
  /\ handles' = [handles EXCEPT ![p] = opened[p]]
  /\ program' = [program EXCEPT ![p] = opened[p]]
  /\ opened' = [opened EXCEPT ![p] = NoMaps]
  /\ toAttach' = [toAttach EXCEPT ![p] = Interfaces]
  /\ readable' = TRUE
  /\ UNCHANGED <<pins, hooked, value, names, running, gauges, starts>>

\* attachToInterface.  AttachXDP fails on an interface that has a program.
Attach(p, i) ==
  /\ stage[p] = "attach" /\ i \in toAttach[p]
  /\ hooked[i] = Nobody
  /\ hooked' = [hooked EXCEPT ![i] = p]
  /\ names' = [names EXCEPT ![p] = @ \cup {i}]
  /\ attached' = [attached EXCEPT ![p] = @ \cup {i}]
  /\ toAttach' = [toAttach EXCEPT ![p] = @ \ {i}]
  /\ UNCHANGED <<pins, readable, value, stage, opened, handles, program, running, up, shown, starts>>

\* MUTANT of AttachFails: Start returns the error.
AttachFailsReturning(p, i) ==
  /\ i \in toAttach[p]
  /\ Go(p, "attach", "idle")
  /\ UNCHANGED <<kernel, starting, fields, gauges, starts>>

\* The interface is not found, or it is and AttachXDP fails.  Start goes on.
AttachFails(p, i) ==
  /\ stage[p] = "attach" /\ i \in toAttach[p]
  /\ \/ UNCHANGED names
     \/ names' = [names EXCEPT ![p] = @ \cup {i}]
  /\ attached' = [attached EXCEPT ![p] = @ \ {i}]
  /\ toAttach' = [toAttach EXCEPT ![p] = @ \ {i}]
  /\ UNCHANGED <<kernel, stage, opened, handles, program, running, up, shown, starts>>

Started(p) ==
  /\ Go(p, "attach", "idle")
  /\ toAttach[p] = {}
  /\ running' = [running EXCEPT ![p] = TRUE]
  /\ up' = [up EXCEPT ![p] = 1]
  /\ UNCHANGED <<kernel, starting, handles, program, names, attached, shown, starts>>

--------------------------------------------------------------------------------
(* Collect, Stop, and the end of a process.                                *)

\* MUTANT of Collect: what cannot be read is shown as 0.
CollectClearing(p) ==
  /\ stage[p] = "idle"
  /\ up' = [up EXCEPT ![p] = IF running[p] THEN 1 ELSE 0]
  /\ shown' = [shown EXCEPT ![p] = [i \in Interfaces |->
       IF running[p] /\ i \in names[p] THEN value[handles[p][StatsMap]][i] ELSE 0]]
  /\ UNCHANGED <<kernel, stage, starting, fields, attached, starts>>

\* Collect: up tells whether the Collector runs; the packets of the interfaces
\* it knows are those in the map.
Collect(p) ==
  /\ stage[p] = "idle"
  /\ up' = [up EXCEPT ![p] = IF running[p] THEN 1 ELSE 0]
  /\ shown' = [shown EXCEPT ![p] = [i \in Interfaces |->
       IF running[p] /\ i \in names[p] THEN value[handles[p][StatsMap]][i] ELSE @[i]]]
  /\ UNCHANGED <<kernel, stage, starting, fields, attached, starts>>

\* MUTANT of Stop: the gauges of the interfaces forgotten.
StopStale(p) ==
  /\ stage[p] = "idle" /\ running[p]
  /\ hooked' = [i \in Interfaces |-> IF hooked[i] = p THEN Nobody ELSE hooked[i]]
  /\ running' = [running EXCEPT ![p] = FALSE]
  /\ up' = [up EXCEPT ![p] = 0]
  /\ UNCHANGED <<pins, readable, value, stage, starting, handles, program, names, attached,
                 shown, starts>>

\* Stop closes the links.  The maps stay open, ifindexToName stays as it is.
Stop(p) ==
  /\ stage[p] = "idle" /\ running[p]
  /\ hooked' = [i \in Interfaces |-> IF hooked[i] = p THEN Nobody ELSE hooked[i]]
  /\ attached' = [attached EXCEPT ![p] = {}]
  /\ running' = [running EXCEPT ![p] = FALSE]
  /\ up' = [up EXCEPT ![p] = 0]
  /\ UNCHANGED <<pins, readable, value, stage, starting, handles, program, names, shown, starts>>

\* The process dies, and a new one takes its place.
Die(p) ==
  /\ hooked' = [i \in Interfaces |-> IF hooked[i] = p THEN Nobody ELSE hooked[i]]
  /\ stage' = [stage EXCEPT ![p] = "idle"]
  /\ opened' = [opened EXCEPT ![p] = NoMaps] /\ toAttach' = [toAttach EXCEPT ![p] = {}]
  /\ handles' = [handles EXCEPT ![p] = NoMaps] /\ program' = [program EXCEPT ![p] = NoMaps]
  /\ names' = [names EXCEPT ![p] = {}] /\ running' = [running EXCEPT ![p] = FALSE]
  /\ up' = [up EXCEPT ![p] = 0] /\ attached' = [attached EXCEPT ![p] = {}]
  /\ shown' = [shown EXCEPT ![p] = [i \in Interfaces |-> 0]]
  /\ UNCHANGED <<pins, readable, value, starts>>

\* The XDP program on an interface counts a packet.
Packet(i) ==
  /\ hooked[i] # Nobody
  /\ LET o == program[hooked[i]][StatsMap] IN
       /\ value[o][i] < MaxPackets
       /\ value' = [value EXCEPT ![o][i] = @ + 1]
  /\ UNCHANGED <<pins, readable, hooked, stage, starting, fields, gauges, starts>>

--------------------------------------------------------------------------------
Starting(p) ==
  \/ Start(p) \/ OpenMap(p) \/ OpenFails(p)
  \/ \E m \in Maps : ReuseMap(p, m) \/ \E o \in Objects : CreateMap(p, m, o)
  \/ LoadFails(p) \/ Loaded(p)
  \/ \E i \in Interfaces : Attach(p, i) \/ AttachFails(p, i)
  \/ Started(p)

CollectorNext ==
  \/ \E p \in Procs : Starting(p) \/ Collect(p) \/ Stop(p) \/ Die(p)
  \/ \E i \in Interfaces : Packet(i)

CollectorSpec == CollectorInit /\ [][CollectorNext]_collectorVars

--------------------------------------------------------------------------------
(* Properties.                                                             *)

Fields == [Maps -> Objects \cup {Nobody}]

\* The values the variables range over.
CollectorTypeOK ==
  /\ pins \in Fields /\ readable \in BOOLEAN
  /\ hooked \in [Interfaces -> Procs \cup {Nobody}]
  /\ value \in [Objects -> [Interfaces -> Nat]]
  /\ stage \in [Procs -> {"idle", "open", "load", "attach"}]
  /\ opened \in [Procs -> Fields] /\ toAttach \in [Procs -> SUBSET Interfaces]
  /\ handles \in [Procs -> Fields] /\ program \in [Procs -> Fields]
  /\ names \in [Procs -> SUBSET Interfaces] /\ running \in [Procs -> BOOLEAN]
  /\ up \in [Procs -> {0, 1}] /\ attached \in [Procs -> SUBSET Interfaces]
  /\ shown \in [Procs -> [Interfaces -> Nat]]
  /\ starts \in [Procs -> Nat]

\* Whatever attempts failed and whoever died before, every running Collector
\* reads the maps that are pinned, and so the same ones as everybody else.
RunningSharesPins == \A p \in Procs : running[p] => handles[p] = pins

\* An interface shown as attached has the XDP program of that very Collector,
\* counting in the maps that are pinned and that the exporter may read.
AttachedIsMeasured ==
  \A p \in Procs : \A i \in attached[p] :
    hooked[i] = p /\ program[p] = pins /\ readable

\* A Collector that is neither running nor starting has no program on any
\* interface: Stop finds every link although attaching may have failed half-way.
NothingLeftBehind ==
  \A p \in Procs : ~running[p] /\ stage[p] # "attach" => Links(p) = {}

\* The packets a process shows for an interface never decrease, across Stop and
\* Start too, and are never more than were counted.
TotalsGrow ==
  [][\A p \in Procs, i \in Interfaces : ~Die(p) =>
       /\ shown'[p][i] >= shown[p][i]
       /\ \E o \in Objects : shown'[p][i] <= value'[o][i]]_collectorVars
================================================================================
