-------------------------------- MODULE MCExporter --------------------------------
(* Exporter in a small environment that pins, unpins and counts one map at  *)
(* a time.  The exporter is root here; StressExporter has the other case.  *)
EXTENDS Exporter

CONSTANTS
  LoopObject, \* the object pinned as any other map
  MaxCount    \* BOUND: how far the environment counts

MCReadOrder == <<"stats_packets", "stats_loops">>

MCInit ==
  /\ pins = [m \in OpenMaps |-> None]
  /\ readable = {}
  /\ value = [m \in OpenMaps |-> [o \in Objects |-> 0]]
  /\ Init

\* Only stats_packets, whose handle decides about reconnecting, is pinned anew as
\* another object.
Pin(m, o) ==
  /\ pins[m] = None
  /\ m # "stats_packets" => o = LoopObject
  /\ pins' = [pins EXCEPT ![m] = o]
  /\ UNCHANGED <<readable, value>>

Unpin(m) ==
  /\ pins[m] # None
  /\ pins' = [pins EXCEPT ![m] = None]
  /\ UNCHANGED <<readable, value>>

Count(o) ==
  \E m \in StatMaps :
    /\ value[m][o] < MaxCount
    /\ value' = [value EXCEPT ![m][o] = @ + 1]
    /\ UNCHANGED <<pins, readable>>

\* What happens after the exporter's exit does not concern it.
SmallEnvironment ==
  /\ stage # "exited"
  /\ \/ \E m \in OpenMaps : (\E o \in Objects : Pin(m, o)) \/ Unpin(m)
     \/ \E o \in Objects : Count(o)
  /\ UNCHANGED <<collector, metrics, stage, ready>>

MCNext == Exporting \/ SmallEnvironment

MCSpec == MCInit /\ [][MCNext]_vars

MCFairSpec == MCSpec /\ Fairness
================================================================================
