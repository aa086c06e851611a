----------------------------- MODULE StressExporter -----------------------------
(***************************************************************************)
(* ebpf-stress and ebpf-exporter together.  They share nothing but the     *)
(* pin directory and the maps: StressLoader takes the place of the open    *)
(* environment of Exporter, whose specification the whole has to           *)
(* implement.  The exporter does not open config_enabled.                  *)
(***************************************************************************)
EXTENDS StressLoader, Sequences

CONSTANTS
  ReadOrder,   \* see Exporter
  RateMaps,
  MaxUInt64,
  Root

\* The exporter reads the statistics maps the loader pins, whose counters, like
\* the loop count, fit a uint64.
ASSUME ServiceAssumption ==
  /\ CounterMaps = {ReadOrder[n] : n \in 1 .. Len(ReadOrder)}
  /\ MaxUInt64 \in Nat /\ MaxPackets <= MaxUInt64
  /\ \A i \in Instances, n \in 1 .. MaxRuns : Loops(i, n) <= MaxUInt64

VARIABLES
  pc, toOpen, next, handle, closed, sample, last, latencyMapsAvailable,
  up, ifaceUp, totals, rates, latencyFresh, main, ready

exporter == <<pc, toOpen, next, handle, closed, sample, last, latencyMapsAvailable,
              up, ifaceUp, totals, rates, latencyFresh, main, ready>>

Exported == CounterMaps \cup {LoopMap}

E == INSTANCE Exporter
       WITH pins <- [m \in Exported |-> pins[m]],
            readable <- readable \cap Exported,
            value <- [m \in Exported |-> value[m]],
            stage <- main

BothInit == Init /\ E!Init

BothNext ==
  \/ Next /\ UNCHANGED exporter
  \/ UNCHANGED vars /\ E!Exporting

BothSpec == BothInit /\ [][BothNext]_<<vars, exporter>>

Polling == UNCHANGED vars /\ E!Collector

\* Nothing is asked of the stress processes, which run when an operator starts
\* them and may stay at any step; the exporter polls.
FairBothSpec == BothSpec /\ WF_exporter(Polling)

--------------------------------------------------------------------------------
(* Properties.                                                             *)

\* The loader, with its crashes, restarts and reused maps, is an environment
\* the exporter can live with: no object it may hold ever counts backwards, so
\* everything proved of Exporter holds of the two together.
ExporterIsServed == E!Spec

Exports(i) ==
  /\ up = 1
  /\ \A m \in CounterMaps : handle[m] = prog[i][m] /\ totals[m] = value[m][prog[i][m]]

\* A run that is not stopped gets exported, by an exporter that is not root and
\* that waits without a handle when the program runs: its maps are pinned and
\* readable by then, and every packet counted later arrives in the totals.
RunGetsExported ==
  \A i \in Instances :
    []( /\ stage[i] = "running" /\ pc = "wait" /\ \A m \in Exported : handle[m] = None
        /\ [](stage[i] = "running" /\ main = "serving")
        => <>[]Exports(i) )
================================================================================
