----------------------------- MODULE MCStressExporter -----------------------------
(* Instances of StressExporter for TLC: one process, started twice.          *)
EXTENDS StressExporter

MCReadOrder == <<"stats_packets">>

MCLoops(i, n) == n

\* Nobody asks /ready and the latency maps are missing: neither concerns the
\* stress process, and Exporter.cfg has both.
MCNext ==
  /\ BothNext
  /\ UNCHANGED ready
  /\ ~latencyMapsAvailable'

\* The exporter's main stays: its shutdown concerns no stress process.
MCServingSpec ==
  BothInit /\ [][MCNext /\ main' \in {"start", "serving"}]_<<vars, exporter>>
  /\ WF_exporter(Polling)
================================================================================
