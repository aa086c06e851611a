----------------------------- MODULE MCLatencyCollector -----------------------------
(* LatencyCollector for TLC.                                                   *)
EXTENDS LatencyCollector, TLC

MCMapOrder == <<"interface_latency_stats", "global_packets">>

Symmetry == Permutations(Procs) \cup Permutations(Interfaces)
================================================================================
