------------------------------- MODULE MCReproducer -------------------------------
(* Flags for Reproducer that a configuration file cannot write.            *)
EXTENDS Reproducer

MCSocketCounts == {-1, 3}
MCIntervals == {0, 5}
================================================================================
