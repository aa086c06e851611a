------------------------------ MODULE MCStressLoader ------------------------------
(* Instances of StressLoader for TLC.                                      *)
EXTENDS StressLoader

\* Every run of a process, and every process, asks for a loop count of its own.
CONSTANT FirstInstance
MCLoops(i, n) == IF i = FirstInstance THEN n ELSE MaxRuns + n
================================================================================
