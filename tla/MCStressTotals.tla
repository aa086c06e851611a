----------------------------- MODULE MCStressTotals -----------------------------
(* StressTotals for TLC: the CPUs are interchangeable.                       *)
EXTENDS StressTotals, TLC

Symmetry == Permutations(CPUs)

\* BOUND: the packets let in on all CPUs together, counted or in flight.
FewPackets ==
  SumFunction(stats["packets"]) + Cardinality({c \in CPUs : pc[c] \in {"entered", "packets"}})
    <= MaxPackets

MCSpec == TotalsInit /\ [][TotalsNext /\ FewPackets']_totalVars
================================================================================
