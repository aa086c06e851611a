----------------------------- MODULE MCLatencyProgram -----------------------------
(* LatencyProgram for TLC: CPUs, packets and hashes are interchangeable.     *)
EXTENDS LatencyProgram, TLC

\* BOUND: a packet has no hash anywhere, or one that changes at most once.
Routes ==
  {r \in [Hooks -> Hashes] : r[TCIngress] \in {r[XDP], r[TCEgress]}} \cup {[h \in Hooks |-> 0]}

MCInit == hash \in [Packets -> Routes] /\ Init

MCSpec == MCInit /\ [][Next]_vars

Symmetry == Permutations(CPUs) \cup Permutations(Packets) \cup Permutations(Hashes)
================================================================================
