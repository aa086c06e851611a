----------------------------- MODULE MCAfPacketStress -----------------------------
(* AfPacketStress with few packets in all.                                 *)
EXTENDS AfPacketStress, FiniteSets

CONSTANT MaxTotal \* BOUND: packets sent, and sockets that received some

Taken ==
  Cardinality({s \in Ids : pktsRecv[s] > 0 \/ receiver[s] = "pktsRecv"}) + packetsSent

MCNext == Next /\ Taken' <= MaxTotal

MCFairSpec == Init /\ [][MCNext]_vars /\ Fairness
================================================================================
