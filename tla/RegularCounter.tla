----------------------------- MODULE RegularCounter -----------------------------
(***************************************************************************)
(* What a statistics map promises to whoever sums it: a counter that only  *)
(* grows, and a read that takes time and returns a value between those the *)
(* counter had at its start and at its end.  sumPerCPUMap implements it    *)
(* over per-CPU slots that change while they are copied.                   *)
(***************************************************************************)
EXTENDS Integers

VARIABLES
  total,    \* the counter
  reading,  \* a read is in progress
  low,      \* the counter when the latest read started
  result    \* what the latest finished read returned

vars == <<total, reading, low, result>>

Init == total = 0 /\ reading = FALSE /\ low = 0 /\ result = 0

Increase ==
  /\ total' \in Int /\ total' > total
  /\ UNCHANGED <<reading, low, result>>

Start ==
  /\ ~reading
  /\ reading' = TRUE
  /\ low' = total
  /\ UNCHANGED <<total, result>>

Finish ==
  /\ reading
  /\ reading' = FALSE
  /\ result' \in low .. total
  /\ UNCHANGED <<total, low>>

Next == Increase \/ Start \/ Finish

Spec == Init /\ [][Next]_vars
================================================================================
