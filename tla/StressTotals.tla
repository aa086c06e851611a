------------------------------ MODULE StressTotals ------------------------------
(***************************************************************************)
(* StressProgram with two history variables: for each map the sum it had   *)
(* when its latest copy began, and the sum the latest copy returned.  With *)
(* them the maps of packets and of loops, summed by sumPerCPUMap, are      *)
(* shown to be RegularCounters.                                            *)
(***************************************************************************)
EXTENDS StressProgram, FiniteSets, Functions

\* There are as many slots as processors.
ASSUME ProcessorsAssumption == IsFiniteSet(CPUs)

\* The maps whose sums are followed: the counts the rates are made of.
Totalled == {"packets", "loops"}

VARIABLES
  low,     \* HISTORY: the sum of each map when its latest copy began
  result   \* HISTORY: what the latest sumPerCPUMap of each map returned

totalVars == <<vars, low, result>>

\* MUTANT of SumPerCPU: the first slot skipped.
SumPerCPUSkipping(values) ==
  SumFunctionOnSet(values, CPUs \ {CHOOSE c \in CPUs : TRUE})

\* sumPerCPUMap: the slots of all CPUs added up.
SumPerCPU(values) == SumFunction(values)

Total(f) == SumPerCPU(stats[f])

TotalsInit ==
  /\ Init
  /\ low = [f \in Totalled |-> 0]
  /\ result = [f \in Totalled |-> 0]

\* A step of StressProgram; low is taken where the copy of a map begins and
\* result where it ends.
TotalsNext ==
  /\ Next
  /\ low' = [f \in Totalled |-> IF at # f /\ at' = f THEN Total(f)' ELSE low[f]]
  /\ result' = [f \in Totalled |->
                  IF at = f /\ at' # f THEN SumPerCPU(seen'[f]) ELSE result[f]]

TotalsSpec == TotalsInit /\ [][TotalsNext]_totalVars

--------------------------------------------------------------------------------
(* Properties.                                                             *)

Packets == INSTANCE RegularCounter
             WITH total <- SumFunction(stats["packets"]), reading <- at = "packets",
                  low <- low["packets"], result <- result["packets"]

Loops == INSTANCE RegularCounter
           WITH total <- SumFunction(stats["loops"]), reading <- at = "loops",
                low <- low["loops"], result <- result["loops"]

\* Every total of packets and of loops GetStats or collect obtains lies between
\* the totals the map had when that read began and when it ended, although the
\* slots were copied at different moments while the program kept adding
\* (sumPerCPUMap). Successive reads so never go backwards, and the differences
\* collect takes between two polls (packets - LastPackets, ...) never wrap.
TotalsRegular == Packets!Spec /\ Loops!Spec
================================================================================
