-------------------------------- MODULE TrafficGen --------------------------------
(***************************************************************************)
(* The goroutines of traffic-gen and the rate they keep.  main divides the *)
(* packets per second asked for among its workers; each worker sends a     *)
(* batch at every tick of its ticker, or bursts without a pause in maximum *)
(* rate mode, and counts each packet in two shared counters.  The literals *)
(* of the code are constants here: they are too large for a model checker. *)
(***************************************************************************)
EXTENDS Integers, FiniteSets, Functions

CONSTANTS
  Second, Microsecond,  \* time.Second, time.Microsecond
  DefaultPPS,   \* 10000, for a worker asked for nothing
  BatchSize,    \* 10 packets at a tick
  MaxBatch,     \* 1000, the most packets at a tick
  Burst,        \* 100 packets without looking at stopChan
  PacketSize,   \* --size
  Rates,        \* --pps
  WorkerCounts, \* --workers, or the number of CPUs
  MaxWorkers,   \* a bound of WorkerCounts
  MaxPPS,       \* BOUND: the rates whose division is checked
  MaxFires,     \* BOUND: ticks of one ticker
  MaxBursts     \* BOUND: bursts of one worker

ASSUME TrafficAssumption ==
  /\ Microsecond \in Nat \ {0} /\ Second \in Nat \ {0}
  /\ Second = Microsecond * (Second \div Microsecond)
  /\ BatchSize \in 1 .. Microsecond /\ MaxBatch \in Nat /\ BatchSize <= MaxBatch
  /\ DefaultPPS \in Nat \ {0} /\ Burst \in Nat \ {0} /\ PacketSize \in Nat
  /\ Rates \subseteq Int
  /\ MaxWorkers \in Nat \ {0} /\ WorkerCounts \subseteq 1 .. MaxWorkers
  /\ MaxPPS \in Nat /\ MaxFires \in Nat /\ MaxBursts \in Nat

Ids == 0 .. MaxWorkers - 1

--------------------------------------------------------------------------------
(* The pacing.                                                             *)

\* A worker's share of the rate; nothing asked for, or less than one packet per
\* worker, is the default.  The division truncates towards 0.
Share(pps, workers) ==
  IF pps < workers THEN DefaultPPS ELSE pps \div workers

\* MUTANT of Pacing: the batch not adapted to the interval of a microsecond.
PacingFixedBatch(targetPPS) ==
  LET interval == (Second * BatchSize) \div targetPPS IN
  [batch |-> BatchSize,
   interval |-> IF interval >= Microsecond THEN interval ELSE Microsecond]

\* The packets at a tick and the time between two ticks, for targetPPS packets
\* per second: ten of them if that makes a tick of at least a microsecond.
Pacing(targetPPS) ==
  LET interval == (Second * BatchSize) \div targetPPS
      perMicro == targetPPS \div (Second \div Microsecond)
  IN
  IF interval >= Microsecond THEN [batch |-> BatchSize, interval |-> interval]
  ELSE [batch |-> IF perMicro < 1 THEN 1 ELSE IF perMicro > MaxBatch THEN MaxBatch
                  ELSE perMicro,
        interval |-> Microsecond]

\* The rates a worker can keep: up to the largest batch every microsecond.
Feasible(targetPPS) == targetPPS < (MaxBatch + 1) * (Second \div Microsecond)

--------------------------------------------------------------------------------
VARIABLES
  pps, workers, maxRate,  \* the flags
  main,         \* where main is
  stopped,      \* stopChan is closed
  worker,       \* where each worker is
  pending,      \* its ticker's channel holds a tick
  left,         \* packets left in its batch or burst
  packetsSent, bytesSent,
  reporter, lastPackets,  \* reportStats and its last sample
  fires,        \* HISTORY: how often each ticker fired, or bursts begun
  sent,         \* HISTORY: packets sent by each worker
  late          \* HISTORY: and since stopChan was closed

flags == <<pps, workers, maxRate>>
counters == <<packetsSent, bytesSent>>
report == <<reporter, lastPackets>>
vars == <<flags, main, stopped, worker, pending, left, counters, report, fires, sent, late>>

Pace == Pacing(Share(pps, workers))
Started == {w \in Ids : w < workers}

Init ==
  /\ pps \in Rates /\ workers \in WorkerCounts /\ maxRate \in BOOLEAN
  /\ main = "waiting" /\ stopped = FALSE
  /\ worker = [w \in Ids |-> IF w < workers THEN "dial" ELSE "ended"]
  /\ pending = [w \in Ids |-> FALSE] /\ left = [w \in Ids |-> 0]
  /\ packetsSent = 0 /\ bytesSent = 0
  /\ reporter = "running" /\ lastPackets = 0
  /\ fires = [w \in Ids |-> 0] /\ sent = [w \in Ids |-> 0] /\ late = [w \in Ids |-> 0]

Move(w, from, to) == worker[w] = from /\ worker' = [worker EXCEPT ![w] = to]

\* net.Dial, which may fail: then the worker ends at once.
Dial(w) ==
  /\ Move(w, "dial", "select") \/ Move(w, "dial", "ended")
  /\ UNCHANGED <<flags, main, stopped, pending, left, counters, report, fires, sent, late>>

\* A ticker drops a tick the worker has not room for.
Fire(w) ==
  /\ ~maxRate /\ worker[w] \in {"select", "send", "bytes"} /\ fires[w] < MaxFires
  /\ pending' = [pending EXCEPT ![w] = TRUE]
  /\ fires' = [fires EXCEPT ![w] = @ + 1]
  /\ UNCHANGED <<flags, main, stopped, worker, left, counters, report, sent, late>>

\* MUTANT of TakeTick: the tick left in the channel.
TakeTickTwice(w) ==
  /\ ~maxRate /\ pending[w] /\ Move(w, "select", "send")
  /\ left' = [left EXCEPT ![w] = Pace.batch]
  /\ UNCHANGED <<flags, main, stopped, pending, counters, report, fires, sent, late>>

\* The select takes the tick, even if stopChan is closed as well.
TakeTick(w) ==
  /\ ~maxRate /\ pending[w] /\ Move(w, "select", "send")
  /\ pending' = [pending EXCEPT ![w] = FALSE]
  /\ left' = [left EXCEPT ![w] = Pace.batch]
  /\ UNCHANGED <<flags, main, stopped, counters, report, fires, sent, late>>

\* Its default begins a burst, only if stopChan is open.
BeginBurst(w) ==
  /\ maxRate /\ ~stopped /\ fires[w] < MaxBursts /\ Move(w, "select", "send")
  /\ left' = [left EXCEPT ![w] = Burst]
  /\ fires' = [fires EXCEPT ![w] = @ + 1]
  /\ UNCHANGED <<flags, main, stopped, pending, counters, report, sent, late>>

\* MUTANT of SeeStop: stopChan looked at only when the ticker has fired.
SeeStopOnTick(w) ==
  /\ stopped /\ pending[w] /\ Move(w, "select", "ended")
  /\ UNCHANGED <<flags, main, stopped, pending, left, counters, report, fires, sent, late>>

\* The select takes stopChan: the worker returns.
SeeStop(w) ==
  /\ stopped /\ Move(w, "select", "ended")
  /\ UNCHANGED <<flags, main, stopped, pending, left, counters, report, fires, sent, late>>

\* conn.Write fails, and nothing is counted; or the packet is.
WriteFails(w) ==
  /\ left[w] > 0 /\ Move(w, "send", "send")
  /\ left' = [left EXCEPT ![w] = @ - 1]
  /\ UNCHANGED <<flags, main, stopped, pending, counters, report, fires, sent, late>>

Write(w) ==
  /\ left[w] > 0 /\ Move(w, "send", "bytes")
  /\ left' = [left EXCEPT ![w] = @ - 1]
  /\ packetsSent' = packetsSent + 1
  /\ sent' = [sent EXCEPT ![w] = @ + 1]
  /\ late' = [late EXCEPT ![w] = IF stopped THEN @ + 1 ELSE @]
  /\ UNCHANGED <<flags, main, stopped, pending, bytesSent, report, fires>>

AddBytes(w) ==
  /\ Move(w, "bytes", "send")
  /\ bytesSent' = bytesSent + PacketSize
  /\ UNCHANGED <<flags, main, stopped, pending, left, packetsSent, report, fires, sent, late>>

EndBatch(w) ==
  /\ left[w] = 0 /\ Move(w, "send", "select")
  /\ UNCHANGED <<flags, main, stopped, pending, left, counters, report, fires, sent, late>>

\* reportStats, which nobody waits for.
Report ==
  /\ main # "exited" /\ reporter = "running"
  /\ \/ lastPackets' = packetsSent /\ UNCHANGED reporter
     \/ stopped /\ reporter' = "ended" /\ UNCHANGED lastPackets
  /\ UNCHANGED <<flags, main, stopped, worker, pending, left, counters, fires, sent, late>>

\* The signal, or the duration is over.
Stop ==
  /\ main = "waiting"
  /\ main' = "joining" /\ stopped' = TRUE
  /\ UNCHANGED <<flags, worker, pending, left, counters, report, fires, sent, late>>

\* MUTANT of Join: wg.Wait forgotten.
JoinAtOnce ==
  /\ main = "joining"
  /\ main' = "joined"
  /\ UNCHANGED <<flags, stopped, worker, pending, left, counters, report, fires, sent, late>>

\* wg.Wait, and the final statistics.
Join ==
  /\ main = "joining" /\ \A w \in Ids : worker[w] = "ended"
  /\ main' = "joined"
  /\ UNCHANGED <<flags, stopped, worker, pending, left, counters, report, fires, sent, late>>

Exit ==
  /\ main = "joined" /\ main' = "exited"
  /\ UNCHANGED <<flags, stopped, worker, pending, left, counters, report, fires, sent, late>>

Work(w) ==
  \/ Dial(w) \/ TakeTick(w) \/ BeginBurst(w) \/ SeeStop(w)
  \/ WriteFails(w) \/ Write(w) \/ AddBytes(w) \/ EndBatch(w)

Next ==
  \/ \E w \in Ids : Work(w) \/ Fire(w)
  \/ Report \/ Stop \/ Join \/ Exit

Spec == Init /\ [][Next]_vars

\* Goroutines are scheduled and writes return; the duration ends at last; a
\* select that finds both its ticker and stopChan ready again and again takes
\* stopChan at last.
Fairness ==
  /\ WF_vars(Stop) /\ WF_vars(Join)
  /\ \A w \in Ids : WF_vars(Work(w)) /\ SF_vars(SeeStop(w))

FairSpec == Spec /\ Fairness

--------------------------------------------------------------------------------
(* Properties.                                                             *)

\* The values the variables range over.
TypeOK ==
  /\ pps \in Rates /\ workers \in WorkerCounts /\ maxRate \in BOOLEAN
  /\ main \in {"waiting", "joining", "joined", "exited"} /\ stopped \in BOOLEAN
  /\ worker \in [Ids -> {"dial", "select", "send", "bytes", "ended"}]
  /\ pending \in [Ids -> BOOLEAN] /\ left \in [Ids -> Nat]
  /\ packetsSent \in Nat /\ bytesSent \in Nat
  /\ reporter \in {"running", "ended"} /\ lastPackets \in 0 .. packetsSent
  /\ fires \in [Ids -> Nat] /\ sent \in [Ids -> Nat] /\ late \in [Ids -> Nat]

Abs(n) == IF n < 0 THEN -n ELSE n

\* What the workers send in one tick is what --pps asks for in that time, but for
\* less than one packet each that the batches lose and less than one packet per
\* second each that the division loses; unless --pps is less than one packet per
\* worker, or more than they can send.
RateAsAsked ==
  \A n \in 1 .. MaxPPS, w \in 1 .. MaxWorkers :
    LET pace == Pacing(Share(n, w)) IN
    n >= w /\ Feasible(Share(n, w)) =>
      Abs(w * pace.batch * Second - n * pace.interval) < w * (Second + pace.interval)

\* A worker never gets ahead of its ticker, although ticks queue up while it
\* sends and some are dropped.
NeverAheadOfTicker ==
  \A w \in Ids : ~maxRate => sent[w] + left[w] <= fires[w] * Pace.batch

\* Once stopped, a worker at the maximum rate ends with the burst in progress.
OneBurstLate == maxRate => \A w \in Ids : late[w] <= Burst

\* The totals main prints after the join are those of the packets sent, all of
\* them counted in both counters.
FinalStatsExact ==
  main = "joined" =>
    packetsSent = SumFunction(sent) /\ bytesSent = PacketSize * packetsSent

\* The program ends: no worker keeps main waiting.
Termination == <>(main = "exited" \/ main = "joined")
================================================================================
