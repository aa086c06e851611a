---------------------------- MODULE TrafficGenProofs ----------------------------
(***************************************************************************)
(* What holds of traffic-gen for any flags, any number of workers and any  *)
(* literals in place of its own.                                           *)
(***************************************************************************)
EXTENDS TrafficGen, SumTheorems

\* The batch of a worker is a number of packets, whatever --pps is.
LEMMA BatchIsNumber ==
  ASSUME pps \in Rates, workers \in WorkerCounts
  PROVE  Pace.batch \in Nat
<1>. DEFINE share == Share(pps, workers)
            interval == (Second * BatchSize) \div share
            perMicro == share \div (Second \div Microsecond)
<1>1. /\ pps \in Int /\ workers \in Nat \ {0}
      /\ BatchSize \in Nat /\ MaxBatch \in Nat /\ DefaultPPS \in Nat
      /\ Second \in Nat \ {0} /\ Microsecond \in Nat \ {0}
      /\ Second = Microsecond * (Second \div Microsecond)
  BY TrafficAssumption
<1>2. share \in Int
  <2>1. CASE pps < workers
    BY <1>1, <2>1 DEF Share
  <2>2. CASE ~(pps < workers)
    <3>1. pps \div workers \in Int
      BY <1>1
    <3> QED BY <2>2, <3>1 DEF Share
  <2> QED BY <2>1, <2>2
<1>3. Second \div Microsecond \in Nat \ {0}
  <2>1. Second \div Microsecond \in Nat
    BY <1>1
  <2>2. Second \div Microsecond # 0
    BY <1>1
  <2> QED BY <2>1, <2>2
<1>4. perMicro \in Int
  BY <1>2, <1>3
<1>. HIDE DEF share, interval, perMicro
<1>5. Pace = IF interval >= Microsecond
             THEN [batch |-> BatchSize, interval |-> interval]
             ELSE [batch |-> IF perMicro < 1 THEN 1
                             ELSE IF perMicro > MaxBatch THEN MaxBatch ELSE perMicro,
                   interval |-> Microsecond]
  BY DEF Pace, Pacing, share, interval, perMicro
<1>6. CASE interval >= Microsecond
  BY <1>1, <1>5, <1>6
<1>7. CASE ~(interval >= Microsecond)
  <2>1. Pace.batch = IF perMicro < 1 THEN 1
                     ELSE IF perMicro > MaxBatch THEN MaxBatch ELSE perMicro
    BY <1>5, <1>7
  <2> QED BY <1>1, <1>4, <2>1
<1> QED BY <1>6, <1>7

--------------------------------------------------------------------------------
(* Types.                                                                  *)

LEMMA TypeInit == Init => TypeOK
<1> SUFFICES ASSUME Init PROVE TypeOK
  OBVIOUS
<1>1. worker \in [Ids -> {"dial", "select", "send", "bytes", "ended"}]
  BY DEF Init
<1>2. /\ pending \in [Ids -> BOOLEAN] /\ left \in [Ids -> Nat]
      /\ fires \in [Ids -> Nat] /\ sent \in [Ids -> Nat] /\ late \in [Ids -> Nat]
  BY DEF Init
<1>3. packetsSent \in Nat /\ bytesSent \in Nat /\ lastPackets \in 0 .. packetsSent
  BY DEF Init
<1> QED BY <1>1, <1>2, <1>3 DEF Init, TypeOK

LEMMA TypeStep == TypeOK /\ [Next]_vars => TypeOK'
<1> SUFFICES ASSUME TypeOK, [Next]_vars PROVE TypeOK'
  OBVIOUS
<1>. USE DEF TypeOK, Move, flags, counters, report
<1>1. PacketSize \in Nat /\ Burst \in Nat
  BY TrafficAssumption
<1>2. Pace.batch \in Nat
  BY BatchIsNumber
<1>3. ASSUME NEW w \in Ids, Work(w) PROVE TypeOK'
  <2>1. CASE Dial(w)
    BY <2>1 DEF Dial
  <2>2. CASE TakeTick(w)
    BY <1>2, <2>2 DEF TakeTick
  <2>3. CASE BeginBurst(w)
    BY <1>1, <2>3 DEF BeginBurst
  <2>4. CASE SeeStop(w)
    BY <2>4 DEF SeeStop
  <2>5. CASE WriteFails(w)
    BY <2>5 DEF WriteFails
  <2>6. CASE Write(w)
    <3>1. left[w] \in Nat /\ sent[w] \in Nat /\ late[w] \in Nat /\ left[w] > 0
      BY <2>6 DEF Write
    <3>2. packetsSent' \in Nat /\ lastPackets' \in 0 .. packetsSent'
      BY <2>6 DEF Write
    <3>3. left' \in [Ids -> Nat] /\ sent' \in [Ids -> Nat] /\ late' \in [Ids -> Nat]
      BY <2>6, <3>1 DEF Write
    <3> QED BY <2>6, <3>2, <3>3 DEF Write
  <2>7. CASE AddBytes(w)
    <3>1. bytesSent' \in Nat
      BY <1>1, <2>7 DEF AddBytes
    <3> QED BY <2>7, <3>1 DEF AddBytes
  <2>8. CASE EndBatch(w)
    BY <2>8 DEF EndBatch
  <2> QED BY <1>3, <2>1, <2>2, <2>3, <2>4, <2>5, <2>6, <2>7, <2>8 DEF Work
<1>4. ASSUME NEW w \in Ids, Fire(w) PROVE TypeOK'
  BY <1>4 DEF Fire
<1>5. CASE Report
  BY <1>5 DEF Report
<1>6. CASE Stop
  BY <1>6 DEF Stop
<1>7. CASE Join
  BY <1>7 DEF Join
<1>8. CASE Exit
  BY <1>8 DEF Exit
<1>9. CASE UNCHANGED vars
  BY <1>9 DEF vars
<1> QED BY <1>3, <1>4, <1>5, <1>6, <1>7, <1>8, <1>9 DEF Next

\* The flags, counters and goroutines keep their ranges; what reportStats
\* remembers is never more than what has been sent.
THEOREM TypeCorrect == Spec => []TypeOK
  BY TypeInit, TypeStep, PTL DEF Spec

--------------------------------------------------------------------------------
(* NeverAheadOfTicker.  A tick in the channel of a worker is worth a batch *)
(* which it has not sent yet.                                              *)

Covered(w) ==
  /\ sent[w] + left[w] <= fires[w] * Pace.batch
  /\ pending[w] => sent[w] + left[w] + Pace.batch <= fires[w] * Pace.batch

TickInv == ~maxRate => \A w \in Ids : Covered(w)

LEMMA OneMore == \A n, b \in Nat : (n + 1) * b = n * b + b
  OBVIOUS

LEMMA TickInit == Init => TickInv
<1> SUFFICES ASSUME Init, NEW w \in Ids PROVE Covered(w)
  BY DEF TickInv
<1>1. TypeOK
  BY TypeInit
<1>2. Pace.batch \in Nat
  BY <1>1, BatchIsNumber DEF TypeOK
<1>3. sent[w] = 0 /\ left[w] = 0 /\ fires[w] = 0 /\ ~pending[w]
  BY DEF Init
<1>4. 0 * Pace.batch = 0
  BY <1>2
<1> QED BY <1>3, <1>4 DEF Covered

LEMMA TickStep == TypeOK /\ TickInv /\ [Next]_vars => TickInv'
<1> SUFFICES ASSUME TypeOK, TickInv, [Next]_vars, (~maxRate)', NEW w \in Ids
             PROVE  Covered(w)'
  BY DEF TickInv
<1>. DEFINE B == Pace.batch
<1>1. B \in Nat
  BY BatchIsNumber DEF TypeOK
<1>2. maxRate' = maxRate /\ pps' = pps /\ workers' = workers
  BY DEF Next, Work, Dial, TakeTick, BeginBurst, SeeStop, WriteFails, Write, AddBytes,
         EndBatch, Fire, Report, Stop, Join, Exit, vars, flags
<1>3. B' = B
  BY <1>2 DEF Pace
<1>4. Covered(w) /\ ~maxRate
  BY <1>2 DEF TickInv
<1>5. /\ sent[w] \in Nat /\ left[w] \in Nat /\ fires[w] \in Nat /\ pending[w] \in BOOLEAN
      /\ sent \in [Ids -> Nat] /\ left \in [Ids -> Nat] /\ fires \in [Ids -> Nat]
      /\ pending \in [Ids -> BOOLEAN]
  BY DEF TypeOK
<1>6. fires[w] * B \in Nat
  BY <1>1, <1>5
<1>7. ASSUME sent'[w] + left'[w] <= sent[w] + left[w], pending'[w] => pending[w],
             fires'[w] = fires[w], sent'[w] \in Nat, left'[w] \in Nat
      PROVE  Covered(w)'
  <2>. DEFINE all == fires[w] * B
  <2>1. /\ sent[w] + left[w] <= all
        /\ pending[w] => sent[w] + left[w] + B <= all
    BY <1>4 DEF Covered
  <2>2. all \in Nat /\ all' = all
    BY <1>3, <1>6, <1>7
  <2>. HIDE DEF all, B
  <2>3. /\ sent'[w] + left'[w] <= all
        /\ pending'[w] => sent'[w] + left'[w] + B <= all
    BY <1>1, <1>5, <1>7, <2>1, <2>2
  <2>. USE DEF all, B
  <2> QED BY <1>3, <2>2, <2>3 DEF Covered
<1>8. ASSUME NEW v \in Ids, Work(v) PROVE Covered(w)'
  <2>1. CASE TakeTick(v) /\ v = w
    <3>1. pending[w] /\ ~pending'[w] /\ left'[w] = B /\ sent'[w] = sent[w]
          /\ fires'[w] = fires[w]
      BY <1>5, <2>1 DEF TakeTick
    <3>2. sent[w] + left[w] + B <= fires[w] * B
      BY <1>4, <3>1 DEF Covered
    <3>3. sent[w] + B <= fires[w] * B
      BY <1>1, <1>5, <1>6, <3>2
    <3> QED BY <1>3, <3>1, <3>3 DEF Covered
  <2>2. CASE Write(v) /\ v = w
    <3>1. left[w] > 0 /\ left'[w] = left[w] - 1 /\ sent'[w] = sent[w] + 1
          /\ pending' = pending /\ fires' = fires
      BY <1>5, <2>2 DEF Write
    <3> QED BY <1>5, <1>7, <3>1
  <2>3. CASE WriteFails(v) /\ v = w
    <3>1. left[w] > 0 /\ left'[w] = left[w] - 1 /\ sent' = sent
          /\ pending' = pending /\ fires' = fires
      BY <1>5, <2>3 DEF WriteFails
    <3> QED BY <1>5, <1>7, <3>1
  <2>4. CASE BeginBurst(v)
    BY <1>4, <2>4 DEF BeginBurst
  <2>5. CASE (TakeTick(v) \/ Write(v) \/ WriteFails(v)) /\ v # w
    <3>1. sent'[w] = sent[w] /\ left'[w] = left[w] /\ pending'[w] = pending[w]
          /\ fires'[w] = fires[w]
      BY <1>5, <2>5 DEF TakeTick, Write, WriteFails
    <3> QED BY <1>5, <1>7, <3>1
  <2>6. CASE Dial(v) \/ SeeStop(v) \/ AddBytes(v) \/ EndBatch(v)
    <3>1. sent' = sent /\ left' = left /\ pending' = pending /\ fires' = fires
      BY <2>6 DEF Dial, SeeStop, AddBytes, EndBatch
    <3> QED BY <1>5, <1>7, <3>1
  <2> QED BY <1>8, <2>1, <2>2, <2>3, <2>4, <2>5, <2>6 DEF Work
<1>9. ASSUME NEW v \in Ids, Fire(v) PROVE Covered(w)'
  <2>1. CASE v = w
    <3>1. fires'[w] = fires[w] + 1 /\ sent' = sent /\ left' = left
      BY <1>5, <1>9, <2>1 DEF Fire
    <3>2. fires'[w] * B = fires[w] * B + B
      BY <1>1, <1>5, <3>1, OneMore
    <3>3. sent[w] + left[w] <= fires[w] * B
      BY <1>4 DEF Covered
    <3>4. sent[w] + left[w] + B <= fires'[w] * B /\ sent[w] + left[w] <= fires'[w] * B
      BY <1>1, <1>5, <1>6, <3>2, <3>3
    <3> QED BY <1>3, <3>1, <3>4 DEF Covered
  <2>2. CASE v # w
    <3>1. sent' = sent /\ left' = left /\ pending'[w] = pending[w] /\ fires'[w] = fires[w]
      BY <1>5, <1>9, <2>2 DEF Fire
    <3> QED BY <1>5, <1>7, <3>1
  <2> QED BY <2>1, <2>2
<1>10. CASE Report \/ Stop \/ Join \/ Exit \/ UNCHANGED vars
  <2>1. sent' = sent /\ left' = left /\ pending' = pending /\ fires' = fires
    BY <1>10 DEF Report, Stop, Join, Exit, vars
  <2> QED BY <1>5, <1>7, <2>1
<1> QED BY <1>8, <1>9, <1>10 DEF Next

\* No worker sends more than a batch for each tick of its ticker, whatever the
\* rate, the ticks it drops and the time a packet takes.
THEOREM TickerObeyed == Spec => []NeverAheadOfTicker
<1>1. TickInv => NeverAheadOfTicker
  BY DEF TickInv, Covered, NeverAheadOfTicker
<1> QED BY <1>1, TypeCorrect, TickInit, TickStep, PTL DEF Spec

--------------------------------------------------------------------------------
(* OneBurstLate.  What is left of the burst in progress can still be sent. *)

BurstInv ==
  maxRate => \A w \in Ids :
    late[w] + left[w] <= Burst /\ (~stopped => late[w] = 0)

LEMMA BurstInit == Init => BurstInv
<1> SUFFICES ASSUME Init, NEW w \in Ids
             PROVE  late[w] + left[w] <= Burst /\ (~stopped => late[w] = 0)
  BY DEF BurstInv
<1>1. late[w] = 0 /\ left[w] = 0 /\ Burst \in Nat
  BY TrafficAssumption DEF Init
<1> QED BY <1>1

LEMMA BurstStep == TypeOK /\ BurstInv /\ [Next]_vars => BurstInv'
<1> SUFFICES ASSUME TypeOK, BurstInv, [Next]_vars, maxRate', NEW w \in Ids
             PROVE  (late[w] + left[w] <= Burst /\ (~stopped => late[w] = 0))'
  BY DEF BurstInv
<1>1. maxRate
  BY DEF Next, Work, Dial, TakeTick, BeginBurst, SeeStop, WriteFails, Write, AddBytes,
         EndBatch, Fire, Report, Stop, Join, Exit, vars, flags
<1>2. late[w] + left[w] <= Burst /\ (~stopped => late[w] = 0)
  BY <1>1 DEF BurstInv
<1>3. /\ late[w] \in Nat /\ left[w] \in Nat /\ Burst \in Nat
      /\ late \in [Ids -> Nat] /\ left \in [Ids -> Nat]
  BY TrafficAssumption DEF TypeOK
<1>4. ASSUME NEW v \in Ids, Work(v)
      PROVE  (late[w] + left[w] <= Burst /\ (~stopped => late[w] = 0))'
  <2>1. CASE BeginBurst(v)
    <3>1. ~stopped /\ late' = late /\ stopped' = stopped
      BY <2>1 DEF BeginBurst
    <3>2. left'[w] = Burst \/ left'[w] = left[w]
      BY <1>3, <2>1 DEF BeginBurst
    <3> QED BY <1>2, <1>3, <3>1, <3>2
  <2>2. CASE Write(v) /\ v = w
    <3>1. left[w] > 0 /\ left'[w] = left[w] - 1 /\ stopped' = stopped
      BY <1>3, <2>2 DEF Write
    <3>2. (stopped => late'[w] = late[w] + 1) /\ (~stopped => late'[w] = late[w])
      BY <1>3, <2>2 DEF Write
    <3>3. CASE stopped
      BY <1>2, <1>3, <3>1, <3>2, <3>3
    <3>4. CASE ~stopped
      BY <1>2, <1>3, <3>1, <3>2, <3>4
    <3> QED BY <3>3, <3>4
  <2>3. CASE WriteFails(v) /\ v = w
    <3>1. left[w] > 0 /\ left'[w] = left[w] - 1 /\ late' = late /\ stopped' = stopped
      BY <1>3, <2>3 DEF WriteFails
    <3> QED BY <1>2, <1>3, <3>1
  <2>4. CASE (Write(v) \/ WriteFails(v)) /\ v # w
    <3>1. late'[w] = late[w] /\ left'[w] = left[w] /\ stopped' = stopped
      BY <1>3, <2>4 DEF Write, WriteFails
    <3> QED BY <1>2, <3>1
  <2>5. CASE TakeTick(v)
    BY <1>1, <2>5 DEF TakeTick
  <2>6. CASE Dial(v) \/ SeeStop(v) \/ AddBytes(v) \/ EndBatch(v)
    <3>1. late' = late /\ left' = left /\ stopped' = stopped
      BY <2>6 DEF Dial, SeeStop, AddBytes, EndBatch
    <3> QED BY <1>2, <3>1
  <2> QED BY <1>4, <2>1, <2>2, <2>3, <2>4, <2>5, <2>6 DEF Work
<1>5. CASE Stop
  <2>1. late' = late /\ left' = left /\ stopped'
    BY <1>5 DEF Stop
  <2> QED BY <1>2, <2>1
<1>6. CASE Report \/ Join \/ Exit \/ UNCHANGED vars
  <2>1. late' = late /\ left' = left /\ stopped' = stopped
    BY <1>6 DEF Report, Join, Exit, vars
  <2> QED BY <1>2, <2>1
<1>7. ASSUME NEW v \in Ids, Fire(v)
      PROVE  (late[w] + left[w] <= Burst /\ (~stopped => late[w] = 0))'
  BY <1>1, <1>7 DEF Fire
<1> QED BY <1>4, <1>5, <1>6, <1>7 DEF Next

\* A worker at the maximum rate sends at most the rest of its burst after the
\* stop, however large a burst is.
THEOREM BurstBounded == Spec => []OneBurstLate
<1>1. TypeOK /\ BurstInv => OneBurstLate
  <2> SUFFICES ASSUME TypeOK, BurstInv, maxRate, NEW w \in Ids PROVE late[w] <= Burst
    BY DEF OneBurstLate
  <2>1. late[w] \in Nat /\ left[w] \in Nat /\ Burst \in Nat
    BY TrafficAssumption DEF TypeOK
  <2>2. late[w] + left[w] <= Burst
    BY DEF BurstInv
  <2> QED BY <2>1, <2>2
<1> QED BY <1>1, TypeCorrect, BurstInit, BurstStep, PTL DEF Spec
--------------------------------------------------------------------------------
(* FinalStatsExact.  A packet between the two adds of its worker is the    *)
(* only one the counters disagree about.                                   *)

InBytes == [w \in Ids |-> IF worker[w] = "bytes" THEN 1 ELSE 0]

CountInv ==
  /\ packetsSent = SumFunction(sent)
  /\ bytesSent + PacketSize * SumFunction(InBytes) = PacketSize * packetsSent
  /\ main \in {"joined", "exited"} => \A w \in Ids : worker[w] = "ended"

LEMMA IdsFinite == IsFiniteSet(Ids)
  BY TrafficAssumption, FS_Interval DEF Ids

LEMMA InBytesSum == InBytes \in [Ids -> Nat] /\ SumFunction(InBytes) \in Nat
<1>1. InBytes \in [Ids -> Nat]
  BY DEF InBytes
<1> QED BY <1>1, IdsFinite, SumIsNat

LEMMA NobodyInBytes ==
  ASSUME \A w \in Ids : worker[w] # "bytes"
  PROVE  SumFunction(InBytes) = 0
<1>1. InBytes \in [Ids -> Int] /\ \A w \in Ids : InBytes[w] = 0
  BY DEF InBytes
<1> QED BY <1>1, IdsFinite, SumIsZero

\* A worker that moves between other places changes nothing.
LEMMA BytesChange ==
  ASSUME TypeOK, NEW v \in Ids, NEW from, NEW to, Move(v, from, to)
  PROVE  SumFunction(InBytes') = SumFunction(InBytes)
           + ((IF to = "bytes" THEN 1 ELSE 0) - (IF from = "bytes" THEN 1 ELSE 0))
<1>1. /\ worker \in [Ids -> {"dial", "select", "send", "bytes", "ended"}]
      /\ worker[v] = from /\ worker' = [worker EXCEPT ![v] = to]
  BY DEF TypeOK, Move
<1>2. InBytes \in [Ids -> Int] /\ InBytes' \in [Ids -> Int]
  BY DEF InBytes
<1>3. \A w \in Ids \ {v} : InBytes'[w] = InBytes[w]
  BY <1>1 DEF InBytes
<1>4. /\ InBytes'[v] = IF to = "bytes" THEN 1 ELSE 0
      /\ InBytes[v] = IF from = "bytes" THEN 1 ELSE 0
  BY <1>1 DEF InBytes
<1>5. SumFunction(InBytes') = SumFunction(InBytes) + (InBytes'[v] - InBytes[v])
  BY <1>2, <1>3, IdsFinite, SumChangesAt
<1> QED BY <1>4, <1>5

LEMMA CountInit == Init => CountInv
<1> SUFFICES ASSUME Init PROVE CountInv
  OBVIOUS
<1>1. SumFunction(sent) = 0
  BY IdsFinite, SumIsZero DEF Init
<1>2. \A w \in Ids : worker[w] # "bytes"
  BY DEF Init
<1>3. SumFunction(InBytes) = 0
  BY <1>2, NobodyInBytes
<1>4. PacketSize \in Nat
  BY TrafficAssumption
<1>5. packetsSent = 0 /\ bytesSent = 0 /\ main = "waiting"
  BY DEF Init
<1> QED BY <1>1, <1>3, <1>4, <1>5 DEF CountInv

LEMMA CountStep == TypeOK /\ CountInv /\ [Next]_vars => CountInv'
<1> SUFFICES ASSUME TypeOK, CountInv, [Next]_vars PROVE CountInv'
  OBVIOUS
<1> DEFINE k == SumFunction(InBytes)
<1>1. /\ packetsSent = SumFunction(sent)
      /\ bytesSent + PacketSize * k = PacketSize * packetsSent
      /\ main \in {"joined", "exited"} => \A w \in Ids : worker[w] = "ended"
  BY DEF CountInv
<1>2. PacketSize \in Nat /\ packetsSent \in Nat /\ bytesSent \in Nat
      /\ sent \in [Ids -> Int] /\ k \in Nat
  BY TrafficAssumption, InBytesSum DEF TypeOK
<1>3. ASSUME sent' = sent, packetsSent' = packetsSent, bytesSent' = bytesSent, k' = k,
             main' \in {"joined", "exited"} => \A w \in Ids : worker'[w] = "ended"
      PROVE  CountInv'
  BY <1>1, <1>3 DEF CountInv
<1>4. ASSUME NEW v \in Ids, Work(v) PROVE CountInv'
  <2>1. /\ main' = main
        /\ worker[v] # "ended"
    BY <1>4 DEF Work, Dial, TakeTick, BeginBurst, SeeStop, WriteFails, Write, AddBytes,
                EndBatch, Move
  <2>2. main' \notin {"joined", "exited"}
    BY <1>1, <2>1
  <2>3. CASE Write(v)
    <3>1. k' = k + 1
      BY <2>3, BytesChange DEF Write
    <3>2. /\ packetsSent' = packetsSent + 1 /\ bytesSent' = bytesSent
          /\ sent' = [sent EXCEPT ![v] = @ + 1]
      BY <2>3 DEF Write
    <3>3. sent' \in [Ids -> Int] /\ \A w \in Ids \ {v} : sent'[w] = sent[w]
      BY <1>2, <3>2
    <3>4. SumFunction(sent') = SumFunction(sent) + (sent'[v] - sent[v])
      BY <1>2, <3>3, IdsFinite, SumChangesAt
    <3>5. sent'[v] = sent[v] + 1 /\ sent[v] \in Int
      BY <1>2, <3>2
    <3>6. packetsSent' = SumFunction(sent')
      BY <1>1, <1>2, <3>2, <3>4, <3>5
    <3>7. bytesSent' + PacketSize * k' = PacketSize * packetsSent'
      <4> HIDE DEF k
      <4> QED BY <1>1, <1>2, <3>1, <3>2
    <3> QED BY <2>2, <3>6, <3>7 DEF CountInv
  <2>4. CASE AddBytes(v)
    <3>1. k' = k - 1
      BY <2>4, BytesChange, <1>2 DEF AddBytes
    <3>2. /\ packetsSent' = packetsSent /\ bytesSent' = bytesSent + PacketSize
          /\ sent' = sent
      BY <2>4 DEF AddBytes, counters
    <3>3. bytesSent' + PacketSize * k' = PacketSize * packetsSent'
      <4> HIDE DEF k
      <4> QED BY <1>1, <1>2, <3>1, <3>2
    <3> QED BY <1>1, <2>2, <3>2, <3>3 DEF CountInv
  <2>5. CASE ~Write(v) /\ ~AddBytes(v)
    <3>1. /\ sent' = sent /\ packetsSent' = packetsSent /\ bytesSent' = bytesSent
          /\ \E from, to \in {"dial", "select", "send", "ended"} : Move(v, from, to)
      BY <1>4, <2>5 DEF Work, Dial, TakeTick, BeginBurst, SeeStop, WriteFails, EndBatch,
                        counters
    <3>2. k' = k
      BY <1>2, <3>1, BytesChange
    <3> QED BY <1>3, <2>2, <3>1, <3>2
  <2> QED BY <2>3, <2>4, <2>5
<1>5. CASE \/ \E v \in Ids : Fire(v)
           \/ Report \/ Stop \/ Join \/ Exit \/ UNCHANGED vars
  <2>1. /\ sent' = sent /\ packetsSent' = packetsSent /\ bytesSent' = bytesSent
        /\ worker' = worker
    BY <1>5 DEF Fire, Report, Stop, Join, Exit, vars, counters
  <2>2. main' \in {"joined", "exited"} => \A w \in Ids : worker'[w] = "ended"
    BY <1>1, <1>5, <2>1 DEF Fire, Report, Stop, Join, Exit, vars
  <2>3. InBytes' = InBytes
    BY <2>1 DEF InBytes
  <2> QED BY <1>3, <2>1, <2>2, <2>3
<1> QED BY <1>4, <1>5 DEF Next

\* The totals printed at the end are the packets all workers sent, each of them
\* counted in both counters, for any number of workers.
THEOREM FinalTotals == Spec => []FinalStatsExact
<1>1. TypeOK /\ CountInv => FinalStatsExact
  <2> SUFFICES ASSUME TypeOK, CountInv, main = "joined"
               PROVE  packetsSent = SumFunction(sent) /\ bytesSent = PacketSize * packetsSent
    BY DEF FinalStatsExact
  <2>1. SumFunction(InBytes) = 0
    BY NobodyInBytes DEF CountInv
  <2>2. PacketSize \in Nat /\ bytesSent \in Nat /\ packetsSent \in Nat
    BY TrafficAssumption DEF TypeOK
  <2> QED BY <2>1, <2>2 DEF CountInv
<1> QED BY <1>1, TypeCorrect, CountInit, CountStep, PTL DEF Spec

--------------------------------------------------------------------------------
(* The pacing.                                                             *)

LEMMA Times ==
  ASSUME NEW a \in Int, NEW b \in Int, NEW c \in Nat, a <= b
  PROVE  c * a <= c * b /\ c * a \in Int /\ c * b \in Int
<1>1. c * (b - a) >= 0
  OBVIOUS
<1>2. c * (b - a) = c * b - c * a
  OBVIOUS
<1> QED
  BY <1>1, <1>2

LEMMA TimesStrict ==
  ASSUME NEW a \in Int, NEW b \in Int, NEW c \in Nat \ {0}, a < b
  PROVE  c * a < c * b
<1>1. c * (b - a) >= c
  <2>1. b - a \in Nat \ {0} /\ c \in Nat
    OBVIOUS
  <2> DEFINE d == b - a
  <2> HIDE DEF d
  <2>2. d * c >= c
    BY <2>1, AtLeast DEF d
  <2> QED
    BY <2>1, <2>2 DEF d
<1>2. c * (b - a) = c * b - c * a
  OBVIOUS
<1> QED
  BY <1>1, <1>2

LEMMA Quotient ==
  ASSUME NEW a \in Nat, NEW m \in Nat \ {0}
  PROVE  a \div m \in Nat /\ m * (a \div m) <= a /\ a < m * (a \div m) + m
<1>1. a = m * (a \div m) + (a % m) /\ a \div m \in Int /\ a % m \in 0 .. m - 1
  BY Division
<1> DEFINE q == a \div m
           r == a % m
<1> HIDE DEF q, r
<1>2. a = m * q + r /\ q \in Int /\ r \in 0 .. m - 1
  BY <1>1 DEF q, r
<1>3. q >= 0
  <2> SUFFICES ASSUME q <= -1 PROVE FALSE
    BY <1>2
  <2>1. m * q <= m * (-1)
    BY <1>2, Times
  <2> QED
    BY <1>2, <2>1
<1>4. q \in Nat /\ m * q <= a /\ a < m * q + m
  BY <1>2, <1>3
<1> QED
  BY <1>4 DEF q

\* A worker's share t of a rate n at an interval of at least U.
LEMMA SlowPace ==
  ASSUME NEW w \in Nat \ {0}, NEW t \in Nat \ {0}, NEW n \in Nat, NEW s \in Nat, NEW b \in Nat,
         NEW u \in Nat \ {0}, NEW i \in Nat,
         w * t <= n, n < w * t + w, t * i <= s * b, s * b < t * i + t, u <= i, b <= u
  PROVE  w * b * s - n * i < w * (s + i) /\ n * i - w * b * s < w * (s + i)
<1> DEFINE p == t * i
           q == s * b
<1>1. p \in Int /\ q \in Int /\ p <= q /\ q < p + t
  OBVIOUS
<1>2. w * b * s = w * q
  OBVIOUS
<1>3. t <= s
  <2> SUFFICES ASSUME t >= s + 1 PROVE FALSE
    OBVIOUS
  <2>1. t * u <= t * i /\ s * b <= s * u
    BY Times
  <2>2. u * (s + 1) <= u * t
    BY Times
  <2>3. u * (s + 1) = s * u + u /\ u * t = t * u /\ s * u \in Int /\ t * u \in Int
    OBVIOUS
  <2> DEFINE x == s * u
             y == t * u
  <2>4. x + u <= y /\ y <= p /\ q <= x /\ x \in Int /\ y \in Int
    BY <2>1, <2>2, <2>3
  <2> HIDE DEF x, y, p, q
  <2> QED
    BY <1>1, <2>4
<1>4. (w * t) * i <= n * i /\ n * i < (w * t + w) * i
  <2>1. i \in Nat \ {0} /\ w * t \in Int /\ w * t + w \in Int
    OBVIOUS
  <2> DEFINE a == w * t
             c == w * t + w
  <2>2. a \in Int /\ c \in Int /\ a <= n /\ n < c
    BY <2>1
  <2> HIDE DEF a, c
  <2>3. i * a <= i * n /\ i * n < i * c
    BY <2>1, <2>2, Times, TimesStrict
  <2>4. i * a = a * i /\ i * n = n * i /\ i * c = c * i
    BY <2>1, <2>2
  <2> QED
    BY <2>3, <2>4 DEF a, c
<1>5. (w * t) * i = w * p /\ (w * t + w) * i = w * p + w * i
  OBVIOUS
<1>6. w * p <= w * q /\ w * q < w * (p + t) /\ w * t <= w * s
  <2> HIDE DEF p, q
  <2> QED
    BY <1>1, <1>3, Times, TimesStrict
<1>7. w * (p + t) = w * p + w * t /\ w * (s + i) = w * s + w * i
  <2> HIDE DEF p
  <2> QED
    BY <1>1
<1>8. w * p \in Int /\ w * q \in Int /\ w * t \in Int /\ w * i \in Int /\ w * s \in Int /\ n * i \in Int
      /\ w * i >= 0 /\ w * s >= 0
  <2> HIDE DEF p, q
  <2> QED
    BY <1>1
<1> DEFINE wp == w * p
           wq == w * q
           wt == w * t
           wi == w * i
           ws == w * s
           ni == n * i
<1>9. /\ wp <= ni /\ ni < wp + wi /\ wp <= wq /\ wq < wp + wt /\ wt <= ws
      /\ wp \in Int /\ wq \in Int /\ wt \in Int /\ wi \in Nat /\ ws \in Nat /\ ni \in Int
  BY <1>4, <1>5, <1>6, <1>7, <1>8
<1> HIDE DEF wp, wq, wt, wi, ws, ni
<1>10. wq - ni < ws + wi /\ ni - wq < ws + wi
  BY <1>9
<1> QED
  BY <1>2, <1>7, <1>10 DEF wp, wq, wi, ws, ni

\* The same at an interval of u, with k of them in a second.
LEMMA FastPace ==
  ASSUME NEW w \in Nat \ {0}, NEW t \in Nat \ {0}, NEW n \in Nat, NEW k \in Nat \ {0}, NEW b \in Nat,
         NEW u \in Nat \ {0},
         w * t <= n, n < w * t + w, k * b <= t, t < k * b + k
  PROVE  w * b * (u * k) - n * u < w * (u * k + u) /\ n * u - w * b * (u * k) < w * (u * k + u)
<1> DEFINE p == k * b
           x == w * p
           y == w * k
<1>1. p \in Int /\ p <= t /\ t + 1 <= p + k
  OBVIOUS
<1>2. w * p <= w * t /\ w * (t + 1) <= w * (p + k)
  <2> HIDE DEF p
  <2> QED
    BY <1>1, Times
<1>3. w * (t + 1) = w * t + w /\ w * (p + k) = x + y /\ x \in Int /\ y \in Nat
  <2>1. w * k \in Nat
    OBVIOUS
  <2> HIDE DEF p
  <2> QED
    BY <1>1, <2>1
<1> DEFINE wt == w * t
<1>4. wt \in Int /\ wt <= n /\ n < wt + w /\ x <= wt /\ wt + w <= x + y
  <2>1. w * t \in Int
    OBVIOUS
  <2> QED
    BY <1>2, <1>3, <2>1
<1>5. x <= n /\ n < x + y
  <2> HIDE DEF wt, x, y
  <2> QED
    BY <1>3, <1>4
<1>6. w * b * (u * k) = u * x /\ w * (u * k + u) = u * y + u * w /\ n * u = u * n
  OBVIOUS
<1> HIDE DEF x, y, wt, p
<1>7. u * x <= u * n /\ u * n < u * (x + y) /\ u * (x + y) = u * x + u * y
  BY <1>3, <1>5, Times, TimesStrict
<1>8. u * x \in Int /\ u * n \in Int /\ u * y \in Nat /\ u * w \in Nat /\ u * w >= u
  <2>1. u * y \in Nat /\ u * w \in Nat
    BY <1>3
  <2>2. w * u >= u
    BY AtLeast
  <2> QED
    BY <1>3, <2>1, <2>2
<1> DEFINE ux == u * x
           uy == u * y
           un == u * n
           uw == u * w
<1>9. /\ ux \in Int /\ un \in Int /\ uy \in Nat /\ uw \in Nat /\ uw >= 1
      /\ ux <= un /\ un < ux + uy
  BY <1>7, <1>8
<1> HIDE DEF ux, uy, un, uw
<1>10. ux - un < uy + uw /\ un - ux < uy + uw
  BY <1>9
<1> QED
  BY <1>6, <1>10 DEF ux, uy, un, uw

\* Slowly enough for a tick of at least a microsecond, or not; in the latter case
\* the microsecond holds at least one packet, so that the code's floor of one
\* packet is never needed.
LEMMA RateKept == RateAsAsked
<1> SUFFICES ASSUME NEW n \in 1 .. MaxPPS, NEW w \in 1 .. MaxWorkers, n >= w,
                    Feasible(Share(n, w))
             PROVE  Abs(w * Pacing(Share(n, w)).batch * Second - n * Pacing(Share(n, w)).interval)
                      < w * (Second + Pacing(Share(n, w)).interval)
  BY DEF RateAsAsked
<1> DEFINE t == Share(n, w)
           u == Microsecond
           k == Second \div Microsecond
           i == (Second * BatchSize) \div t
           p == t \div k
<1>1. /\ u \in Nat \ {0} /\ Second \in Nat \ {0} /\ BatchSize \in Nat \ {0} /\ BatchSize <= u
      /\ MaxBatch \in Nat /\ BatchSize <= MaxBatch /\ MaxPPS \in Nat /\ MaxWorkers \in Nat \ {0}
      /\ Second = u * k
  BY TrafficAssumption
<1>2. n \in Nat \ {0} /\ w \in Nat \ {0}
  BY <1>1
<1>3. t \in Nat \ {0} /\ w * t <= n /\ n < w * t + w
  <2>1. t = n \div w
    BY <1>2 DEF Share
  <2> DEFINE q == n \div w
  <2>2. q \in Nat /\ w * q <= n /\ n < w * q + w
    BY <1>2, Quotient
  <2> HIDE DEF q
  <2>3. q # 0
    BY <1>2, <2>2
  <2> QED
    BY <2>1, <2>2, <2>3 DEF q
<1>4. k \in Nat \ {0}
  <2>1. k \in Nat
    BY <1>1, Quotient
  <2> HIDE DEF k
  <2>2. k # 0
    BY <1>1
  <2> QED
    BY <2>1, <2>2
<1>5. i \in Nat /\ t * i <= Second * BatchSize /\ Second * BatchSize < t * i + t
  <2>1. Second * BatchSize \in Nat
    BY <1>1
  <2> HIDE DEF t
  <2> QED
    BY <1>3, <2>1, Quotient
<1>6. p \in Nat /\ k * p <= t /\ t < k * p + k
  <2> HIDE DEF t, k
  <2> QED
    BY <1>3, <1>4, Quotient
<1>7. Pacing(t) = IF i >= u THEN [batch |-> BatchSize, interval |-> i]
                  ELSE [batch |-> IF p < 1 THEN 1 ELSE IF p > MaxBatch THEN MaxBatch ELSE p,
                        interval |-> u]
  BY DEF Pacing
<1>8. t < (MaxBatch + 1) * k
  BY DEF Feasible
<1> SUFFICES Abs(w * Pacing(t).batch * Second - n * Pacing(t).interval) < w * (Second + Pacing(t).interval)
  OBVIOUS
<1> HIDE DEF t, k, u, i, p
<1>9. CASE i >= u
  <2>1. Pacing(t).batch = BatchSize /\ Pacing(t).interval = i
    BY <1>7, <1>9
  <2>2. /\ w * BatchSize * Second - n * i < w * (Second + i)
        /\ n * i - w * BatchSize * Second < w * (Second + i)
    BY <1>1, <1>2, <1>3, <1>5, <1>9, SlowPace
  <2> DEFINE a == w * BatchSize * Second
             b == n * i
             c == w * (Second + i)
  <2>3. a - b < c /\ b - a < c /\ a \in Int /\ b \in Int /\ c \in Int
    BY <1>1, <1>2, <1>5, <2>2
  <2> HIDE DEF a, b, c
  <2>4. Abs(a - b) < c
    BY <2>3 DEF Abs
  <2> QED
    BY <2>1, <2>4 DEF a, b, c
<1>10. CASE i < u
  <2>1. p >= 1
    <3> SUFFICES ASSUME p = 0 PROVE FALSE
      BY <1>6
    <3>1. t < k
      BY <1>3, <1>4, <1>6
    <3>2. t * (i + 1) <= t * u /\ u * t < u * k
      BY <1>1, <1>3, <1>4, <1>5, <1>10, <3>1, Times, TimesStrict
    <3>3. t * (i + 1) = t * i + t /\ t * u = u * t /\ t * i \in Int /\ u * k \in Int
      BY <1>1, <1>3, <1>4, <1>5
    <3>4. Second * 1 <= Second * BatchSize
      BY <1>1, Times
    <3> DEFINE a == t * i
               b == t * u
               d == Second * BatchSize
    <3>5. d < a + t /\ a + t <= b /\ b < Second /\ Second <= d
      BY <1>1, <1>5, <3>2, <3>3, <3>4
    <3>6. a \in Int /\ b \in Int /\ d \in Int /\ Second \in Int
      BY <1>1, <1>3, <1>5
    <3> HIDE DEF a, b, d
    <3> QED
      BY <1>3, <3>5, <3>6
  <2>2. p <= MaxBatch
    <3> SUFFICES ASSUME p >= MaxBatch + 1 PROVE FALSE
      BY <1>1, <1>6
    <3>1. k * (MaxBatch + 1) <= k * p
      BY <1>1, <1>4, <1>6, Times
    <3>2. k * (MaxBatch + 1) = (MaxBatch + 1) * k /\ k * p \in Int
      BY <1>1, <1>4, <1>6
    <3> DEFINE a == k * p
               b == (MaxBatch + 1) * k
    <3>3. b <= a /\ a <= t /\ t < b
      BY <1>6, <1>8, <3>1, <3>2
    <3>4. a \in Int /\ b \in Int
      BY <1>1, <1>4, <1>6
    <3> HIDE DEF a, b
    <3> QED
      BY <1>3, <3>3, <3>4
  <2>3. Pacing(t).batch = p /\ Pacing(t).interval = u
    BY <1>1, <1>6, <1>7, <1>10, <2>1, <2>2, <1>5
  <2>4. /\ w * p * (u * k) - n * u < w * (u * k + u)
        /\ n * u - w * p * (u * k) < w * (u * k + u)
    BY <1>1, <1>2, <1>3, <1>4, <1>6, FastPace
  <2> DEFINE a == w * p * (u * k)
             b == n * u
             c == w * (u * k + u)
  <2>5. a - b < c /\ b - a < c /\ a \in Int /\ b \in Int /\ c \in Int
    BY <1>1, <1>2, <1>4, <1>6, <2>4
  <2>6. a = w * p * Second /\ c = w * (Second + u)
    BY <1>1
  <2> HIDE DEF a, b, c
  <2>7. Abs(a - b) < c
    BY <2>5 DEF Abs
  <2> QED
    BY <2>3, <2>6, <2>7 DEF b
<1> QED
  BY <1>1, <1>5, <1>9, <1>10

\* Whatever --pps, --workers and the literals of the pacing are, what the workers
\* send in one tick is what was asked for in that time, up to one packet for each
\* worker and what truncating the share loses.
THEOREM RatesKept == Spec => []RateAsAsked
<1>1. Init => RateAsAsked
  BY RateKept
<1>2. RateAsAsked /\ [Next]_vars => RateAsAsked'
  BY RateKept DEF RateAsAsked
<1> QED
  BY <1>1, <1>2, PTL DEF Spec

================================================================================
