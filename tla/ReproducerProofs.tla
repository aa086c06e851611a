----------------------------- MODULE ReproducerProofs -----------------------------
(***************************************************************************)
(* Theorems about Reproducer, for any number of sockets and any sets of    *)
(* metrics, whatever the children, the cluster and the signals do.         *)
(*                                                                         *)
(* The invariant follows main: nothing is started before "create"          *)
(* (Before), cleanupCaptures has signalled the captures it has passed      *)
(* (Cleaned), there is a point for the tenth capture from the moment its   *)
(* Collect returns (Sampled), and the last point counts a socket if any    *)
(* capture was started, so that SaveCharts does not panic (Counted).       *)
(***************************************************************************)
EXTENDS Reproducer, FiniteSetTheorems, TLAPS

Collecting == {"count", "cpu", "memory", "network", "softirq", "append"}

\* The processes are those of the captures; there is none before "create".
Before ==
  /\ \A c \in Ids : tcpdump[c] # "none" <=> c \in captures
  /\ main \in {"discover", "forward", "test", "fatal"} => captures = {}

\* How far cleanupCaptures got.
Cleaned ==
  /\ main = "term" => \A c \in Ids : c < next => tcpdump[c] # "running"
  /\ main = "kill" => \A c \in Ids : /\ tcpdump[c] # "running"
                                     /\ c < next => tcpdump[c] # "termed"
  /\ main \in {"close", "returned"} => \A c \in Ids : tcpdump[c] \notin {"running", "termed"}

\* The tenth capture was created.
Tenth == \E c \in captures : c % CollectEvery = 0

Sampled ==
  Tenth =>
    /\ main \in {"create", "monitor"} => points >= 1
    /\ main \in Collecting /\ after # "create" => points >= 1
    /\ main \in {"term", "kill"} => points = 2
    /\ main \in {"close", "returned"} => tried = Charts

\* A point counts a socket from then on that a capture was started.
Counted ==
  /\ captures # {} => /\ main \in Collecting \ {"count"} => point.active > 0
                      /\ main \in {"term", "kill"} => seen
  /\ main \notin Ends \cup {"close"} => tried = 0
  /\ tried = CombinedChart => captures = {}
  /\ point.memory \in 0 .. 100

IInv == TypeOK /\ Before /\ Cleaned /\ Sampled /\ Counted

LEMMA Constants ==
  /\ MaxSockets \in Nat /\ \A n \in SocketCounts : n \in Int /\ n <= MaxSockets
  /\ CollectEvery \in Nat \ {0} /\ MemTotal \in Nat \ {0}
  BY ReproducerAssumption

\* The captures are finitely many, at most as many as there are ids.
LEMMA CaptureCount ==
  ASSUME NEW S, S \subseteq Ids
  PROVE  IsFiniteSet(S) /\ Cardinality(S) \in 0 .. MaxSockets
<1>1. IsFiniteSet(Ids) /\ Cardinality(Ids) = MaxSockets
  BY Constants, FS_Interval DEF Ids
<1>2. IsFiniteSet(S) /\ Cardinality(S) <= Cardinality(Ids)
  BY <1>1, FS_Subset
<1> QED
  BY <1>1, <1>2, FS_CardinalityType, Constants

\* Whichever of the two answers is missing, the usage is a percentage.
LEMMA MemoryUsageIsPercent ==
  ASSUME NEW total \in {0, MemTotal}, NEW available \in 0 .. MemTotal
  PROVE  MemoryUsage(total, available) \in 0 .. 100
<1>1. CASE total = 0
  BY <1>1 DEF MemoryUsage
<1>2. CASE total = MemTotal /\ total # 0
  <2> DEFINE used == 100 * (MemTotal - available)
  <2>1. MemTotal \in Nat /\ MemTotal > 0 /\ available \in Nat /\ available <= MemTotal
    BY Constants
  <2>2. used \in Nat /\ used <= 100 * MemTotal
    BY <2>1
  <2>3. MemoryUsage(total, available) = used \div MemTotal
    BY <1>2 DEF MemoryUsage
  <2> HIDE DEF used
  <2>4. used \div MemTotal \in Int /\ used \div MemTotal >= 0 /\ used \div MemTotal <= 100
    BY <2>1, <2>2
  <2> QED
    BY <2>3, <2>4
<1> QED
  BY <1>1, <1>2

--------------------------------------------------------------------------------
LEMMA InitInv == Init => IInv
<1> SUFFICES ASSUME Init PROVE IInv
  OBVIOUS
<1> USE Constants DEF Init
<1>1. TypeOK
  <2>1. point \in [active : 0 .. MaxSockets, got : SUBSET Metrics, memory : Int]
    BY DEF NoPoint
  <2>2. next \in 1 .. MaxSockets + 1 /\ points \in 0 .. EnoughPoints
    BY DEF EnoughPoints
  <2>3. captures \subseteq Ids
        /\ tcpdump \in [Ids -> {"none", "running", "termed", "ended", "cut"}]
    OBVIOUS
  <2>4. seen \in BOOLEAN
    OBVIOUS
  <2>5. tried \in 0 .. Charts
    BY DEF Charts
  <2> QED
    BY <2>1, <2>2, <2>3, <2>4, <2>5 DEF TypeOK
<1>2. Counted
  BY DEF Counted, NoPoint, CombinedChart, Ends
<1> QED
  BY <1>1, <1>2 DEF IInv, Before, Cleaned, Sampled, Tenth, Collecting

LEMMA TypeStep == TypeOK /\ [Next]_vars => TypeOK'
<1> SUFFICES ASSUME TypeOK, [Next]_vars PROVE TypeOK'
  OBVIOUS
<1> USE Constants DEF TypeOK, Ends, EnoughPoints, Charts
<1>1. CASE Discover
  BY <1>1 DEF Discover, Goto, flags, channels, children, metrics
<1>2. CASE SetupPortForward
  BY <1>2 DEF SetupPortForward, Goto, flags, channels, children, metrics
<1>3. CASE TestConnection
  BY <1>3 DEF TestConnection, Panic, Goto, flags, channels, children, metrics
<1>4. CASE Create
  <2>1. next \in Ids /\ next + 1 \in 1 .. MaxSockets + 1
    BY <1>4 DEF Create, Ids
  <2>2. main' \in {"create", "count"}
    BY <1>4 DEF Create, Goto
  <2>3. /\ captures' \subseteq Ids
        /\ tcpdump' \in [Ids -> {"none", "running", "termed", "ended", "cut"}]
    BY <1>4, <2>1 DEF Create, children
  <2> QED
    BY <1>4, <2>1, <2>2, <2>3 DEF Create, flags, channels, metrics
<1>5. CASE StartMonitoring
  BY <1>5 DEF StartMonitoring, Panic, Goto, flags, channels, children, metrics
<1>6. CASE SeeSignal \/ SeeTick \/ SeeDuration
  BY <1>6 DEF SeeSignal, SeeTick, SeeDuration, Goto, flags, children, metrics
<1>7. CASE Count
  <2>1. Cardinality({c \in captures : Exists(c)}) \in 0 .. MaxSockets
    <3>1. {c \in captures : Exists(c)} \subseteq Ids
      OBVIOUS
    <3> QED
      BY <3>1, CaptureCount
  <2>2. point' \in [active : 0 .. MaxSockets, got : SUBSET Metrics, memory : Int]
    <3>1. point' = [active |-> Cardinality({c \in captures : Exists(c)}),
                    got |-> {}, memory |-> 0]
      BY <1>7 DEF Count, NoPoint
    <3> QED
      BY <2>1, <3>1
  <2> QED
    BY <1>7, <2>2 DEF Count, Goto, flags, channels, children
<1>8. ASSUME NEW set \in SUBSET Metrics, Query(set) PROVE
        /\ point' \in [active : 0 .. MaxSockets, got : SUBSET Metrics, memory : Int]
        /\ answered' \subseteq Metrics
        /\ UNCHANGED <<flags, nodes, next, after, forward, channels, children, points, seen, tried>>
  <2> PICK have \in Answers(set) :
         /\ answered' = answered \cup have
         /\ point' = [point EXCEPT !.got = @ \cup {q \in have : WellFormed(q)}]
    BY <1>8 DEF Query
  <2>1. have \subseteq Metrics
    BY DEF Answers
  <2> QED
    BY <2>1, <1>8 DEF Query
<1>9. CASE GetCPUMetrics \/ GetNetworkStats \/ GetSoftIRQStats
  <2>1. CPUMetrics \subseteq Metrics /\ NetworkMetrics \subseteq Metrics
        /\ SoftIRQMetrics \subseteq Metrics
    BY DEF Metrics
  <2>2. \E set \in SUBSET Metrics : Query(set)
    BY <1>9, <2>1 DEF GetCPUMetrics, GetNetworkStats, GetSoftIRQStats
  <2>3. main' \in {"memory", "softirq", "append"}
    BY <1>9 DEF GetCPUMetrics, GetNetworkStats, GetSoftIRQStats, Goto
  <2> QED
    BY <1>8, <2>2, <2>3 DEF flags, channels, children
<1>10. CASE GetMemoryUsage
  <2>1. PICK have \in Answers({"total", "available"}), free \in 0 .. MemTotal :
          point' = [point EXCEPT !.memory =
                      MemoryUsage(IF "total" \in have THEN MemTotal ELSE 0,
                                  IF "available" \in have THEN free ELSE 0)]
    BY <1>10 DEF GetMemoryUsage
  <2>2. MemoryUsage(IF "total" \in have THEN MemTotal ELSE 0,
                    IF "available" \in have THEN free ELSE 0) \in Int
    BY MemoryUsageIsPercent
  <2> QED
    BY <2>1, <2>2, <1>10 DEF GetMemoryUsage, Goto, flags, channels, children
<1>11. CASE Append
  BY <1>11 DEF Append, flags, channels, children
<1>12. CASE Terminate \/ Kill
  BY <1>12 DEF Terminate, Kill, flags, channels, metrics
<1>13. CASE Sleep
  BY <1>13 DEF Sleep, Goto, flags, channels, children, metrics
<1>14. CASE SaveCharts
  BY <1>14 DEF SaveCharts, Panic, Goto, CombinedChart, flags, channels, children, metrics
<1>15. CASE Close
  BY <1>15 DEF Close, Goto, flags, channels, children, metrics
<1>16. CASE Signal
  <2>1. main' \in {main, "killed"} /\ signalled' \in {signalled, TRUE}
        /\ UNCHANGED <<ticked, elapsed>>
    BY <1>16 DEF Signal, channels
  <2>2. UNCHANGED <<flags, nodes, next, after, forward, children, metrics, tried>>
    BY <1>16 DEF Signal
  <2>3. main' \in Ends \cup
          {"discover", "forward", "test", "create", "monitor", "count", "cpu", "memory",
           "network", "softirq", "append", "term", "kill", "close"}
        /\ signalled' \in BOOLEAN /\ ticked' \in BOOLEAN /\ elapsed' \in BOOLEAN
    BY <2>1
  <2> QED
    BY <2>2, <2>3 DEF flags, children, metrics
<1>17. CASE Crash
  BY <1>17 DEF Crash, flags, channels, children, metrics
<1>18. CASE Tick
  BY <1>18 DEF Tick, flags, children, metrics
<1>19. CASE Elapse
  BY <1>19 DEF Elapse, flags, children, metrics
<1>20. CASE LoseForward
  BY <1>20 DEF LoseForward, flags, channels, children, metrics
<1>21. ASSUME NEW c \in Ids, TcpdumpEnds(c) PROVE TypeOK'
  BY <1>21 DEF TcpdumpEnds, flags, channels, metrics
<1>22. CASE UNCHANGED vars
  BY <1>22 DEF vars, flags, channels, children, metrics
<1> QED
  BY <1>1, <1>2, <1>3, <1>4, <1>5, <1>6, <1>7, <1>9, <1>10, <1>11, <1>12, <1>13, <1>14,
     <1>15, <1>16, <1>17, <1>18, <1>19, <1>20, <1>21, <1>22 DEF Next, Main, Collect

--------------------------------------------------------------------------------
(* One group of conjuncts at a time.                                       *)

\* Nothing is started early, and a signalled process stays that of its capture.
LEMMA BeforeStep == IInv /\ [Next]_vars => Before'
<1> SUFFICES ASSUME IInv, [Next]_vars PROVE Before'
  OBVIOUS
<1> USE DEF IInv, Before, TypeOK
<1>1. CASE Create
  <2>1. next \in Ids
    BY <1>1, Constants DEF Create, Ids
  <2>2. main' \in {"create", "count"}
    BY <1>1 DEF Create, Goto
  <2>3. \/ captures' = captures \cup {next} /\ tcpdump' = [tcpdump EXCEPT ![next] = "running"]
        \/ captures' = captures /\ tcpdump' = tcpdump
    BY <1>1 DEF Create, children
  <2> QED
    BY <2>1, <2>2, <2>3
<1>2. ASSUME UNCHANGED captures,
             \A c \in Ids : tcpdump'[c] # "none" <=> tcpdump[c] # "none",
             main' = main \/ main' \notin {"discover", "forward", "test", "fatal"}
                \/ main \in {"discover", "forward", "test"}
      PROVE  Before'
  BY <1>2
<1>3. CASE Terminate \/ Kill
  <2>1. \A c \in Ids : tcpdump'[c] # "none" <=> tcpdump[c] # "none"
    BY <1>3 DEF Terminate, Kill
  <2> QED
    BY <1>2, <1>3, <2>1 DEF Terminate, Kill
<1>4. ASSUME NEW d \in Ids, TcpdumpEnds(d) PROVE Before'
  <2>1. \A c \in Ids : tcpdump'[c] # "none" <=> tcpdump[c] # "none"
    BY <1>4 DEF TcpdumpEnds
  <2> QED
    BY <1>2, <1>4, <2>1 DEF TcpdumpEnds
<1>5. CASE Discover \/ SetupPortForward \/ TestConnection
  BY <1>2, <1>5 DEF Discover, SetupPortForward, TestConnection, Panic, Goto, children
<1>6. CASE SeeSignal \/ SeeTick \/ SeeDuration \/ StartMonitoring
  BY <1>2, <1>6 DEF SeeSignal, SeeTick, SeeDuration, StartMonitoring, Panic, Goto, children
<1>7. CASE Collect
  <2>1. UNCHANGED children /\ main' \notin {"discover", "forward", "test", "fatal"}
    BY <1>7 DEF Collect, Count, GetCPUMetrics, GetMemoryUsage, GetNetworkStats,
                GetSoftIRQStats, Query, Append, Goto
  <2> QED
    BY <1>2, <2>1 DEF children
<1>8. CASE Sleep \/ SaveCharts \/ Close
  BY <1>2, <1>8 DEF Sleep, SaveCharts, Close, Panic, Goto, children
<1>9. CASE Signal \/ Crash
  <2>1. UNCHANGED children /\ (main' = main \/ main' = "killed")
    BY <1>9 DEF Signal, Crash
  <2> QED
    BY <1>2, <2>1 DEF children
<1>10. CASE Tick \/ Elapse \/ LoseForward
  BY <1>2, <1>10 DEF Tick, Elapse, LoseForward, children
<1>11. CASE UNCHANGED vars
  BY <1>2, <1>11 DEF vars, children
<1> QED
  BY <1>1, <1>3, <1>4, <1>5, <1>6, <1>7, <1>8, <1>9, <1>10, <1>11 DEF Next, Main

\* cleanupCaptures reaches every capture, and no process starts again.
LEMMA CleanedStep == IInv /\ [Next]_vars => Cleaned'
<1> SUFFICES ASSUME IInv, [Next]_vars PROVE Cleaned'
  OBVIOUS
<1> USE DEF IInv, Cleaned, TypeOK
<1>i. \A c \in Ids : c \in Int /\ c <= MaxSockets
  BY Constants DEF Ids
<1>1. CASE Terminate
  <2>1. next \in Int /\ next' = next + 1 /\ main' = "term"
    BY <1>1 DEF Terminate
  <2>2. ASSUME NEW c \in Ids, c < next' PROVE tcpdump'[c] # "running"
    <3>1. CASE c = next
      BY <1>1, <3>1 DEF Terminate, Before
    <3>2. CASE c < next
      BY <1>1, <3>2 DEF Terminate
    <3> QED
      BY <2>1, <2>2, <3>1, <3>2, <1>i
  <2> QED
    BY <2>1, <2>2
<1>2. CASE Kill
  <2>1. next \in Int /\ next' = next + 1 /\ main = "kill" /\ main' = "kill"
    BY <1>2 DEF Kill
  <2>2. ASSUME NEW c \in Ids PROVE tcpdump'[c] # "running"
    BY <1>2, <2>1 DEF Kill
  <2>3. ASSUME NEW c \in Ids, c < next' PROVE tcpdump'[c] # "termed"
    <3>1. CASE c = next
      BY <1>2, <3>1 DEF Kill, Before
    <3>2. CASE c < next
      BY <1>2, <2>1, <3>2 DEF Kill
    <3> QED
      BY <2>1, <2>3, <3>1, <3>2, <1>i
  <2> QED
    BY <2>1, <2>2, <2>3
<1>3. CASE Sleep
  <2>1. main = "term" /\ main' = "kill" /\ next > MaxSockets /\ next' = 1
        /\ tcpdump' = tcpdump
    BY <1>3 DEF Sleep, Goto, children
  <2>2. ASSUME NEW c \in Ids PROVE c < next /\ ~(c < 1)
    BY <2>1, Constants DEF Ids
  <2> QED
    BY <2>1, <2>2
<1>4. CASE SaveCharts
  <2>1. main = "kill" /\ main' \in {"close", "panicked"} /\ next > MaxSockets /\ tcpdump' = tcpdump
    BY <1>4 DEF SaveCharts, Panic, Goto, children
  <2>2. ASSUME NEW c \in Ids PROVE c < next
    BY <2>1, Constants DEF Ids
  <2> QED
    BY <2>1, <2>2
<1>5. CASE Close
  BY <1>5 DEF Close, Goto, children
<1>6. CASE Append
  <2>1. ASSUME main' = "term" PROVE \A c \in Ids : ~(c < next')
    BY <1>6, <2>1, <1>i DEF Append, Ids
  <2>2. main' \notin {"kill", "close", "returned"}
    BY <1>6 DEF Append
  <2> QED
    BY <2>1, <2>2
<1>7. ASSUME main' \notin {"term", "kill", "close", "returned"} PROVE Cleaned'
  BY <1>7
<1>8. CASE Discover \/ SetupPortForward \/ TestConnection \/ Create \/ StartMonitoring
  BY <1>7, <1>8
  DEF Discover, SetupPortForward, TestConnection, Create, StartMonitoring, Panic, Goto
<1>9. CASE SeeSignal \/ SeeTick \/ SeeDuration
  BY <1>7, <1>9 DEF SeeSignal, SeeTick, SeeDuration, Goto
<1>10. CASE Count \/ GetCPUMetrics \/ GetMemoryUsage \/ GetNetworkStats \/ GetSoftIRQStats
  BY <1>7, <1>10
  DEF Count, GetCPUMetrics, GetMemoryUsage, GetNetworkStats, GetSoftIRQStats, Goto
<1>11. ASSUME NEW d \in Ids, TcpdumpEnds(d) PROVE Cleaned'
  <2>1. \A c \in Ids : tcpdump'[c] = tcpdump[c] \/ tcpdump'[c] = "ended"
    BY <1>11 DEF TcpdumpEnds
  <2>2. main' = main /\ next' = next
    BY <1>11 DEF TcpdumpEnds
  <2> QED
    BY <2>1, <2>2
<1>12. CASE Signal \/ Crash
  <2>1. UNCHANGED <<next, children>> /\ (main' = main \/ main' = "killed")
    BY <1>12 DEF Signal, Crash
  <2> QED
    BY <2>1 DEF children
<1>13. CASE Tick \/ Elapse \/ LoseForward \/ UNCHANGED vars
  <2>1. UNCHANGED <<main, next, children>>
    BY <1>13 DEF Tick, Elapse, LoseForward, vars
  <2> QED
    BY <2>1 DEF children
<1> QED
  BY <1>1, <1>2, <1>3, <1>4, <1>5, <1>6, <1>8, <1>9, <1>10, <1>11, <1>12, <1>13
  DEF Next, Main, Collect

\* The Collect after the tenth capture has returned before main goes on.
LEMMA SampledStep == IInv /\ [Next]_vars => Sampled'
<1> SUFFICES ASSUME IInv, [Next]_vars PROVE Sampled'
  OBVIOUS
<1> USE DEF IInv, TypeOK, EnoughPoints
<1>1. CASE Create
  <2>1. main = "create" /\ main' \in {"create", "count"} /\ after' = "create" /\ points' = points
    BY <1>1 DEF Create, Goto, metrics
  <2>2. CASE main' = "count"
    BY <2>1, <2>2 DEF Sampled, Collecting
  <2>3. CASE main' = "create"
    <3>1. Tenth' => Tenth
      BY <1>1, <2>1, <2>3 DEF Create, Goto, children, Tenth
    <3> QED
      BY <2>1, <2>3, <3>1 DEF Sampled, Collecting
  <2> QED
    BY <2>1, <2>2, <2>3
<1>t. UNCHANGED captures => (Tenth' <=> Tenth)
  BY DEF Tenth
<1>2. CASE StartMonitoring \/ SeeSignal \/ SeeTick \/ SeeDuration
  <2>1. UNCHANGED <<captures, points>> /\ main \in {"create", "monitor"}
        /\ main' \in {"panicked", "monitor", "count"}
    BY <1>2 DEF StartMonitoring, SeeSignal, SeeTick, SeeDuration, Panic, Goto, children, metrics
  <2> QED
    BY <1>t, <2>1 DEF Sampled, Collecting
<1>3. CASE Count \/ GetCPUMetrics \/ GetMemoryUsage \/ GetNetworkStats \/ GetSoftIRQStats
  <2>1. UNCHANGED <<captures, points, after>> /\ main \in Collecting /\ main' \in Collecting
        /\ main' \notin {"create", "monitor", "term", "kill", "close", "returned"}
    BY <1>3 DEF Count, GetCPUMetrics, GetMemoryUsage, GetNetworkStats, GetSoftIRQStats,
                Query, Goto, children, Collecting
  <2> QED
    BY <1>t, <2>1 DEF Sampled
<1>4. CASE Append
  <2>1. /\ UNCHANGED <<captures, after>> /\ main = "append"
        /\ main' = IF after = "stop" THEN "term" ELSE after
        /\ points' = IF points < 2 THEN points + 1 ELSE points
    BY <1>4 DEF Append, children
  <2>2. points' >= 1 /\ (points >= 1 => points' = 2)
    BY <2>1
  <2>3. main' \notin Collecting \cup {"kill", "close", "returned"}
    BY <2>1 DEF Collecting
  <2>4. main' = "term" => after # "create"
    BY <2>1
  <2> QED
    BY <1>t, <2>1, <2>2, <2>3, <2>4 DEF Sampled, Collecting
<1>5. CASE Terminate \/ Kill \/ Sleep
  <2>1. UNCHANGED <<captures, points>> /\ main \in {"term", "kill"} /\ main' \in {"term", "kill"}
    BY <1>5 DEF Terminate, Kill, Sleep, Goto, children, metrics
  <2> QED
    BY <1>t, <2>1 DEF Sampled, Collecting
<1>6. CASE SaveCharts
  <2>1. UNCHANGED captures /\ main = "kill" /\ main' \in {"close", "panicked"}
        /\ (points >= 2 /\ main' = "close" => tried' = Charts)
    BY <1>6 DEF SaveCharts, Panic, Goto, children
  <2>2. Tenth => points = 2
    BY <2>1 DEF Sampled
  <2> QED
    BY <1>t, <2>1, <2>2 DEF Sampled, Collecting
<1>7. CASE Close
  <2>1. UNCHANGED <<captures, tried>> /\ main = "close" /\ main' = "returned"
    BY <1>7 DEF Close, Goto, children
  <2> QED
    BY <1>t, <2>1 DEF Sampled, Collecting
<1>8. ASSUME UNCHANGED <<captures, points, tried>>, main' = main, after' = after
      PROVE  Sampled'
  BY <1>t, <1>8 DEF Sampled
<1>9. ASSUME UNCHANGED <<captures, points>>, main' \in {"killed", "fatal", "panicked", "forward", "test"}
      PROVE  Sampled'
  BY <1>9 DEF Sampled, Collecting
<1>10. CASE Discover \/ SetupPortForward \/ TestConnection
  <2>1. UNCHANGED <<captures, points>>
        /\ main' \in {"forward", "test", "create", "fatal", "panicked"} /\ captures = {}
    BY <1>10 DEF Discover, SetupPortForward, TestConnection, Panic, Goto, children, metrics, Before
  <2> QED
    BY <2>1 DEF Sampled, Tenth
<1>11. CASE Signal \/ Crash
  <2>1. UNCHANGED <<captures, points, tried, after>> /\ (main' = main \/ main' = "killed")
    BY <1>11 DEF Signal, Crash, children, metrics
  <2> QED
    BY <1>8, <1>9, <2>1
<1>12. CASE Tick \/ Elapse \/ LoseForward \/ UNCHANGED vars
  BY <1>8, <1>12 DEF Tick, Elapse, LoseForward, vars, children, metrics
<1>13. ASSUME NEW d \in Ids, TcpdumpEnds(d) PROVE Sampled'
  BY <1>8, <1>13 DEF TcpdumpEnds, metrics
<1> QED
  BY <1>1, <1>2, <1>3, <1>4, <1>5, <1>6, <1>7, <1>10, <1>11, <1>12, <1>13
  DEF Next, Main, Collect

\* A capture that was started answers the signal, even if it has ended: the sample
\* of the end counts it.
LEMMA CountedStep == IInv /\ [Next]_vars => Counted'
<1> SUFFICES ASSUME IInv, [Next]_vars PROVE Counted'
  OBVIOUS
<1> USE DEF IInv, TypeOK, Counted, Collecting, Ends
<1>1. CASE Count
  <2>1. {c \in captures : Exists(c)} = captures
    BY DEF Before, Exists
  <2>2. /\ point' = [active |-> Cardinality(captures), got |-> {}, memory |-> 0]
        /\ UNCHANGED <<captures, tried>> /\ main = "count" /\ main' = "cpu"
    BY <1>1, <2>1 DEF Count, Goto, NoPoint, children
  <2>3. captures # {} => Cardinality(captures) > 0
    BY CaptureCount, FS_EmptySet
  <2> QED
    BY <2>2, <2>3
<1>2. CASE GetMemoryUsage
  <2>1. PICK have \in Answers({"total", "available"}), free \in 0 .. MemTotal :
          point' = [point EXCEPT !.memory =
                      MemoryUsage(IF "total" \in have THEN MemTotal ELSE 0,
                                  IF "available" \in have THEN free ELSE 0)]
    BY <1>2 DEF GetMemoryUsage
  <2>2. MemoryUsage(IF "total" \in have THEN MemTotal ELSE 0,
                    IF "available" \in have THEN free ELSE 0) \in 0 .. 100
    BY MemoryUsageIsPercent, Constants
  <2>3. UNCHANGED <<captures, tried>> /\ main = "memory" /\ main' = "network"
    BY <1>2 DEF GetMemoryUsage, Goto, children
  <2>4. point'.active = point.active /\ point'.memory \in 0 .. 100
    BY <2>1, <2>2
  <2> QED
    BY <2>3, <2>4
<1>3. CASE GetCPUMetrics \/ GetNetworkStats \/ GetSoftIRQStats
  <2>1. PICK set : Query(set)
    BY <1>3 DEF GetCPUMetrics, GetNetworkStats, GetSoftIRQStats
  <2>2. PICK have : point' = [point EXCEPT !.got = @ \cup {q \in have : WellFormed(q)}]
    BY <2>1 DEF Query
  <2>3. /\ UNCHANGED <<captures, tried>> /\ main \in {"cpu", "network", "softirq"}
        /\ main' \in {"memory", "softirq", "append"}
    BY <1>3, <2>1 DEF GetCPUMetrics, GetNetworkStats, GetSoftIRQStats, Goto, Query, children
  <2>4. point'.active = point.active /\ point'.memory = point.memory
    BY <2>2
  <2> QED
    BY <2>3, <2>4
<1>4. CASE Create
  <2>1. UNCHANGED <<point, tried>> /\ main = "create" /\ main' \in {"create", "count"}
    BY <1>4 DEF Create, Goto, metrics
  <2> QED
    BY <2>1 DEF CombinedChart
<1>5. CASE Append
  <2>1. /\ UNCHANGED <<captures, point, tried>> /\ main = "append"
        /\ main' \in {"term", "create", "monitor"} /\ seen' = (seen \/ point.active > 0)
    BY <1>5 DEF Append, children
  <2> QED
    BY <2>1
<1>6. CASE SaveCharts
  <2>1. UNCHANGED <<captures, point>> /\ main = "kill" /\ main' \in {"close", "panicked"}
    BY <1>6 DEF SaveCharts, Panic, Goto, children, metrics
  <2>2. tried' = CombinedChart => captures = {}
    BY <1>6, <2>1 DEF SaveCharts, Charts, CombinedChart
  <2> QED
    BY <2>1, <2>2
<1>7. CASE Terminate \/ Sleep \/ Kill
  <2>1. UNCHANGED <<captures, point, seen, tried>> /\ main \in {"term", "kill"}
        /\ main' \in {"term", "kill"}
    BY <1>7 DEF Terminate, Sleep, Kill, Goto, children, metrics
  <2> QED
    BY <2>1
<1>8. ASSUME UNCHANGED <<captures, point, seen, tried>>,
             \/ main' = main \/ main' \in Ends \cup {"close"}
             \/ /\ main' \in {"forward", "test", "create", "monitor", "count"}
                /\ main \notin Ends \cup {"close"}
      PROVE  Counted'
  BY <1>8
<1>9. CASE Discover \/ SetupPortForward \/ TestConnection \/ StartMonitoring
  BY <1>8, <1>9 DEF Discover, SetupPortForward, TestConnection, StartMonitoring, Panic, Goto,
                    children, metrics
<1>10. CASE SeeSignal \/ SeeTick \/ SeeDuration \/ Close
  BY <1>8, <1>10 DEF SeeSignal, SeeTick, SeeDuration, Close, Goto, children, metrics
<1>11. CASE Signal \/ Crash
  <2>1. UNCHANGED <<captures, point, seen, tried>> /\ main' \in {main, "killed"}
    BY <1>11 DEF Signal, Crash, children, metrics
  <2> QED
    BY <1>8, <2>1
<1>12. CASE Tick \/ Elapse \/ LoseForward \/ UNCHANGED vars
  BY <1>8, <1>12 DEF Tick, Elapse, LoseForward, vars, children, metrics
<1>13. ASSUME NEW d \in Ids, TcpdumpEnds(d) PROVE Counted'
  BY <1>8, <1>13 DEF TcpdumpEnds, metrics
<1> QED
  BY <1>1, <1>2, <1>3, <1>4, <1>5, <1>6, <1>7, <1>9, <1>10, <1>11, <1>12, <1>13
  DEF Next, Main, Collect

--------------------------------------------------------------------------------
LEMMA Invariance == Spec => []IInv
<1>1. IInv /\ [Next]_vars => IInv'
  BY TypeStep, BeforeStep, CleanedStep, SampledStep, CountedStep DEF IInv
<1> QED
  BY InitInv, <1>1, PTL DEF Spec

\* The variables keep to their types.
THEOREM ReproducerTypes == Spec => []TypeOK
  BY Invariance, PTL DEF IInv

\* No capture is left running by a main that returns or gives up, however many
\* there are and whatever they do with the SIGTERM.
THEOREM NoCaptureIsLeft == Spec => []NoCaptureLeft
<1>1. IInv => NoCaptureLeft
  <2> SUFFICES ASSUME IInv, main \in {"returned", "fatal"}, NEW c \in Ids
               PROVE  tcpdump[c] \notin {"running", "termed"}
    BY DEF NoCaptureLeft
  <2>1. CASE main = "returned"
    BY <2>1 DEF IInv, Cleaned
  <2>2. CASE main = "fatal"
    BY <2>2 DEF IInv, Before
  <2> QED
    BY <2>1, <2>2
<1> QED
  BY <1>1, Invariance, PTL

\* The memory usage is a percentage.
THEOREM MemoryStaysPercent == Spec => []MemoryIsPercent
<1>1. IInv => MemoryIsPercent
  BY DEF IInv, Counted, MemoryIsPercent
<1> QED
  BY <1>1, Invariance, PTL

\* A run that created its tenth capture begins all nine charts, and no run that
\* started a capture panics among them: a capture that has ended is still counted.
THEOREM ChartsAreTried == Spec => []ChartsAfterTen
<1>1. IInv => ChartsAfterTen
  BY DEF IInv, Sampled, Counted, Tenth, ChartsAfterTen
<1> QED
  BY <1>1, Invariance, PTL

\* SIGKILL cuts off only a capture that was sent SIGTERM before.
THEOREM CutsAreLate == Spec => CutOnlyIfStubborn
<1>1. ASSUME IInv, Next, NEW c \in Ids, tcpdump'[c] = "cut", tcpdump[c] # "cut"
      PROVE  tcpdump[c] = "termed"
  <2> USE DEF IInv, TypeOK
  <2>1. CASE Kill
    <3>1. main = "kill"
      BY <2>1 DEF Kill
    <3>2. tcpdump[c] # "running"
      BY <1>1, <3>1 DEF Cleaned
    <3> QED
      BY <1>1, <2>1, <3>2 DEF Kill
  <2>2. CASE Terminate
    BY <1>1, <2>2 DEF Terminate
  <2>3. CASE Create
    BY <1>1, <2>3 DEF Create, children
  <2>4. ASSUME NEW d \in Ids, TcpdumpEnds(d) PROVE FALSE
    BY <1>1, <2>4 DEF TcpdumpEnds
  <2>5. CASE UNCHANGED tcpdump
    BY <1>1, <2>5
  <2> QED
    BY <1>1, <2>1, <2>2, <2>3, <2>4, <2>5
    DEF Next, Main, Collect, Discover, SetupPortForward, TestConnection, StartMonitoring,
        SeeSignal, SeeTick, SeeDuration, Count, GetCPUMetrics, GetMemoryUsage,
        GetNetworkStats, GetSoftIRQStats, Query, Append, Sleep, SaveCharts, Close, Signal,
        Crash, Tick, Elapse, LoseForward, children
<1>2. IInv /\ [Next]_vars =>
        [\A c \in Ids : tcpdump'[c] = "cut" /\ tcpdump[c] # "cut" => tcpdump[c] = "termed"]_vars
  BY <1>1
<1> QED
  BY <1>2, Invariance, PTL DEF Spec, CutOnlyIfStubborn
================================================================================
