-------------------------------- MODULE Reproducer --------------------------------
(***************************************************************************)
(* af_packet_reproducer: main starts one tcpdump per socket, samples       *)
(* Prometheus through a port forward while they run, and stops them on a   *)
(* signal or when its duration is over.  The children, the cluster and the *)
(* signals act on their own; main is sequential.                           *)
(***************************************************************************)
EXTENDS Integers, FiniteSets

CONSTANTS
  SocketCounts,    \* --sockets
  MaxSockets,      \* a bound of SocketCounts
  Intervals,       \* --metrics-interval
  CollectEvery,    \* 10, sockets created between two samples
  CPUMetrics,      \* usage, softIRQ, user, system and idle
  NetworkMetrics,  \* the eight of NetworkStats
  SoftIRQMetrics,  \* NET_RX and NET_TX
  MemTotal         \* memory of the nodes

ASSUME ReproducerAssumption ==
  /\ SocketCounts \subseteq Int /\ MaxSockets \in Nat
  /\ \A n \in SocketCounts : n <= MaxSockets
  /\ Intervals \subseteq Int /\ CollectEvery \in Nat \ {0}
  /\ MemTotal \in Nat \ {0}

Ids == 1 .. MaxSockets
Metrics == CPUMetrics \cup NetworkMetrics \cup SoftIRQMetrics

\* Where main has ended: by itself, by log.Fatalf, by a panic, or killed.
Ends == {"returned", "fatal", "panicked", "killed"}

\* The points that make a chart; more of them are counted as as many.
EnoughPoints == 2

\* The charts, and which of them is plotCombinedMetrics.
Charts == 9
CombinedChart == 5

VARIABLES
  sockets, interval, timed,  \* the flags; timed: --duration is positive
  nodes,     \* the cluster lists nodes, so nodeFilter is not empty
  main,      \* where main is
  next,      \* socket to create, stop or kill next
  after,     \* where Collect returns to
  forward,   \* the goroutine of the port forward
  signalled, \* sigChan holds a signal
  ticked,    \* the ticker's channel holds a tick
  elapsed,   \* durationChan holds its value
  captures,  \* ids of the captures that were started
  tcpdump,   \* [id -> state of its process]
  point,     \* the MetricPoint being filled in, then the latest one
  points,    \* how many there are, up to EnoughPoints
  seen,      \* one of them counted an active socket
  tried,     \* charts SaveCharts has begun to draw
  answered   \* HISTORY: metrics Prometheus had an answer for, of this point

flags == <<sockets, interval, timed>>
channels == <<signalled, ticked, elapsed>>
children == <<captures, tcpdump>>
metrics == <<point, points, seen, answered>>
vars == <<flags, nodes, main, next, after, forward, channels, children, metrics, tried>>

NoPoint == [active |-> 0, got |-> {}, memory |-> 0]

Init ==
  /\ sockets \in SocketCounts /\ interval \in Intervals /\ timed \in BOOLEAN
  /\ nodes \in BOOLEAN
  /\ main = "discover" /\ next = 1 /\ after = "create" /\ forward = "none"
  /\ signalled = FALSE /\ ticked = FALSE /\ elapsed = FALSE
  /\ captures = {} /\ tcpdump = [c \in Ids |-> "none"]
  /\ point = NoPoint /\ points = 0 /\ seen = FALSE /\ answered = {} /\ tried = 0

Ended == main \in Ends
Goto(from, to) == main = from /\ main' = to

\* A panic runs the deferred Close.
Panic(from) == Goto(from, "panicked") /\ forward' = "ended"

--------------------------------------------------------------------------------
(* The start of main: log.Fatalf exits without the deferred Close.         *)

\* discoverPrometheus and the directories.
Discover ==
  /\ Goto("discover", "forward") \/ Goto("discover", "fatal")
  /\ UNCHANGED <<flags, nodes, next, after, forward, channels, children, metrics, tried>>

\* main looks for the pod once more, without the label discoverPrometheus tries
\* last; setupPortForward does not learn whether its goroutine could forward.
SetupPortForward ==
  /\ \/ /\ Goto("forward", "test")
        /\ forward' \in {"up", "ended"}
     \/ Goto("forward", "fatal") /\ UNCHANGED forward
  /\ UNCHANGED <<flags, nodes, next, after, channels, children, metrics, tried>>

\* testPrometheusConnection, signal.Notify, and make([]*Capture, 0, *socketCount).
TestConnection ==
  /\ \/ forward = "up" /\ sockets >= 0 /\ Goto("test", "create") /\ UNCHANGED forward
     \/ forward = "up" /\ sockets < 0 /\ Panic("test")
     \/ Goto("test", "fatal") /\ UNCHANGED forward
  /\ UNCHANGED <<flags, nodes, next, after, channels, children, metrics, tried>>

\* startTcpdump: a capture that starts is kept, and after every tenth main takes
\* a sample; the channels are not looked at.
Create ==
  /\ next <= sockets
  /\ \/ /\ captures' = captures \cup {next}
        /\ tcpdump' = [tcpdump EXCEPT ![next] = "running"]
        /\ IF next % CollectEvery = 0 THEN Goto("create", "count") ELSE Goto("create", "create")
     \/ Goto("create", "create") /\ UNCHANGED children
  /\ next' = next + 1 /\ after' = "create"
  /\ UNCHANGED <<flags, nodes, forward, channels, metrics, tried>>

\* The ticker and the timer; NewTicker panics at an interval that is not positive.
StartMonitoring ==
  /\ next > sockets
  /\ \/ interval > 0 /\ Goto("create", "monitor") /\ UNCHANGED forward
     \/ interval <= 0 /\ Panic("create")
  /\ UNCHANGED <<flags, nodes, next, after, channels, children, metrics, tried>>

--------------------------------------------------------------------------------
(* The monitoring loop: select takes any of the cases that are ready, then *)
(* each of them collects.                                                  *)

\* MUTANT of SeeSignal: the ticks served first.
SeeSignalWhenIdle ==
  /\ signalled /\ ~ticked /\ Goto("monitor", "count")
  /\ signalled' = FALSE /\ after' = "stop"
  /\ UNCHANGED <<flags, nodes, next, forward, ticked, elapsed, children, metrics, tried>>

\* MUTANT of SeeSignal: the last sample forgotten.
SeeSignalUnsampled ==
  /\ signalled /\ Goto("monitor", "term")
  /\ signalled' = FALSE /\ after' = "stop" /\ next' = 1
  /\ UNCHANGED <<flags, nodes, forward, ticked, elapsed, children, metrics, tried>>

SeeSignal ==
  /\ signalled /\ Goto("monitor", "count")
  /\ signalled' = FALSE /\ after' = "stop"
  /\ UNCHANGED <<flags, nodes, next, forward, ticked, elapsed, children, metrics, tried>>

SeeTick ==
  /\ ticked /\ Goto("monitor", "count")
  /\ ticked' = FALSE /\ after' = "monitor"
  /\ UNCHANGED <<flags, nodes, next, forward, signalled, elapsed, children, metrics, tried>>

SeeDuration ==
  /\ elapsed /\ Goto("monitor", "count")
  /\ elapsed' = FALSE /\ after' = "stop"
  /\ UNCHANGED <<flags, nodes, next, forward, signalled, ticked, children, metrics, tried>>

--------------------------------------------------------------------------------
(* Collect.  Every query ends within its timeout, with an answer or not;   *)
(* one that fails leaves its metric at zero.                               *)

\* A signal reaches a child that was started: one that has ended is a zombie, for
\* main never waits for it.
Exists(c) == tcpdump[c] # "none"

\* countActiveProcesses.
Count ==
  /\ Goto("count", "cpu")
  /\ point' = [NoPoint EXCEPT !.active = Cardinality({c \in captures : Exists(c)})]
  /\ answered' = {}
  /\ UNCHANGED <<flags, nodes, next, after, forward, channels, children, points, seen, tried>>

\* What Prometheus has an answer for among a set of metrics.
Answers(set) == IF forward = "up" THEN SUBSET set ELSE {{}}

\* The queries of getCPUMetrics set the filter, with its own braces, within the
\* braces of mode="...": with a node to filter by they do not parse.
WellFormed(metric) == metric \in CPUMetrics => ~nodes

\* queryPrometheus for each metric of a set.
Query(set) ==
  \E have \in Answers(set) :
    /\ answered' = answered \cup have
    /\ point' = [point EXCEPT !.got = @ \cup {q \in have : WellFormed(q)}]
    /\ UNCHANGED <<flags, nodes, next, after, forward, channels, children, points, seen, tried>>

GetCPUMetrics == Goto("cpu", "memory") /\ Query(CPUMetrics)
GetNetworkStats == Goto("network", "softirq") /\ Query(NetworkMetrics)
GetSoftIRQStats == Goto("softirq", "append") /\ Query(SoftIRQMetrics)

\* MUTANT of MemoryUsage: the total not looked at.
MemoryUsageUnchecked(total, available) == (100 * (total - available)) \div MemTotal

\* The usage in percent, from two answers of which each may be missing.
MemoryUsage(total, available) ==
  IF total = 0 THEN 0 ELSE (100 * (total - available)) \div total

GetMemoryUsage ==
  /\ Goto("memory", "network")
  /\ \E have \in Answers({"total", "available"}), free \in 0 .. MemTotal :
       LET value(name, bytes) == IF name \in have THEN bytes ELSE 0 IN
       point' = [point EXCEPT !.memory =
                   MemoryUsage(value("total", MemTotal), value("available", free))]
  /\ UNCHANGED <<flags, nodes, next, after, forward, channels, children, points, seen, answered, tried>>

\* The point is kept and Collect returns.
Append ==
  /\ main = "append"
  /\ main' = IF after = "stop" THEN "term" ELSE after
  /\ next' = IF after = "stop" THEN 1 ELSE next
  /\ points' = IF points < EnoughPoints THEN points + 1 ELSE points
  /\ seen' = (seen \/ point.active > 0)
  /\ UNCHANGED <<flags, nodes, after, forward, channels, children, point, answered, tried>>

Collect ==
  Count \/ GetCPUMetrics \/ GetMemoryUsage \/ GetNetworkStats \/ GetSoftIRQStats \/ Append

--------------------------------------------------------------------------------
(* cleanupCaptures, SaveCharts and the deferred Close.                     *)

\* MUTANT of Terminate: SIGKILL at once.
TerminateHard ==
  /\ main = "term" /\ next <= MaxSockets
  /\ tcpdump' = IF next \in captures /\ tcpdump[next] = "running"
                THEN [tcpdump EXCEPT ![next] = "cut"] ELSE tcpdump
  /\ next' = next + 1
  /\ UNCHANGED <<flags, nodes, main, after, forward, channels, captures, metrics, tried>>

\* SIGTERM to the next capture.
Terminate ==
  /\ main = "term" /\ next <= MaxSockets
  /\ tcpdump' = IF next \in captures /\ tcpdump[next] = "running"
                THEN [tcpdump EXCEPT ![next] = "termed"] ELSE tcpdump
  /\ next' = next + 1
  /\ UNCHANGED <<flags, nodes, main, after, forward, channels, captures, metrics, tried>>

\* The two seconds the children are given.
Sleep ==
  /\ next > MaxSockets /\ Goto("term", "kill")
  /\ next' = 1
  /\ UNCHANGED <<flags, nodes, after, forward, channels, children, metrics, tried>>

\* MUTANT of Kill: SIGTERM once more.
KillSoftly ==
  /\ main = "kill" /\ next <= MaxSockets
  /\ next' = next + 1
  /\ UNCHANGED <<flags, nodes, main, after, forward, channels, children, metrics, tried>>

\* SIGKILL to the next capture, whatever became of it.
Kill ==
  /\ main = "kill" /\ next <= MaxSockets
  /\ tcpdump' = IF next \in captures /\ tcpdump[next] \in {"running", "termed"}
                THEN [tcpdump EXCEPT ![next] = "cut"] ELSE tcpdump
  /\ next' = next + 1
  /\ UNCHANGED <<flags, nodes, main, after, forward, channels, captures, metrics, tried>>

\* A chart that cannot be drawn or saved is logged, and the next one is begun.  The
\* combined one divides by the most sockets of any point and takes its line for
\* granted: if all points have 0 of them it panics, with the deferred Close.
SaveCharts ==
  /\ next > MaxSockets
  /\ \/ points < EnoughPoints /\ Goto("kill", "close") /\ UNCHANGED <<forward, tried>>
     \/ /\ points >= EnoughPoints /\ seen
        /\ Goto("kill", "close") /\ tried' = Charts /\ UNCHANGED forward
     \/ /\ points >= EnoughPoints /\ ~seen
        /\ Panic("kill") /\ tried' = CombinedChart
  /\ UNCHANGED <<flags, nodes, next, after, channels, children, metrics>>

Close ==
  /\ Goto("close", "returned")
  /\ forward' = "ended"
  /\ UNCHANGED <<flags, nodes, next, after, channels, children, metrics, tried>>

Main ==
  \/ Discover \/ SetupPortForward \/ TestConnection \/ Create \/ StartMonitoring
  \/ SeeSignal \/ SeeTick \/ SeeDuration \/ Collect
  \/ Terminate \/ Sleep \/ Kill \/ SaveCharts \/ Close

--------------------------------------------------------------------------------
(* What happens around main.                                               *)

Early == main \in {"discover", "forward", "test"}

\* SIGINT or SIGTERM: fatal until signal.Notify, then kept in sigChan, once.
Signal ==
  /\ ~Ended
  /\ IF Early THEN main' = "killed" /\ UNCHANGED channels
     ELSE signalled' = TRUE /\ UNCHANGED <<main, ticked, elapsed>>
  /\ UNCHANGED <<flags, nodes, next, after, forward, children, metrics, tried>>

\* SIGKILL, or out of memory.
Crash ==
  /\ ~Ended /\ main' = "killed"
  /\ UNCHANGED <<flags, nodes, next, after, forward, channels, children, metrics, tried>>

\* Ticker and timer run from the monitoring loop on.
Monitoring == ~Ended /\ (main = "monitor" \/ after # "create")

Tick ==
  /\ Monitoring
  /\ ticked' = TRUE
  /\ UNCHANGED <<flags, nodes, main, next, after, forward, signalled, elapsed, children, metrics, tried>>

Elapse ==
  /\ Monitoring
  /\ timed /\ after # "stop" /\ elapsed' = TRUE
  /\ UNCHANGED <<flags, nodes, main, next, after, forward, signalled, ticked, children, metrics, tried>>

\* The connection to the pod is lost, for good.
LoseForward ==
  /\ forward = "up" /\ forward' = "ended"
  /\ UNCHANGED <<flags, nodes, main, next, after, channels, children, metrics, tried>>

\* A tcpdump ends: it could not open its socket or write its file, it got the
\* SIGINT of the terminal, or it obeys the SIGTERM, which it may fail to.
TcpdumpEnds(c) ==
  /\ tcpdump[c] \in {"running", "termed"}
  /\ tcpdump' = [tcpdump EXCEPT ![c] = "ended"]
  /\ UNCHANGED <<flags, nodes, main, next, after, forward, channels, captures, metrics, tried>>

Next ==
  \/ Main \/ Signal \/ Crash \/ Tick \/ Elapse \/ LoseForward
  \/ \E c \in Ids : TcpdumpEnds(c)

Spec == Init /\ [][Next]_vars

\* main is scheduled, its queries time out and its sleeps end; the duration passes;
\* select, which picks among the ready cases at random, takes each of them at last.
Fairness ==
  /\ WF_vars(Main) /\ WF_vars(Elapse)
  /\ SF_vars(SeeSignal) /\ SF_vars(SeeDuration)

FairSpec == Spec /\ Fairness

--------------------------------------------------------------------------------
(* Properties.                                                             *)

\* The values the variables range over.
TypeOK ==
  /\ sockets \in SocketCounts /\ interval \in Intervals /\ timed \in BOOLEAN
  /\ nodes \in BOOLEAN
  /\ main \in Ends \cup
       {"discover", "forward", "test", "create", "monitor", "count", "cpu", "memory",
        "network", "softirq", "append", "term", "kill", "close"}
  /\ next \in 1 .. MaxSockets + 1 /\ after \in {"create", "monitor", "stop"}
  /\ forward \in {"none", "up", "ended"}
  /\ signalled \in BOOLEAN /\ ticked \in BOOLEAN /\ elapsed \in BOOLEAN
  /\ captures \subseteq Ids
  /\ tcpdump \in [Ids -> {"none", "running", "termed", "ended", "cut"}]
  /\ point \in [active : 0 .. MaxSockets, got : SUBSET Metrics, memory : Int]
  /\ points \in 0 .. EnoughPoints /\ seen \in BOOLEAN /\ tried \in 0 .. Charts
  /\ answered \subseteq Metrics

\* When main returns, or gives up on an error, no capture is left running, not even
\* one that ignored the SIGTERM; only a panic or a kill leaves them behind.
NoCaptureLeft ==
  main \in {"returned", "fatal"} =>
    \A c \in Ids : tcpdump[c] \notin {"running", "termed"}

\* A capture is cut off by SIGKILL only if it was sent SIGTERM before and did not
\* obey it in the time it was given.
CutOnlyIfStubborn ==
  [][\A c \in Ids : tcpdump'[c] = "cut" /\ tcpdump[c] # "cut" => tcpdump[c] = "termed"]_vars

\* The active sockets of a point are the captures that run when they are counted.
ActiveIsRunning ==
  [][main = "count" /\ main' = "cpu" =>
       point'.active = Cardinality({c \in Ids : tcpdump[c] \in {"running", "termed"}})]_vars

\* The memory usage is a percentage whichever of its two queries fail.
MemoryIsPercent == point.memory \in 0 .. 100

\* A run that created its tenth capture begins all of its charts, however early it
\* was stopped: the sample of the end makes the second point.  And SaveCharts does
\* not panic in a run that started a capture, not even if all of them have ended.
ChartsAfterTen ==
  /\ main \in {"close", "returned"} /\ (\E c \in captures : c % CollectEvery = 0)
     => tried = Charts
  /\ tried = CombinedChart => captures = {}

\* What Prometheus can answer gets into the point.
MeasuredIsKept == answered \subseteq point.got

\* A signal ends the program, however long the captures take to create and
\* however often the ticker fires, and so does the duration if one was asked for.
StopsWhenAsked == (signalled \/ (timed /\ main = "monitor")) ~> Ended
================================================================================
