------------------------------ MODULE AfPacketStress ------------------------------
(***************************************************************************)
(* afpacket-stress (cmd/afpacket-stress/main.go): the goroutines of one    *)
(* test.  Workers send, a creator opens AF_PACKET sockets in batches (or   *)
(* main opens them all first), every socket has a receiver, a reporter and *)
(* a monitor run mpstat.  One channel stops them all; main then closes the *)
(* sockets, waits for the goroutines, but not for long, and prints the     *)
(* counters.                                                               *)
(*                                                                         *)
(* A WaitGroup is the set of goroutines added to it and not done.  main    *)
(* closes the sockets holding socketMu, which only an append waits for:    *)
(* that is one step.  The time main sleeps first guarantees nothing and is *)
(* left out, as are the rates the senders keep.                            *)
(***************************************************************************)
EXTENDS Integers, FiniteSets, Functions

CONSTANTS
  SocketCount,  \* --sockets
  SocketBatch,  \* --socket-batch
  Workers,      \* the traffic generators
  Helpers,      \* reportStats and monitorCPUSoftIRQ
  PacketSize,   \* --size
  FrameSizes,   \* the sizes of the frames that arrive
  MaxSent,      \* BOUND: packets sent by all workers
  MaxRecv       \* BOUND: packets received on one socket

ASSUME StressAssumption ==
  /\ SocketCount \in Nat /\ SocketBatch \in Nat \ {0}
  /\ PacketSize \in Nat /\ FrameSizes \subseteq Nat
  /\ MaxSent \in Nat /\ MaxRecv \in Nat
  /\ IsFiniteSet(Workers) /\ IsFiniteSet(Helpers)

Ids == 1 .. SocketCount

VARIABLES
  progressive,  \* --progressive
  main,         \* where main is
  stopped,      \* stopChan is closed
  wg,           \* whom main waits for
  \* Creating sockets.
  creator,      \* where progressiveSocketCreation is
  currentCount, batchSize, i,
  fresh,        \* a socket created and not yet in the slice, or 0
  sockets,      \* the ids in the slice
  open,         \* the ids whose descriptor is open
  activeSockets,
  creatorWg,    \* whom progressiveSocketCreation waits for
  tried,        \* HISTORY: the ids a socket was asked for
  late,         \* HISTORY: how many since stopChan was closed
  \* Working.
  receiver,     \* where the receiver of each socket is
  size,         \* the packet it has in hand
  pktsRecv, sockBytes,  \* its socket's counters
  packetsRecv, bytesRecv, packetsSent, bytesSent, \* everybody's counters
  worker, helper

creation == <<creator, currentCount, batchSize, i, fresh, sockets, open,
              activeSockets, creatorWg, tried, late>>
receiving == <<receiver, size, pktsRecv, sockBytes, packetsRecv, bytesRecv>>
sending == <<worker, packetsSent, bytesSent>>
vars == <<progressive, main, stopped, wg, creation, receiving, sending, helper>>

\* The goroutines, as the members of a WaitGroup.
Go(kind, names) == {<<kind, n>> : n \in names}

Receivers == Go("receiver", Ids)
Goroutines == Go("worker", Workers) \cup Go("helper", Helpers)
                \cup Go("creator", {0}) \cup Receivers

--------------------------------------------------------------------------------
(* main starts the workers, then opens the sockets or has the creator do   *)
(* it, then starts the helpers.                                            *)
Init ==
  /\ progressive \in BOOLEAN
  /\ main = IF progressive THEN "running" ELSE "creating"
  /\ stopped = FALSE
  /\ wg = Go("worker", Workers)
          \cup (IF progressive THEN Go("creator", {0}) \cup Go("helper", Helpers) ELSE {})
  /\ creator = IF progressive THEN "check" ELSE "off"
  /\ currentCount = 0 /\ batchSize = SocketBatch /\ i = 0 /\ fresh = 0
  /\ sockets = {} /\ open = {} /\ activeSockets = 0 /\ creatorWg = {}
  /\ tried = {} /\ late = 0
  /\ receiver = [s \in Ids |-> "off"] /\ size = [s \in Ids |-> 0]
  /\ pktsRecv = [s \in Ids |-> 0] /\ sockBytes = [s \in Ids |-> 0]
  /\ packetsRecv = 0 /\ bytesRecv = 0 /\ packetsSent = 0 /\ bytesSent = 0
  /\ worker = [w \in Workers |-> "dial"]
  /\ helper = [h \in Helpers |-> IF progressive THEN "wait" ELSE "off"]

Alive == main # "exited"

\* createAFPacketSocket for the next id: it fails, or the descriptor is open.
Try(s) ==
  /\ tried' = tried \cup {s}
  /\ late' = IF stopped THEN late + 1 ELSE late
  /\ \/ i' = i + 1 /\ UNCHANGED <<fresh, open>>
     \/ fresh' = s /\ open' = open \cup {s} /\ UNCHANGED i

\* The socket goes into the slice and is counted, and its receiver is started.
Append ==
  /\ fresh # 0
  /\ sockets' = sockets \cup {fresh}
  /\ activeSockets' = activeSockets + 1
  /\ receiver' = [receiver EXCEPT ![fresh] = "check"]
  /\ fresh' = 0 /\ i' = i + 1

--------------------------------------------------------------------------------
(* progressiveSocketCreation.                                              *)

\* MUTANT of CheckBatch: the last batch not cut to what remains.
CheckBatchUncut ==
  /\ Alive /\ creator = "check"
  /\ i' = 0
  /\ creator' = IF currentCount >= SocketCount THEN "all created"
                ELSE IF stopped THEN "wait" ELSE "batch"
  /\ UNCHANGED <<progressive, main, stopped, wg, currentCount, batchSize, fresh, sockets,
                 open, activeSockets, creatorWg, tried, late, receiving, sending, helper>>

\* MUTANT of CheckBatch: stopChan not looked at, since the pause does.
CheckBatchDeaf ==
  /\ Alive /\ creator = "check"
  /\ IF currentCount >= SocketCount
     THEN creator' = "all created" /\ UNCHANGED <<batchSize, i>>
     ELSE /\ creator' = "batch"
          /\ batchSize' = IF SocketCount - currentCount < batchSize
                          THEN SocketCount - currentCount ELSE batchSize
          /\ i' = 0
  /\ UNCHANGED <<progressive, main, stopped, wg, currentCount, fresh, sockets, open,
                 activeSockets, creatorWg, tried, late, receiving, sending, helper>>

\* The top of the loop: stopChan, or the next batch.
CheckBatch ==
  /\ Alive /\ creator = "check"
  /\ IF currentCount >= SocketCount
     THEN creator' = "all created" /\ UNCHANGED <<batchSize, i>>
     ELSE IF stopped
     THEN creator' = "wait" /\ UNCHANGED <<batchSize, i>>
     ELSE /\ creator' = "batch"
          /\ batchSize' = IF SocketCount - currentCount < batchSize
                          THEN SocketCount - currentCount ELSE batchSize
          /\ i' = 0
  /\ UNCHANGED <<progressive, main, stopped, wg, currentCount, fresh, sockets, open,
                 activeSockets, creatorWg, tried, late, receiving, sending, helper>>

\* The batch, which does not look at stopChan.
CreateInBatch ==
  /\ Alive /\ creator = "batch" /\ fresh = 0 /\ i < batchSize
  /\ Try(currentCount + i + 1)
  /\ UNCHANGED <<progressive, main, stopped, wg, creator, currentCount, batchSize,
                 sockets, activeSockets, creatorWg, receiving, sending, helper>>

\* MUTANT of AppendInBatch: wg.Add forgotten.
AppendInBatchUncounted ==
  /\ Alive /\ creator = "batch"
  /\ Append
  /\ UNCHANGED <<progressive, main, stopped, wg, creator, currentCount, batchSize, open,
                 creatorWg, tried, late, size, pktsRecv, sockBytes, packetsRecv, bytesRecv,
                 sending, helper>>

AppendInBatch ==
  /\ Alive /\ creator = "batch"
  /\ Append
  /\ creatorWg' = creatorWg \cup Go("receiver", {fresh})
  /\ UNCHANGED <<progressive, main, stopped, wg, creator, currentCount, batchSize, open,
                 tried, late, size, pktsRecv, sockBytes, packetsRecv, bytesRecv, sending,
                 helper>>

EndBatch ==
  /\ Alive /\ creator = "batch" /\ fresh = 0 /\ i = batchSize
  /\ currentCount' = currentCount + batchSize
  /\ creator' = "pause"
  /\ UNCHANGED <<progressive, main, stopped, wg, batchSize, i, fresh, sockets, open,
                 activeSockets, creatorWg, tried, late, receiving, sending, helper>>

\* stopChan or the delay, whichever the select takes if both are ready.
Pause ==
  /\ Alive /\ creator = "pause"
  /\ \/ stopped /\ creator' = "wait"
     \/ creator' = "check"
  /\ UNCHANGED <<progressive, main, stopped, wg, currentCount, batchSize, i, fresh,
                 sockets, open, activeSockets, creatorWg, tried, late, receiving, sending,
                 helper>>

\* MUTANT of CreatorReturns: the receivers not waited for.
CreatorReturnsAtOnce ==
  /\ Alive /\ creator \in {"wait", "all created"}
  /\ creator' = "ended"
  /\ wg' = wg \ Go("creator", {0})
  /\ UNCHANGED <<progressive, main, stopped, currentCount, batchSize, i, fresh, sockets,
                 open, activeSockets, creatorWg, tried, late, receiving, sending, helper>>

\* wg.Wait of the creator, then Done of main's group.
CreatorReturns ==
  /\ Alive /\ creator \in {"wait", "all created"} /\ creatorWg = {}
  /\ creator' = "ended"
  /\ wg' = wg \ Go("creator", {0})
  /\ UNCHANGED <<progressive, main, stopped, currentCount, batchSize, i, fresh, sockets,
                 open, activeSockets, creatorWg, tried, late, receiving, sending, helper>>

--------------------------------------------------------------------------------
(* receivePackets.                                                         *)

UnchangedByReceiver == UNCHANGED <<progressive, main, stopped, creator, currentCount,
                         batchSize, i, fresh, sockets, open, activeSockets, tried, late,
                         sending, helper>>

ReceiverReturns(s) ==
  /\ receiver' = [receiver EXCEPT ![s] = "ended"]
  /\ wg' = wg \ Go("receiver", {s})
  /\ creatorWg' = creatorWg \ Go("receiver", {s})
  /\ UNCHANGED <<size, pktsRecv, sockBytes, packetsRecv, bytesRecv>>
  /\ UnchangedByReceiver

\* MUTANT of CheckStop: the closing of the socket taken for enough.
CheckStopDeaf(s) ==
  /\ Alive /\ receiver[s] = "check"
  /\ receiver' = [receiver EXCEPT ![s] = "recv"]
  /\ UNCHANGED <<wg, creatorWg, size, pktsRecv, sockBytes, packetsRecv, bytesRecv>>
  /\ UnchangedByReceiver

CheckStop(s) ==
  /\ Alive /\ receiver[s] = "check"
  /\ \/ stopped /\ ReceiverReturns(s)
     \/ /\ ~stopped
        /\ receiver' = [receiver EXCEPT ![s] = "recv"]
        /\ UNCHANGED <<wg, creatorWg, size, pktsRecv, sockBytes, packetsRecv, bytesRecv>>
        /\ UnchangedByReceiver

\* Recvfrom fails for good: the interface went down, or the descriptor is closed.
RecvFails(s) ==
  /\ Alive /\ receiver[s] = "recv"
  /\ ReceiverReturns(s)

\* Nothing there: the receiver sleeps and tries again.  An empty packet is not
\* counted.
RecvNothing(s) ==
  /\ Alive /\ receiver[s] = "recv" /\ open # {}
  /\ receiver' = [receiver EXCEPT ![s] = "check"]
  /\ UNCHANGED <<wg, creatorWg, size, pktsRecv, sockBytes, packetsRecv, bytesRecv>>
  /\ UnchangedByReceiver

\* A packet of n bytes.  The number of a closed descriptor may belong to a
\* socket opened since, whose packet it is then.
RecvPacket(s, n) ==
  /\ Alive /\ receiver[s] = "recv" /\ open # {}
  /\ pktsRecv[s] < MaxRecv
  /\ size' = [size EXCEPT ![s] = n]
  /\ receiver' = [receiver EXCEPT ![s] = "pktsRecv"]
  /\ UNCHANGED <<wg, creatorWg, pktsRecv, sockBytes, packetsRecv, bytesRecv>>
  /\ UnchangedByReceiver

\* The four atomic adds, one after another.
Count(s) ==
  /\ Alive
  /\ \/ /\ receiver[s] = "pktsRecv"
        /\ pktsRecv' = [pktsRecv EXCEPT ![s] = @ + 1]
        /\ receiver' = [receiver EXCEPT ![s] = "sockBytes"]
        /\ UNCHANGED <<sockBytes, packetsRecv, bytesRecv>>
     \/ /\ receiver[s] = "sockBytes"
        /\ sockBytes' = [sockBytes EXCEPT ![s] = @ + size[s]]
        /\ receiver' = [receiver EXCEPT ![s] = "packetsRecv"]
        /\ UNCHANGED <<pktsRecv, packetsRecv, bytesRecv>>
     \/ /\ receiver[s] = "packetsRecv"
        /\ packetsRecv' = packetsRecv + 1
        /\ receiver' = [receiver EXCEPT ![s] = "bytesRecv"]
        /\ UNCHANGED <<pktsRecv, sockBytes, bytesRecv>>
     \/ /\ receiver[s] = "bytesRecv"
        /\ bytesRecv' = bytesRecv + size[s]
        /\ receiver' = [receiver EXCEPT ![s] = "check"]
        /\ UNCHANGED <<pktsRecv, sockBytes, packetsRecv>>
  /\ UNCHANGED <<wg, creatorWg, size>>
  /\ UnchangedByReceiver

Receive(s) ==
  \/ CheckStop(s) \/ RecvFails(s) \/ RecvNothing(s) \/ Count(s)
  \/ \E n \in FrameSizes : RecvPacket(s, n)

--------------------------------------------------------------------------------
(* The senders and the helpers.                                            *)

WorkerReturns(w) ==
  /\ worker' = [worker EXCEPT ![w] = "ended"]
  /\ wg' = wg \ Go("worker", {w})
  /\ UNCHANGED <<packetsSent, bytesSent>>

\* net.Dial may fail; then conn.Write and two atomic adds, again and again, and
\* stopChan is seen between two batches of them.
Send(w) ==
  /\ Alive
  /\ \/ /\ worker[w] = "dial" \/ (worker[w] = "check" /\ stopped)
        /\ WorkerReturns(w)
     \/ /\ worker[w] = "dial"
        /\ worker' = [worker EXCEPT ![w] = "check"]
        /\ UNCHANGED <<wg, packetsSent, bytesSent>>
     \/ /\ worker[w] = "check" /\ packetsSent < MaxSent
        /\ packetsSent' = packetsSent + 1
        /\ worker' = [worker EXCEPT ![w] = "sent"]
        /\ UNCHANGED <<wg, bytesSent>>
     \/ /\ worker[w] = "sent"
        /\ bytesSent' = bytesSent + PacketSize
        /\ worker' = [worker EXCEPT ![w] = "check"]
        /\ UNCHANGED <<wg, packetsSent>>
  /\ UNCHANGED <<progressive, main, stopped, creation, receiving, helper>>

\* A tick runs mpstat, which takes a second; stopChan is seen between two ticks.
Help(h) ==
  /\ Alive
  /\ \/ helper[h] = "wait" /\ helper' = [helper EXCEPT ![h] = "mpstat"] /\ UNCHANGED wg
     \/ helper[h] = "mpstat" /\ helper' = [helper EXCEPT ![h] = "wait"] /\ UNCHANGED wg
     \/ /\ helper[h] = "wait" /\ stopped
        /\ helper' = [helper EXCEPT ![h] = "ended"]
        /\ wg' = wg \ Go("helper", {h})
  /\ UNCHANGED <<progressive, main, stopped, creation, receiving, sending>>

--------------------------------------------------------------------------------
(* main.                                                                   *)

\* Without --progressive main opens the sockets itself.
CreateInMain ==
  /\ main = "creating" /\ fresh = 0 /\ i < SocketCount
  /\ Try(i + 1)
  /\ UNCHANGED <<progressive, main, stopped, wg, creator, currentCount, batchSize,
                 sockets, activeSockets, creatorWg, receiving, sending, helper>>

AppendInMain ==
  /\ main = "creating"
  /\ Append
  /\ wg' = wg \cup Go("receiver", {fresh})
  /\ UNCHANGED <<progressive, main, stopped, creator, currentCount, batchSize, open,
                 creatorWg, tried, late, size, pktsRecv, sockBytes, packetsRecv, bytesRecv,
                 sending, helper>>

StartHelpers ==
  /\ main = "creating" /\ fresh = 0 /\ i = SocketCount
  /\ main' = "running"
  /\ wg' = wg \cup Go("helper", Helpers)
  /\ helper' = [h \in Helpers |-> "wait"]
  /\ UNCHANGED <<progressive, stopped, creation, receiving, sending>>

\* The signal or the duration closes stopChan.
Stop ==
  /\ main = "running"
  /\ main' = "stopping" /\ stopped' = TRUE
  /\ UNCHANGED <<progressive, wg, creation, receiving, sending, helper>>

\* Every socket in the slice is closed.
CloseSockets ==
  /\ main = "stopping"
  /\ main' = "waiting"
  /\ open' = open \ sockets
  /\ UNCHANGED <<progressive, stopped, wg, creator, currentCount, batchSize, i, fresh,
                 sockets, activeSockets, creatorWg, tried, late, receiving, sending, helper>>

\* wg.Wait has returned, or 5 seconds have passed.
Join ==
  /\ main = "waiting"
  /\ \/ wg = {} /\ main' = "joined"
     \/ main' = "gave up"
  /\ UNCHANGED <<progressive, stopped, wg, creation, receiving, sending, helper>>

\* printFinalStats, and with main every goroutine ends.
Exit ==
  /\ main \in {"joined", "gave up"}
  /\ main' = "exited"
  /\ UNCHANGED <<progressive, stopped, wg, creation, receiving, sending, helper>>

Exited == main = "exited" /\ UNCHANGED vars

--------------------------------------------------------------------------------
Creator == \/ CheckBatch \/ CreateInBatch \/ AppendInBatch \/ EndBatch
           \/ Pause \/ CreatorReturns

Main == \/ CreateInMain \/ AppendInMain \/ StartHelpers
        \/ Stop \/ CloseSockets \/ Join \/ Exit

Next ==
  \/ Main \/ Creator
  \/ \E s \in Ids : Receive(s)
  \/ \E w \in Workers : Send(w)
  \/ \E h \in Helpers : Help(h)
  \/ Exited

Spec == Init /\ [][Next]_vars

\* Every goroutine is scheduled; a helper, whose ticker and stopChan are ready
\* again and again, takes stopChan at last.  main need not be stopped, nor give
\* up.
Fairness ==
  /\ WF_vars(Creator)
  /\ \A s \in Ids : WF_vars(Receive(s))
  /\ \A w \in Workers : WF_vars(Send(w)) /\ SF_vars(Send(w) /\ worker'[w] = "ended")
  /\ \A h \in Helpers : WF_vars(Help(h)) /\ SF_vars(Help(h) /\ helper'[h] = "ended")

FairSpec == Spec /\ Fairness

--------------------------------------------------------------------------------
(* Properties.                                                             *)

CreationOK ==
  /\ creator \in {"off", "check", "batch", "pause", "wait", "all created", "ended"}
  /\ currentCount \in 0 .. SocketCount /\ batchSize \in 1 .. SocketBatch
  /\ i \in Nat /\ fresh \in Ids \cup {0}
  /\ sockets \subseteq Ids /\ open \subseteq Ids /\ tried \subseteq Ids
  /\ activeSockets \in Nat /\ late \in Nat
  /\ creatorWg \subseteq Receivers

ReceivingOK ==
  /\ receiver \in [Ids -> {"off", "check", "recv", "pktsRecv", "sockBytes",
                           "packetsRecv", "bytesRecv", "ended"}]
  /\ size \in [Ids -> Nat] /\ pktsRecv \in [Ids -> Nat] /\ sockBytes \in [Ids -> Nat]
  /\ packetsRecv \in Nat /\ bytesRecv \in Nat

SendingOK ==
  /\ packetsSent \in Nat /\ bytesSent \in Nat
  /\ worker \in [Workers -> {"dial", "check", "sent", "ended"}]

MainOK ==
  /\ progressive \in BOOLEAN /\ stopped \in BOOLEAN
  /\ main \in {"creating", "running", "stopping", "waiting", "joined", "gave up", "exited"}
  /\ wg \subseteq Goroutines
  /\ helper \in [Helpers -> {"off", "wait", "mpstat", "ended"}]

\* The values the variables range over.
TypeOK == CreationOK /\ ReceivingOK /\ SendingOK /\ MainOK

\* When main has joined the goroutines none is left, in either mode, although
\* main waits for the receivers of a progressive test only through the creator.
JoinIsComplete ==
  main = "joined" =>
    /\ creator \in {"off", "ended"}
    /\ \A s \in Ids : receiver[s] \in {"off", "ended"}
    /\ \A w \in Workers : worker[w] = "ended"
    /\ \A h \in Helpers : helper[h] = "ended"

\* The totals printed after the join are those of the sockets and of the packets
\* sent: every sequence of atomic adds has been completed.
FinalStatsExact ==
  main = "joined" =>
    /\ packetsRecv = SumFunction(pktsRecv)
    /\ bytesRecv = SumFunction(sockBytes)
    /\ bytesSent = PacketSize * packetsSent

\* After the stop the creator asks for the rest of its batch and for no other
\* socket, although its inner loop ignores stopChan and the select between two
\* batches may prefer the delay.
AtMostOneBatchLate == late <= SocketBatch

\* A creator that ends its loop has asked for every socket once, whatever the
\* last batch is cut to and however many failed.
EverySocketTried ==
  creator = "all created" => tried = Ids /\ activeSockets = Cardinality(sockets)

\* A stop drains the goroutines, unless main gives up first: none waits for
\* another for ever.
StopDrains == stopped ~> (wg = {} \/ main = "exited")

\* What stays open when main has closed the sockets and joined the goroutines is
\* at most the batch in progress then: its sockets are appended behind the back
\* of the loop that closes the slice.
LeakIsOneBatch == main = "joined" => Cardinality(open) <= SocketBatch
================================================================================
