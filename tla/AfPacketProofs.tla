------------------------------ MODULE AfPacketProofs ------------------------------
(***************************************************************************)
(* Theorems about AfPacketStress, for any number of sockets, any batch and *)
(* any number of workers.                                                  *)
(*                                                                         *)
(* The join is complete because every goroutine that has not ended is      *)
(* registered where main waits for it, the receivers of a progressive test *)
(* through a creator that has not ended either (Registered).               *)
(***************************************************************************)
EXTENDS AfPacketStress, SumTheorems

Creating == creator \notin {"off", "ended"}

Registered ==
  /\ Creating => <<"creator", 0>> \in wg
  /\ \A w \in Workers : worker[w] # "ended" => <<"worker", w>> \in wg
  /\ \A h \in Helpers : /\ helper[h] \notin {"off", "ended"} => <<"helper", h>> \in wg
                        /\ helper[h] = "off" => main = "creating"
  /\ \A s \in Ids : receiver[s] \notin {"off", "ended"} =>
       <<"receiver", s>> \in wg \/ (<<"receiver", s>> \in creatorWg /\ Creating)

\* How far the creation of the sockets is, and how late.
Progress ==
  /\ main = "creating" => /\ creator = "off" /\ ~stopped
                          /\ i <= SocketCount /\ (fresh # 0 => i < SocketCount)
  /\ creator = "batch" => /\ batchSize <= SocketCount - currentCount
                          /\ i <= batchSize /\ (fresh # 0 => i < batchSize)
  /\ main # "creating" /\ creator # "batch" => fresh = 0
  /\ creator \in {"off", "check", "batch", "pause", "wait", "all created", "ended"}

Lateness ==
  /\ ~stopped => late = 0
  /\ creator = "batch" => late <= i \/ (fresh # 0 /\ late <= i + 1)
  /\ late <= SocketBatch

--------------------------------------------------------------------------------
(* Types.                                                                  *)

LEMMA Numbers ==
  /\ SocketCount \in Nat /\ SocketBatch \in Nat /\ SocketBatch >= 1 /\ PacketSize \in Nat
  /\ \A n \in FrameSizes : n \in Nat
BY StressAssumption

LEMMA TypeInit == Init => TypeOK
<1> SUFFICES ASSUME Init PROVE TypeOK
  OBVIOUS
<1>1. CreationOK
  BY Numbers DEF Init, CreationOK
<1>2. ReceivingOK
  BY DEF Init, ReceivingOK
<1>3. SendingOK
  BY DEF Init, SendingOK
<1>4. MainOK
  BY DEF Init, MainOK, Goroutines, Go
<1> QED
  BY <1>1, <1>2, <1>3, <1>4 DEF TypeOK

\* A socket is asked for only under an id of its own.
LEMMA NextId ==
  ASSUME TypeOK, Progress
  PROVE  /\ creator = "batch" /\ i < batchSize => currentCount + i + 1 \in Ids
         /\ main = "creating" /\ i < SocketCount => i + 1 \in Ids
<1>1. /\ SocketCount \in Nat /\ currentCount \in Nat /\ batchSize \in Nat /\ i \in Nat
      /\ creator = "batch" => batchSize <= SocketCount - currentCount
  <2>1. /\ currentCount \in 0 .. SocketCount /\ batchSize \in 1 .. SocketBatch /\ i \in Nat
    BY DEF TypeOK, CreationOK
  <2>2. creator = "batch" => batchSize <= SocketCount - currentCount
    BY DEF Progress
  <2> QED
    BY <2>1, <2>2, Numbers
<1>2. ASSUME creator = "batch", i < batchSize PROVE currentCount + i + 1 \in Ids
  <2>1. currentCount + i + 1 <= SocketCount /\ currentCount + i + 1 >= 1
    BY <1>1, <1>2
  <2> QED
    BY <1>1, <2>1 DEF Ids
<1>3. ASSUME i < SocketCount PROVE i + 1 \in Ids
  BY <1>1, <1>3 DEF Ids
<1> QED
  BY <1>2, <1>3

LEMMA TryTypes ==
  ASSUME TypeOK, NEW s \in Ids, Try(s),
         UNCHANGED <<creator, currentCount, batchSize, sockets, activeSockets, creatorWg>>
  PROVE  CreationOK'
<1>1. /\ creator' = creator /\ currentCount' = currentCount /\ batchSize' = batchSize
      /\ sockets' = sockets /\ activeSockets' = activeSockets /\ creatorWg' = creatorWg
  OBVIOUS
<1>a. i \in Nat /\ late \in Nat
  BY DEF TypeOK, CreationOK
<1>2. tried' \subseteq Ids
  BY DEF TypeOK, CreationOK, Try
<1>3. i' \in Nat /\ late' \in Nat
  BY <1>a DEF Try
<1>4. fresh' \in Ids \cup {0} /\ open' \subseteq Ids
  BY DEF TypeOK, CreationOK, Try
<1> QED
  BY <1>1, <1>2, <1>3, <1>4 DEF TypeOK, CreationOK

LEMMA AppendTypes ==
  ASSUME TypeOK, Append
  PROVE  /\ fresh \in Ids /\ fresh' = 0 /\ i' \in Nat
         /\ sockets' \subseteq Ids /\ activeSockets' \in Nat
         /\ Go("receiver", {fresh}) \subseteq Receivers
         /\ receiver' \in [Ids -> {"off", "check", "recv", "pktsRecv", "sockBytes",
                                   "packetsRecv", "bytesRecv", "ended"}]
<1>1. fresh \in Ids /\ fresh' = 0
  BY DEF TypeOK, CreationOK, Append
<1>2. i' \in Nat /\ activeSockets' \in Nat
  <2>1. i \in Nat /\ activeSockets \in Nat
    BY DEF TypeOK, CreationOK
  <2> QED
    BY <2>1 DEF Append
<1>3. sockets' \subseteq Ids
  BY <1>1 DEF TypeOK, CreationOK, Append
<1>4. Go("receiver", {fresh}) \subseteq Receivers
  BY <1>1 DEF Receivers, Go
<1>5. receiver' \in [Ids -> {"off", "check", "recv", "pktsRecv", "sockBytes",
                            "packetsRecv", "bytesRecv", "ended"}]
  BY <1>1 DEF TypeOK, ReceivingOK, Append
<1> QED
  BY <1>1, <1>2, <1>3, <1>4, <1>5

LEMMA TypeStep == TypeOK /\ Progress /\ [Next]_vars => TypeOK'
<1> SUFFICES ASSUME TypeOK, Progress, [Next]_vars PROVE TypeOK'
  OBVIOUS
<1>c. UNCHANGED creation => CreationOK'
  BY DEF TypeOK, creation, CreationOK
<1>r. UNCHANGED receiving => ReceivingOK'
  BY DEF TypeOK, receiving, ReceivingOK
<1>s. UNCHANGED sending => SendingOK'
  BY DEF TypeOK, sending, SendingOK
<1>m. UNCHANGED <<progressive, main, stopped, wg, helper>> => MainOK'
  BY DEF TypeOK, MainOK
<1>1. CASE CheckBatch
  <2>1. CreationOK'
    <3>1. batchSize' \in 1 .. SocketBatch /\ i' \in Nat
      <4>1. /\ SocketCount \in Nat /\ SocketBatch \in Nat /\ currentCount \in 0 .. SocketCount
            /\ batchSize \in 1 .. SocketBatch /\ i \in Nat
        BY Numbers DEF TypeOK, CreationOK
      <4>2. CASE creator' = "batch"
        <5>1. currentCount < SocketCount /\ i' = 0
          BY <1>1, <4>1, <4>2 DEF CheckBatch
        <5>2. CASE SocketCount - currentCount < batchSize
          <6>1. batchSize' = SocketCount - currentCount
            BY <1>1, <4>1, <4>2, <5>2 DEF CheckBatch
          <6> QED
            BY <4>1, <5>1, <5>2, <6>1
        <5>3. CASE ~(SocketCount - currentCount < batchSize)
          <6>1. batchSize' = batchSize
            BY <1>1, <4>1, <4>2, <5>3 DEF CheckBatch
          <6> QED
            BY <4>1, <5>1, <6>1
        <5> QED
          BY <5>2, <5>3
      <4>3. CASE creator' # "batch"
        BY <1>1, <4>1, <4>3 DEF CheckBatch
      <4> QED
        BY <4>2, <4>3
    <3> QED
      BY <1>1, <3>1 DEF CheckBatch, TypeOK, CreationOK
  <2> QED
    BY <1>1, <1>r, <1>s, <1>m, <2>1 DEF CheckBatch, TypeOK
<1>2. CASE CreateInBatch
  <2>1. currentCount + i + 1 \in Ids
    BY <1>2, NextId DEF CreateInBatch
  <2>2. CreationOK'
    BY <1>2, <2>1, TryTypes DEF CreateInBatch
  <2> QED
    BY <1>2, <1>r, <1>s, <1>m, <2>2 DEF CreateInBatch, TypeOK
<1>3. CASE AppendInBatch
  <2>1. CreationOK'
    BY <1>3, AppendTypes DEF AppendInBatch, TypeOK, CreationOK
  <2>2. ReceivingOK'
    BY <1>3, AppendTypes DEF AppendInBatch, TypeOK, ReceivingOK
  <2> QED
    BY <1>3, <1>s, <1>m, <2>1, <2>2 DEF AppendInBatch, TypeOK
<1>4. CASE EndBatch
  <2>1. currentCount' \in 0 .. SocketCount
    BY <1>4, Numbers DEF EndBatch, TypeOK, CreationOK, Progress
  <2>2. CreationOK'
    BY <1>4, <2>1 DEF EndBatch, TypeOK, CreationOK
  <2> QED
    BY <1>4, <1>r, <1>s, <1>m, <2>2 DEF EndBatch, TypeOK
<1>5. CASE Pause
  <2>1. CreationOK'
    BY <1>5 DEF Pause, TypeOK, CreationOK
  <2> QED
    BY <1>5, <1>r, <1>s, <1>m, <2>1 DEF Pause, TypeOK
<1>6. CASE CreatorReturns
  <2>1. CreationOK'
    BY <1>6 DEF CreatorReturns, TypeOK, CreationOK
  <2>2. MainOK'
    BY <1>6 DEF CreatorReturns, TypeOK, MainOK
  <2> QED
    BY <1>6, <1>r, <1>s, <2>1, <2>2 DEF CreatorReturns, TypeOK
<1>7. ASSUME NEW s \in Ids, Receive(s) PROVE TypeOK'
  <2>1. ASSUME ReceiverReturns(s) PROVE TypeOK'
    <3>1. CreationOK'
      BY <2>1 DEF ReceiverReturns, UnchangedByReceiver, TypeOK, CreationOK
    <3>2. ReceivingOK'
      BY <2>1 DEF ReceiverReturns, TypeOK, ReceivingOK
    <3>3. MainOK'
      BY <2>1 DEF ReceiverReturns, UnchangedByReceiver, TypeOK, MainOK
    <3> QED
      BY <2>1, <1>s, <3>1, <3>2, <3>3 DEF ReceiverReturns, UnchangedByReceiver, TypeOK
  <2>2. ASSUME UnchangedByReceiver, UNCHANGED <<wg, creatorWg>>, ReceivingOK' PROVE TypeOK'
    <3>1. CreationOK'
      BY <2>2 DEF UnchangedByReceiver, TypeOK, CreationOK
    <3>2. MainOK'
      BY <2>2, <1>m DEF UnchangedByReceiver
    <3> QED
      BY <2>2, <1>s, <3>1, <3>2 DEF UnchangedByReceiver, TypeOK
  <2>3. CASE CheckStop(s)
    <3>1. CASE stopped /\ ReceiverReturns(s)
      BY <3>1, <2>1
    <3>2. CASE ~(stopped /\ ReceiverReturns(s))
      <4>1. ReceivingOK'
        BY <2>3, <3>2 DEF CheckStop, TypeOK, ReceivingOK
      <4> QED
        BY <2>3, <3>2, <2>2, <4>1 DEF CheckStop
    <3> QED
      BY <3>1, <3>2
  <2>4. CASE RecvFails(s)
    BY <2>1, <2>4 DEF RecvFails
  <2>5. CASE RecvNothing(s)
    <3>1. ReceivingOK'
      BY <2>5 DEF RecvNothing, TypeOK, ReceivingOK
    <3> QED
      BY <2>5, <2>2, <3>1 DEF RecvNothing
  <2>6. ASSUME NEW n \in FrameSizes, RecvPacket(s, n) PROVE TypeOK'
    <3>1. ReceivingOK'
      BY <2>6, Numbers DEF RecvPacket, TypeOK, ReceivingOK
    <3> QED
      BY <2>6, <2>2, <3>1 DEF RecvPacket
  <2>7. CASE Count(s)
    <3>1. ReceivingOK'
      BY <2>7 DEF Count, TypeOK, ReceivingOK
    <3> QED
      BY <2>7, <2>2, <3>1 DEF Count
  <2> QED
    BY <1>7, <2>3, <2>4, <2>5, <2>6, <2>7 DEF Receive
<1>8. ASSUME NEW w \in Workers, Send(w) PROVE TypeOK'
  <2>1. SendingOK'
    BY <1>8, Numbers DEF Send, WorkerReturns, TypeOK, SendingOK
  <2>2. MainOK'
    BY <1>8 DEF Send, WorkerReturns, TypeOK, MainOK
  <2> QED
    BY <1>8, <1>c, <1>r, <2>1, <2>2 DEF Send, TypeOK
<1>9. ASSUME NEW h \in Helpers, Help(h) PROVE TypeOK'
  <2>1. MainOK'
    BY <1>9 DEF Help, TypeOK, MainOK
  <2> QED
    BY <1>9, <1>c, <1>r, <1>s, <2>1 DEF Help, TypeOK
<1>10. CASE CreateInMain
  <2>1. i + 1 \in Ids
    BY <1>10, NextId DEF CreateInMain
  <2>2. CreationOK'
    BY <1>10, <2>1, TryTypes DEF CreateInMain
  <2> QED
    BY <1>10, <1>r, <1>s, <1>m, <2>2 DEF CreateInMain, TypeOK
<1>11. CASE AppendInMain
  <2>1. CreationOK'
    BY <1>11, AppendTypes DEF AppendInMain, TypeOK, CreationOK
  <2>2. ReceivingOK'
    BY <1>11, AppendTypes DEF AppendInMain, TypeOK, ReceivingOK
  <2>3. MainOK'
    BY <1>11, AppendTypes DEF AppendInMain, TypeOK, MainOK, Goroutines
  <2> QED
    BY <1>11, <1>s, <2>1, <2>2, <2>3 DEF AppendInMain, TypeOK
<1>12. CASE StartHelpers
  <2>1. MainOK'
    BY <1>12 DEF StartHelpers, TypeOK, MainOK, Goroutines
  <2> QED
    BY <1>12, <1>c, <1>r, <1>s, <2>1 DEF StartHelpers, TypeOK
<1>13. CASE Stop \/ Join \/ Exit
  <2>1. MainOK'
    BY <1>13 DEF Stop, Join, Exit, TypeOK, MainOK
  <2> QED
    BY <1>13, <1>c, <1>r, <1>s, <2>1 DEF Stop, Join, Exit, TypeOK
<1>14. CASE CloseSockets
  <2>1. CreationOK'
    BY <1>14 DEF CloseSockets, TypeOK, CreationOK
  <2>2. MainOK'
    BY <1>14 DEF CloseSockets, TypeOK, MainOK
  <2> QED
    BY <1>14, <1>r, <1>s, <2>1, <2>2 DEF CloseSockets, TypeOK
<1>15. CASE UNCHANGED vars
  BY <1>15, <1>c, <1>r, <1>s, <1>m DEF vars, TypeOK
<1> QED
  BY <1>1, <1>2, <1>3, <1>4, <1>5, <1>6, <1>7, <1>8, <1>9, <1>10, <1>11, <1>12, <1>13,
     <1>14, <1>15 DEF Next, Main, Creator, Exited

--------------------------------------------------------------------------------
(* The join.                                                               *)

LEMMA RegisteredInit == Init => Registered
  BY DEF Init, Registered, Creating, Go

\* Nobody is added or taken away but by the goroutine itself.
LEMMA ReceiverGone ==
  ASSUME NEW s \in Ids, TypeOK, Registered, ReceiverReturns(s)
  PROVE  Registered'
<1>1. UNCHANGED <<main, creator, worker, helper>>
  BY DEF ReceiverReturns, UnchangedByReceiver, sending
<1>2. \A g \in wg : g # <<"receiver", s>> => g \in wg'
  BY DEF ReceiverReturns, Go
<1>3. \A g \in creatorWg : g # <<"receiver", s>> => g \in creatorWg'
  BY DEF ReceiverReturns, Go
<1>4. /\ receiver'[s] = "ended"
      /\ \A t \in Ids \ {s} : receiver'[t] = receiver[t]
  BY DEF ReceiverReturns, TypeOK, ReceivingOK
<1>5. Creating' <=> Creating
  BY <1>1 DEF Creating
<1>6. /\ <<"creator", 0>> # <<"receiver", s>>
      /\ \A w \in Workers : <<"worker", w>> # <<"receiver", s>>
      /\ \A h \in Helpers : <<"helper", h>> # <<"receiver", s>>
      /\ \A t \in Ids \ {s} : <<"receiver", t>> # <<"receiver", s>>
  OBVIOUS
<1>7. ASSUME NEW t \in Ids, receiver'[t] \notin {"off", "ended"}
      PROVE <<"receiver", t>> \in wg' \/ (<<"receiver", t>> \in creatorWg' /\ Creating')
  <2>1. t # s /\ receiver[t] \notin {"off", "ended"}
    BY <1>4, <1>7
  <2> QED
    BY <1>2, <1>3, <1>5, <1>6, <2>1 DEF Registered
<1> QED
  BY <1>1, <1>2, <1>5, <1>6, <1>7 DEF Registered
LEMMA ReceiverKept ==
  ASSUME NEW s \in Ids, TypeOK, Registered, UnchangedByReceiver,
         UNCHANGED <<wg, creatorWg>>, receiver[s] \notin {"off", "ended"},
         NEW v, receiver' = [receiver EXCEPT ![s] = v]
  PROVE  Registered'
<1>1. UNCHANGED <<main, creator, worker, helper>>
  BY DEF UnchangedByReceiver, sending
<1>2. \A t \in Ids : receiver'[t] \notin {"off", "ended"} => receiver[t] \notin {"off", "ended"}
  BY DEF TypeOK, ReceivingOK
<1>3. Creating' <=> Creating
  BY <1>1 DEF Creating
<1> QED
  BY <1>1, <1>2, <1>3 DEF Registered

LEMMA RegisteredStep == TypeOK /\ Registered /\ [Next]_vars => Registered'
<1> SUFFICES ASSUME TypeOK, Registered, [Next]_vars PROVE Registered'
  OBVIOUS
<1> USE DEF Registered, Creating
\* A step that leaves the goroutines alone, or only moves the creator.
<1>k. ASSUME UNCHANGED <<main, wg, creatorWg, receiver, worker, helper>>,
             Creating' <=> Creating
      PROVE  Registered'
  BY <1>k
<1>1. CASE CheckBatch
  BY <1>1, <1>k DEF CheckBatch, receiving, sending
<1>2. CASE CreateInBatch
  BY <1>2, <1>k DEF CreateInBatch, receiving, sending
<1>3. CASE AppendInBatch
  <2>1. /\ UNCHANGED <<main, wg, creator, worker, helper>>
        /\ \A t \in Ids : t # fresh => receiver'[t] = receiver[t]
        /\ creatorWg \subseteq creatorWg' /\ <<"receiver", fresh>> \in creatorWg'
        /\ Creating'
    BY <1>3 DEF AppendInBatch, Append, sending, Go, TypeOK, ReceivingOK
  <2> QED
    BY <2>1
<1>4. CASE EndBatch
  BY <1>4, <1>k DEF EndBatch, receiving, sending
<1>5. CASE Pause
  BY <1>5, <1>k DEF Pause, receiving, sending
<1>6. CASE CreatorReturns
  <2>1. /\ UNCHANGED <<main, receiver, worker, helper>> /\ creatorWg = {} /\ ~Creating'
        /\ \A g \in wg : g # <<"creator", 0>> => g \in wg'
    BY <1>6 DEF CreatorReturns, receiving, sending, Go
  <2>2. /\ \A w \in Workers : <<"worker", w>> # <<"creator", 0>>
        /\ \A h \in Helpers : <<"helper", h>> # <<"creator", 0>>
        /\ \A s \in Ids : <<"receiver", s>> # <<"creator", 0>>
    OBVIOUS
  <2> QED
    BY <2>1, <2>2
<1>7. ASSUME NEW s \in Ids, Receive(s) PROVE Registered'
  <2> HIDE DEF Registered, Creating
  <2>1. CASE CheckStop(s)
    <3>1. CASE ReceiverReturns(s)
      BY <3>1, ReceiverGone
    <3>2. CASE ~ReceiverReturns(s)
      BY <2>1, <3>2, ReceiverKept DEF CheckStop
    <3> QED
      BY <3>1, <3>2
  <2>2. CASE RecvFails(s)
    BY <2>2, ReceiverGone DEF RecvFails
  <2>3. CASE RecvNothing(s)
    BY <2>3, ReceiverKept DEF RecvNothing
  <2>4. ASSUME NEW n \in FrameSizes, RecvPacket(s, n) PROVE Registered'
    BY <2>4, ReceiverKept DEF RecvPacket
  <2>5. CASE Count(s)
    <3>1. UnchangedByReceiver /\ UNCHANGED <<wg, creatorWg>>
      BY <2>5 DEF Count
    <3>2. receiver[s] \notin {"off", "ended"}
      BY <2>5 DEF Count
    <3>3. PICK v \in {"sockBytes", "packetsRecv", "bytesRecv", "check"} :
            receiver' = [receiver EXCEPT ![s] = v]
      BY <2>5 DEF Count
    <3> QED
      BY <3>1, <3>2, <3>3, ReceiverKept
  <2> QED
    BY <1>7, <2>1, <2>2, <2>3, <2>4, <2>5 DEF Receive
<1>8. ASSUME NEW w \in Workers, Send(w) PROVE Registered'
  <2>1. UNCHANGED <<main, creator, creatorWg, receiver, helper>>
    BY <1>8 DEF Send, creation, receiving
  <2>2. /\ \A v \in Workers : v # w => worker'[v] = worker[v]
        /\ \A g \in wg : g # <<"worker", w>> => g \in wg'
        /\ worker'[w] # "ended" => worker[w] # "ended" /\ wg' = wg
    BY <1>8 DEF Send, WorkerReturns, TypeOK, SendingOK, Go
  <2>3. /\ \A v \in Workers : v # w => <<"worker", v>> # <<"worker", w>>
        /\ \A h \in Helpers : <<"helper", h>> # <<"worker", w>>
        /\ \A s \in Ids : <<"receiver", s>> # <<"worker", w>>
        /\ <<"creator", 0>> # <<"worker", w>>
    OBVIOUS
  <2> QED
    BY <2>1, <2>2, <2>3
<1>9. ASSUME NEW h \in Helpers, Help(h) PROVE Registered'
  <2>1. UNCHANGED <<main, creator, creatorWg, receiver, worker>>
    BY <1>9 DEF Help, creation, receiving, sending
  <2>2. /\ \A k \in Helpers : k # h => helper'[k] = helper[k]
        /\ \A g \in wg : g # <<"helper", h>> => g \in wg'
        /\ helper[h] # "off" /\ helper'[h] # "off"
        /\ helper'[h] # "ended" => helper[h] # "ended" /\ wg' = wg
    BY <1>9 DEF Help, TypeOK, MainOK, Go
  <2>3. /\ \A w \in Workers : <<"worker", w>> # <<"helper", h>>
        /\ \A k \in Helpers : k # h => <<"helper", k>> # <<"helper", h>>
        /\ \A s \in Ids : <<"receiver", s>> # <<"helper", h>>
        /\ <<"creator", 0>> # <<"helper", h>>
    OBVIOUS
  <2> QED
    BY <2>1, <2>2, <2>3
<1>10. CASE CreateInMain
  BY <1>10, <1>k DEF CreateInMain, receiving, sending
<1>11. CASE AppendInMain
  <2>1. /\ UNCHANGED <<main, creator, creatorWg, worker, helper>>
        /\ \A t \in Ids : t # fresh => receiver'[t] = receiver[t]
        /\ wg \subseteq wg' /\ <<"receiver", fresh>> \in wg'
    BY <1>11 DEF AppendInMain, Append, sending, Go, TypeOK, ReceivingOK
  <2> QED
    BY <2>1
<1>12. CASE StartHelpers
  <2>1. /\ UNCHANGED <<creator, creatorWg, receiver, worker>>
        /\ wg \subseteq wg' /\ \A h \in Helpers : <<"helper", h>> \in wg' /\ helper'[h] = "wait"
    BY <1>12 DEF StartHelpers, creation, receiving, sending, Go
  <2> QED
    BY <2>1
<1>13. CASE Stop \/ CloseSockets \/ Join \/ Exit
  <2>1. UNCHANGED <<wg, creator, creatorWg, receiver, worker, helper>> /\ main # "creating"
    BY <1>13 DEF Stop, CloseSockets, Join, Exit, creation, receiving, sending
  <2> QED
    BY <2>1
<1>14. CASE UNCHANGED vars
  BY <1>14, <1>k DEF vars, creation, receiving, sending
<1> QED
  BY <1>1, <1>2, <1>3, <1>4, <1>5, <1>6, <1>7, <1>8, <1>9, <1>10, <1>11, <1>12, <1>13,
     <1>14 DEF Next, Main, Creator, Exited

LEMMA ProgressInit == Init => Progress /\ Lateness
<1> SUFFICES ASSUME Init PROVE Progress /\ Lateness
  OBVIOUS
<1>1. fresh = 0 /\ i = 0 /\ late = 0 /\ stopped = FALSE
      /\ (main = "creating" => creator = "off") /\ creator \in {"check", "off"}
  BY DEF Init
<1>2. 0 <= SocketCount /\ 0 <= SocketBatch /\ creator # "batch"
  BY <1>1, Numbers
<1>3. Progress
  BY <1>1, <1>2 DEF Progress
<1>4. Lateness
  BY <1>1, <1>2 DEF Lateness
<1> QED
  BY <1>3, <1>4

LEMMA ProgressStep ==
  TypeOK /\ Progress /\ Lateness /\ [Next]_vars => Progress' /\ Lateness'
<1> SUFFICES ASSUME TypeOK, Progress, Lateness, [Next]_vars
             PROVE  Progress' /\ Lateness'
  OBVIOUS
<1>t. /\ SocketCount \in Nat /\ SocketBatch \in Nat /\ i \in Nat /\ late \in Nat
      /\ currentCount \in Nat /\ currentCount <= SocketCount
      /\ batchSize \in Nat /\ 1 <= batchSize /\ batchSize <= SocketBatch
  <2>1. /\ currentCount \in 0 .. SocketCount /\ batchSize \in 1 .. SocketBatch
        /\ i \in Nat /\ late \in Nat
    BY DEF TypeOK, CreationOK
  <2> QED
    BY <2>1, Numbers
<1>u. 0 \notin Ids
  BY DEF Ids
\* A step that creates nothing.
<1>k. ASSUME UNCHANGED <<creator, currentCount, batchSize, i, fresh, late>>,
             main' = "creating" => main = "creating" /\ stopped' = stopped,
             main = "creating" /\ main' # "creating" => fresh = 0,
             stopped => stopped'
      PROVE  Progress' /\ Lateness'
  <2>1. /\ creator' = creator /\ currentCount' = currentCount /\ batchSize' = batchSize
        /\ i' = i /\ fresh' = fresh /\ late' = late
    BY <1>k
  <2>2. main' = "creating" => main = "creating" /\ ~stopped'
    BY <1>k DEF Progress
  <2>3. main' # "creating" /\ creator' # "batch" => fresh' = 0
    BY <1>k, <2>1 DEF Progress
  <2>4. Progress'
    BY <2>1, <2>2, <2>3 DEF Progress
  <2>5. Lateness'
    BY <1>k, <2>1 DEF Lateness
  <2> QED
    BY <2>4, <2>5
<1>1. CASE CheckBatch
  <2>1. /\ UNCHANGED <<main, stopped, currentCount, fresh, late>> /\ creator = "check"
        /\ creator' \in {"all created", "wait", "batch"}
        /\ creator' = "batch" => ~stopped /\ i' = 0
    BY <1>1 DEF CheckBatch
  <2>2. creator' = "batch" => batchSize' <= SocketCount - currentCount /\ 0 <= batchSize'
    BY <1>1, <1>t DEF CheckBatch
  <2>3. Progress'
    BY <2>1, <2>2 DEF Progress
  <2>4. late' <= SocketBatch /\ (~stopped' => late' = 0)
    BY <2>1 DEF Lateness
  <2>5. creator' = "batch" => late' = 0 /\ i' = 0
    BY <2>1 DEF Lateness
  <2>6. creator' = "batch" => late' <= i'
    BY <2>5
  <2>7. Lateness'
    BY <2>4, <2>6 DEF Lateness
  <2> QED
    BY <2>3, <2>7
<1>2. CASE CreateInBatch
  <2>1. /\ UNCHANGED <<main, stopped, creator, currentCount, batchSize>>
        /\ creator = "batch" /\ fresh = 0 /\ i < batchSize
        /\ late' = (IF stopped THEN late + 1 ELSE late)
        /\ \/ i' = i + 1 /\ fresh' = fresh
           \/ i' = i /\ fresh' # 0
    BY <1>2, <1>u, NextId DEF CreateInBatch, Try
  <2>2. main # "creating"
    BY <2>1 DEF Progress
  <2>3. Progress'
    BY <2>1, <2>2, <1>t DEF Progress
  <2>4. late <= i /\ (~stopped => late = 0)
    BY <2>1 DEF Lateness
  <2>5. late' <= SocketBatch /\ (~stopped' => late' = 0)
    BY <2>1, <2>4, <1>t
  <2>6. late' <= i' \/ (fresh' # 0 /\ late' <= i' + 1)
    BY <2>1, <2>4, <1>t
  <2> QED
    BY <2>3, <2>5, <2>6 DEF Lateness
<1>3. CASE AppendInBatch
  <2>1. /\ UNCHANGED <<main, stopped, creator, currentCount, batchSize, late>>
        /\ creator = "batch" /\ fresh # 0 /\ fresh' = 0 /\ i' = i + 1
    BY <1>3 DEF AppendInBatch, Append
  <2>2. main # "creating"
    BY <2>1 DEF Progress
  <2>3. Progress'
    BY <2>1, <2>2, <1>t DEF Progress
  <2>4. Lateness'
    BY <2>1, <1>t DEF Lateness
  <2> QED
    BY <2>3, <2>4
<1>4. CASE EndBatch
  <2>1. UNCHANGED <<main, stopped, fresh, i, late>> /\ creator = "batch"
        /\ fresh = 0 /\ creator' = "pause"
    BY <1>4 DEF EndBatch
  <2> QED
    BY <2>1 DEF Progress, Lateness
<1>5. CASE Pause \/ CreatorReturns
  <2>1. UNCHANGED <<main, stopped, fresh, i, late>> /\ creator \notin {"off", "batch"}
        /\ creator' \in {"wait", "check", "ended"}
    BY <1>5 DEF Pause, CreatorReturns
  <2> QED
    BY <2>1 DEF Progress, Lateness
<1>6. CASE (\E s \in Ids : Receive(s)) \/ (\E w \in Workers : Send(w))
             \/ (\E h \in Helpers : Help(h)) \/ UNCHANGED vars
  <2>1. UNCHANGED <<main, stopped, creator, currentCount, batchSize, i, fresh, late>>
    BY <1>6 DEF Receive, CheckStop, RecvFails, RecvNothing, RecvPacket, Count,
       ReceiverReturns, UnchangedByReceiver, Send, Help, creation, vars
  <2> QED
    BY <1>k, <2>1
<1>7. CASE CreateInMain
  <2>1. /\ UNCHANGED <<main, stopped, creator, currentCount, batchSize>>
        /\ main = "creating" /\ fresh = 0 /\ i < SocketCount
        /\ late' = (IF stopped THEN late + 1 ELSE late)
        /\ \/ i' = i + 1 /\ fresh' = fresh
           \/ i' = i /\ fresh' # 0
    BY <1>7, <1>u, NextId DEF CreateInMain, Try
  <2>2. creator = "off" /\ ~stopped
    BY <2>1 DEF Progress
  <2>3. Progress'
    BY <2>1, <2>2, <1>t DEF Progress
  <2>4. Lateness'
    BY <2>1, <2>2 DEF Lateness
  <2> QED
    BY <2>3, <2>4
<1>8. CASE AppendInMain
  <2>1. /\ UNCHANGED <<main, stopped, creator, currentCount, batchSize, late>>
        /\ main = "creating" /\ fresh # 0 /\ fresh' = 0 /\ i' = i + 1
    BY <1>8 DEF AppendInMain, Append
  <2>2. creator = "off" /\ ~stopped
    BY <2>1 DEF Progress
  <2>3. Progress'
    BY <2>1, <2>2, <1>t DEF Progress
  <2>4. Lateness'
    BY <2>1, <2>2 DEF Lateness
  <2> QED
    BY <2>3, <2>4
<1>9. CASE StartHelpers \/ Stop \/ CloseSockets \/ Join \/ Exit
  <2>1. /\ UNCHANGED <<creator, currentCount, batchSize, i, fresh, late>>
        /\ main' # "creating" /\ (main = "creating" => fresh = 0)
    BY <1>9 DEF StartHelpers, Stop, CloseSockets, Join, Exit, creation
  <2>2. stopped' = TRUE \/ stopped' = stopped
    BY <1>9 DEF StartHelpers, Stop, CloseSockets, Join, Exit
  <2> QED
    BY <1>k, <2>1, <2>2
<1> QED
  BY <1>1, <1>2, <1>3, <1>4, <1>5, <1>6, <1>7, <1>8, <1>9
     DEF Next, Main, Creator, Exited

--------------------------------------------------------------------------------
(* After the join nobody registers.                                        *)

Empty == main = "joined" => wg = {}

LEMMA EmptyStep == Empty /\ [Next]_vars => Empty'
<1> SUFFICES ASSUME Empty, [Next]_vars, main' = "joined" PROVE wg' = {}
  BY DEF Empty
<1>k. ASSUME main' = main, wg' \subseteq wg PROVE wg' = {}
  BY <1>k DEF Empty
<1>1. CASE Creator
  <2>1. main' = main /\ wg' \subseteq wg
    BY <1>1 DEF Creator, CheckBatch, CreateInBatch, AppendInBatch, EndBatch, Pause,
       CreatorReturns
  <2> QED
    BY <2>1, <1>k
<1>2. ASSUME NEW s \in Ids, Receive(s) PROVE wg' = {}
  <2>1. main' = main /\ wg' \subseteq wg
    BY <1>2 DEF Receive, CheckStop, RecvFails, RecvNothing, RecvPacket, Count,
       ReceiverReturns, UnchangedByReceiver
  <2> QED
    BY <2>1, <1>k
<1>3. ASSUME NEW w \in Workers, Send(w) PROVE wg' = {}
  <2>1. main' = main /\ wg' \subseteq wg
    BY <1>3 DEF Send, WorkerReturns
  <2> QED
    BY <2>1, <1>k
<1>4. ASSUME NEW h \in Helpers, Help(h) PROVE wg' = {}
  <2>1. main' = main /\ wg' \subseteq wg
    BY <1>4 DEF Help
  <2> QED
    BY <2>1, <1>k
<1>5. CASE Main
  <2>1. CASE Join
    BY <2>1 DEF Join
  <2>2. CASE ~Join
    BY <1>5, <2>2 DEF Main, CreateInMain, AppendInMain, StartHelpers, Stop, CloseSockets,
       Exit
  <2> QED
    BY <2>1, <2>2
<1>6. CASE UNCHANGED vars
  BY <1>6, <1>k DEF vars
<1> QED
  BY <1>1, <1>2, <1>3, <1>4, <1>5, <1>6 DEF Next, Exited

--------------------------------------------------------------------------------
(* The theorems.                                                           *)

Inv == TypeOK /\ Progress /\ Lateness /\ Registered

LEMMA InvHolds == Spec => []Inv
<1>1. Init => Inv
  BY TypeInit, ProgressInit, RegisteredInit DEF Inv
<1>2. Inv /\ [Next]_vars => Inv'
  BY TypeStep, ProgressStep, RegisteredStep DEF Inv
<1> QED
  BY <1>1, <1>2, PTL DEF Spec

\* Every variable keeps its range: the creator never asks for a socket that is
\* not one of those configured, whatever the batches are cut to.
THEOREM TypeCorrect == Spec => []TypeOK
<1>1. Inv => TypeOK
  BY DEF Inv
<1> QED
  BY <1>1, InvHolds, PTL

\* No socket is created after the stop but those of the batch in progress.
THEOREM LateBounded == Spec => []AtMostOneBatchLate
<1>1. Inv => AtMostOneBatchLate
  BY DEF Inv, Lateness, AtMostOneBatchLate
<1> QED
  BY <1>1, InvHolds, PTL

\* When main has joined the goroutines none is left, in either mode: nobody is
\* registered any more, and whoever has not ended would be.
THEOREM JoinComplete == Spec => []JoinIsComplete
<1>1. Inv /\ Empty => JoinIsComplete
  <2> SUFFICES ASSUME Inv, wg = {}, main = "joined" PROVE JoinIsComplete
    BY DEF Empty, JoinIsComplete
  <2>1. Registered
    BY DEF Inv
  <2>2. ~Creating
    BY <2>1 DEF Registered
  <2>3. \A s \in Ids : receiver[s] \in {"off", "ended"}
    BY <2>1, <2>2 DEF Registered
  <2>4. \A w \in Workers : worker[w] = "ended"
    BY <2>1 DEF Registered
  <2>5. \A h \in Helpers : helper[h] = "ended"
    BY <2>1 DEF Registered
  <2> QED
    BY <2>2, <2>3, <2>4, <2>5 DEF Creating, JoinIsComplete
<1>2. Init => Empty
  BY DEF Init, Empty
<1>3. Inv /\ Empty /\ [Next]_vars => Empty'
  BY EmptyStep
<1> QED
  BY <1>1, <1>2, <1>3, InvHolds, PTL DEF Spec

--------------------------------------------------------------------------------
(* The creation of the sockets.                                            *)

\* The ids asked for are the first ones, without a gap; the socket in hand is
\* the last of them, and not in the slice yet.
Asked ==
  /\ creator \notin {"off", "batch"} =>
       tried = 1 .. currentCount /\ sockets \subseteq 1 .. currentCount
  /\ creator = "batch" =>
       /\ sockets \subseteq 1 .. (currentCount + i)
       /\ fresh = 0 => tried = 1 .. (currentCount + i)
       /\ fresh # 0 => fresh = currentCount + i + 1 /\ tried = 1 .. fresh
  /\ creator = "all created" => currentCount = SocketCount
  /\ creator # "off" => IsFiniteSet(sockets) /\ activeSockets = Cardinality(sockets)

LEMMA AskedInit == Init => Asked
<1> SUFFICES ASSUME Init PROVE Asked
  OBVIOUS
<1>1. /\ creator \in {"off", "check"} /\ currentCount = 0 /\ tried = {} /\ sockets = {}
      /\ activeSockets = 0
  BY DEF Init
<1>2. 1 .. 0 = {}
  OBVIOUS
<1>3. IsFiniteSet({}) /\ Cardinality({}) = 0
  BY FS_EmptySet
<1> QED
  BY <1>1, <1>2, <1>3 DEF Asked

LEMMA OneLonger == \A n \in Nat : (1 .. n) \cup {n + 1} = 1 .. (n + 1)
OBVIOUS

LEMMA AskedStep == TypeOK /\ Progress /\ Asked /\ [Next]_vars => Asked'
<1> SUFFICES ASSUME TypeOK, Progress, Asked, [Next]_vars PROVE Asked'
  OBVIOUS
<1>1. /\ SocketCount \in Nat /\ i \in Nat /\ currentCount \in Nat
      /\ currentCount <= SocketCount /\ batchSize \in Nat
      /\ fresh \in Nat /\ activeSockets \in Nat
  <2>1. /\ currentCount \in 0 .. SocketCount /\ batchSize \in 1 .. SocketBatch
        /\ i \in Nat /\ fresh \in Ids \cup {0} /\ activeSockets \in Nat
    BY DEF TypeOK, CreationOK
  <2> QED
    BY <2>1, Numbers DEF Ids
\* A step that moves the creator outside a batch, or nothing of it.
<1>2. ASSUME UNCHANGED <<currentCount, i, fresh, sockets, activeSockets, tried>>,
             \/ creator' = creator
             \/ /\ creator \notin {"off", "batch"}
                /\ creator' \notin {"off", "batch", "all created"}
      PROVE  Asked'
  BY <1>2 DEF Asked
<1>3. CASE CheckBatch
  <2>1. /\ UNCHANGED <<currentCount, fresh, sockets, activeSockets, tried>>
        /\ creator = "check" /\ creator' \in {"all created", "wait", "batch"}
        /\ creator' = "all created" => currentCount >= SocketCount
        /\ creator' = "batch" => i' = 0
    BY <1>3 DEF CheckBatch
  <2>2. /\ tried = 1 .. currentCount /\ sockets \subseteq 1 .. currentCount
        /\ IsFiniteSet(sockets) /\ activeSockets = Cardinality(sockets)
    BY <2>1 DEF Asked
  <2>3. creator' = "batch" => fresh = 0 /\ currentCount + i' = currentCount
    <3>1. main # "creating" /\ fresh = 0
      BY <2>1 DEF Progress
    <3> QED
      BY <1>1, <2>1, <3>1
  <2>4. ASSUME creator' = "all created" PROVE currentCount = SocketCount
    <3>1. currentCount >= SocketCount
      BY <2>1, <2>4
    <3> QED
      BY <1>1, <3>1
  <2> QED
    BY <2>1, <2>2, <2>3, <2>4 DEF Asked
<1>4. CASE CreateInBatch
  <2>1. /\ UNCHANGED <<creator, currentCount, sockets, activeSockets>>
        /\ creator = "batch" /\ fresh = 0
        /\ tried' = tried \cup {currentCount + i + 1}
        /\ \/ i' = i + 1 /\ fresh' = 0
           \/ i' = i /\ fresh' = currentCount + i + 1
    BY <1>4 DEF CreateInBatch, Try
  <2>2. /\ tried = 1 .. (currentCount + i) /\ sockets \subseteq 1 .. (currentCount + i)
        /\ IsFiniteSet(sockets) /\ activeSockets = Cardinality(sockets)
    BY <2>1 DEF Asked
  <2>3. tried' = 1 .. (currentCount + i + 1)
    BY <1>1, <2>1, <2>2, OneLonger
  <2>4. CASE i' = i + 1 /\ fresh' = 0
    <3>1. currentCount' + i' = currentCount + i + 1
      BY <1>1, <2>1, <2>4
    <3>2. sockets' \subseteq 1 .. (currentCount' + i')
      BY <1>1, <2>1, <2>2, <3>1
    <3> QED
      BY <2>1, <2>2, <2>3, <2>4, <3>1, <3>2 DEF Asked
  <2>5. CASE i' = i /\ fresh' = currentCount + i + 1
    <3>1. fresh' # 0
      BY <1>1, <2>5
    <3> QED
      BY <2>1, <2>2, <2>3, <2>5, <3>1 DEF Asked
  <2> QED
    BY <2>1, <2>4, <2>5
<1>5. CASE AppendInBatch
  <2>1. /\ UNCHANGED <<creator, currentCount, tried>> /\ creator = "batch" /\ fresh # 0
        /\ sockets' = sockets \cup {fresh} /\ activeSockets' = activeSockets + 1
        /\ fresh' = 0 /\ i' = i + 1
    BY <1>5 DEF AppendInBatch, Append
  <2>2. /\ sockets \subseteq 1 .. (currentCount + i)
        /\ fresh = currentCount + i + 1 /\ tried = 1 .. fresh
        /\ IsFiniteSet(sockets) /\ activeSockets = Cardinality(sockets)
    BY <2>1 DEF Asked
  <2>3. currentCount + i' = fresh
    BY <1>1, <2>1, <2>2
  <2>4. fresh \notin sockets
    BY <1>1, <2>2
  <2>5. IsFiniteSet(sockets') /\ activeSockets' = Cardinality(sockets')
    BY <2>1, <2>2, <2>4, FS_AddElement
  <2>6. sockets' \subseteq 1 .. fresh
    BY <1>1, <2>1, <2>2
  <2> QED
    BY <2>1, <2>2, <2>3, <2>5, <2>6 DEF Asked
<1>6. CASE EndBatch
  <2>1. /\ UNCHANGED <<sockets, activeSockets, tried>> /\ creator = "batch" /\ fresh = 0
        /\ creator' = "pause" /\ i = batchSize /\ currentCount' = currentCount + batchSize
    BY <1>6 DEF EndBatch
  <2>2. currentCount' = currentCount + i
    BY <2>1
  <2> QED
    BY <2>1, <2>2 DEF Asked
<1>7. CASE Pause \/ CreatorReturns
  <2>1. /\ UNCHANGED <<currentCount, i, fresh, sockets, activeSockets, tried>>
        /\ creator \notin {"off", "batch"}
        /\ creator' \notin {"off", "batch", "all created"}
    BY <1>7 DEF Pause, CreatorReturns
  <2> QED
    BY <1>2, <2>1
<1>8. CASE CreateInMain \/ AppendInMain
  <2>1. creator = "off" /\ creator' = creator
    BY <1>8 DEF CreateInMain, AppendInMain, Progress
  <2> QED
    BY <2>1 DEF Asked
<1>9. CASE \/ \E s \in Ids : Receive(s)
           \/ \E w \in Workers : Send(w)
           \/ \E h \in Helpers : Help(h)
           \/ StartHelpers \/ Stop \/ CloseSockets \/ Join \/ Exit \/ UNCHANGED vars
  <2>1. UNCHANGED <<creator, currentCount, i, fresh, sockets, activeSockets, tried>>
    BY <1>9 DEF Receive, CheckStop, RecvFails, RecvNothing, RecvPacket, Count,
       ReceiverReturns, UnchangedByReceiver, Send, Help, StartHelpers, Stop, CloseSockets,
       Join, Exit, creation, vars
  <2> QED
    BY <1>2, <2>1
<1> QED
  BY <1>3, <1>4, <1>5, <1>6, <1>7, <1>8, <1>9 DEF Next, Main, Creator, Exited

\* A creator that ends its loop has asked for every socket, however many there
\* are and whatever the batch, and counts as active all it has got.
THEOREM AllTried == Spec => []EverySocketTried
<1>1. Asked => EverySocketTried
  BY DEF Asked, EverySocketTried, Ids
<1>2. Inv /\ Asked /\ [Next]_vars => Asked'
  BY AskedStep DEF Inv
<1> QED
  BY <1>1, <1>2, AskedInit, InvHolds, PTL DEF Spec

--------------------------------------------------------------------------------
(* What main leaves open.                                                  *)

\* Until main closes the slice what is open is in it or in hand; from then on
\* it belongs to one batch, the one the creator is in if it is in any.
Closing == {"waiting", "joined", "gave up", "exited"}

OneBatch(b) ==
  /\ open \subseteq (b + 1) .. (b + SocketBatch)
  /\ creator = "batch" => b = currentCount

Opened ==
  /\ main \in Closing \cup {"stopping"} => stopped
  /\ main \notin Closing => open \subseteq sockets \cup {fresh}
  /\ main \in Closing => \E b \in Nat : OneBatch(b)

LEMMA OpenedInit == Init => Opened
BY DEF Init, Opened, Closing

LEMMA OpenedStep == TypeOK /\ Progress /\ Asked /\ Opened /\ [Next]_vars => Opened'
<1> SUFFICES ASSUME TypeOK, Progress, Asked, Opened, [Next]_vars PROVE Opened'
  OBVIOUS
<1>1. /\ SocketCount \in Nat /\ SocketBatch \in Nat /\ i \in Nat /\ currentCount \in Nat
      /\ batchSize \in Nat /\ batchSize <= SocketBatch /\ open \subseteq Ids /\ 0 \notin Ids
  <2>1. /\ currentCount \in 0 .. SocketCount /\ batchSize \in 1 .. SocketBatch
        /\ i \in Nat /\ open \subseteq Ids
    BY DEF TypeOK, CreationOK
  <2> QED
    BY <2>1, Numbers DEF Ids
\* A step that opens and closes nothing.
<1>2. ASSUME UNCHANGED <<stopped, sockets, fresh, open>>,
             main' \in Closing => main \in Closing,
             main' = "stopping" => main = "stopping",
             main \in Closing => main' \in Closing,
             creator' = "batch" => \/ creator = "batch" /\ currentCount' = currentCount
                                   \/ ~stopped
      PROVE  Opened'
  <2>1. main' \in Closing \cup {"stopping"} => stopped'
    BY <1>2 DEF Opened
  <2>2. main' \notin Closing => open' \subseteq sockets' \cup {fresh'}
    BY <1>2 DEF Opened
  <2>3. ASSUME main' \in Closing PROVE \E b \in Nat : OneBatch(b)'
    <3>1. main \in Closing /\ stopped
      BY <1>2, <2>3 DEF Opened
    <3>2. PICK b \in Nat : OneBatch(b)
      BY <3>1 DEF Opened
    <3>3. OneBatch(b)'
      BY <1>2, <3>1, <3>2 DEF OneBatch
    <3> QED
      BY <3>3
  <2> QED
    BY <2>1, <2>2, <2>3 DEF Opened
<1>3. CASE CheckBatch
  <2>1. /\ UNCHANGED <<main, stopped, sockets, fresh, open>>
        /\ creator' = "batch" => ~stopped
    BY <1>3 DEF CheckBatch
  <2> QED
    BY <1>2, <2>1
<1>4. CASE CreateInBatch
  <2>1. /\ UNCHANGED <<main, stopped, creator, currentCount, sockets>> /\ fresh = 0
        /\ creator = "batch" /\ i < batchSize
        /\ \/ open' = open /\ fresh' = fresh
           \/ fresh' = currentCount + i + 1 /\ open' = open \cup {fresh'}
    BY <1>4 DEF CreateInBatch, Try
  <2>2. main \notin Closing => open' \subseteq sockets' \cup {fresh'}
    BY <1>1, <2>1 DEF Opened
  <2>3. ASSUME main \in Closing PROVE \E b \in Nat : OneBatch(b)'
    <3>1. PICK b \in Nat : OneBatch(b)
      BY <2>3 DEF Opened
    <3>2. b = currentCount
      BY <2>1, <3>1 DEF OneBatch
    <3>3. currentCount + i + 1 \in (b + 1) .. (b + SocketBatch)
      BY <1>1, <2>1, <3>2
    <3>4. open' \subseteq (b + 1) .. (b + SocketBatch)
      BY <2>1, <3>1, <3>3 DEF OneBatch
    <3>5. OneBatch(b)'
      BY <2>1, <3>2, <3>4 DEF OneBatch
    <3> QED
      BY <3>5
  <2> QED
    BY <2>1, <2>2, <2>3 DEF Opened
<1>5. CASE AppendInBatch \/ AppendInMain
  <2>1. /\ UNCHANGED <<main, stopped, creator, currentCount, open>>
        /\ sockets' = sockets \cup {fresh}
    BY <1>5 DEF AppendInBatch, AppendInMain, Append
  <2>2. main \notin Closing => open' \subseteq sockets' \cup {fresh'}
    BY <2>1 DEF Opened
  <2>3. ASSUME main \in Closing PROVE \E b \in Nat : OneBatch(b)'
    <3>1. PICK b \in Nat : OneBatch(b)
      BY <2>3 DEF Opened
    <3>2. OneBatch(b)'
      BY <2>1, <3>1 DEF OneBatch
    <3> QED
      BY <3>2
  <2> QED
    BY <2>1, <2>2, <2>3 DEF Opened
<1>6. CASE CreateInMain
  <2>1. /\ UNCHANGED <<main, stopped, sockets>> /\ main = "creating" /\ fresh = 0
        /\ \/ open' = open /\ fresh' = fresh
           \/ open' = open \cup {fresh'}
    BY <1>6 DEF CreateInMain, Try
  <2>2. open \subseteq sockets \cup {0}
    BY <2>1 DEF Opened, Closing
  <2>3. open' \subseteq sockets' \cup {fresh'}
    BY <1>1, <2>1, <2>2
  <2> QED
    BY <2>1, <2>3 DEF Opened, Closing
<1>7. CASE CloseSockets
  <2>1. /\ UNCHANGED <<stopped, creator, currentCount, i, fresh, sockets>>
        /\ main = "stopping" /\ main' = "waiting" /\ open' = open \ sockets
    BY <1>7 DEF CloseSockets
  <2>2. stopped /\ open' \subseteq {fresh}
    BY <2>1 DEF Opened, Closing
  <2>3. CASE creator = "batch" /\ fresh # 0
    <3>1. fresh = currentCount + i + 1 /\ i < batchSize
      BY <2>3 DEF Asked, Progress
    <3>2. fresh \in (currentCount + 1) .. (currentCount + SocketBatch)
      BY <1>1, <3>1
    <3>3. OneBatch(currentCount)'
      BY <2>1, <2>2, <3>2 DEF OneBatch
    <3> QED
      BY <1>1, <2>1, <2>2, <3>3 DEF Opened, Closing
  <2>4. CASE ~(creator = "batch" /\ fresh # 0)
    <3>1. fresh = 0
      BY <2>1, <2>4 DEF Progress
    <3>2. open' = {}
      BY <1>1, <2>1, <2>2, <3>1
    <3>3. OneBatch(currentCount)'
      BY <2>1, <3>2 DEF OneBatch
    <3> QED
      BY <1>1, <2>1, <2>2, <3>3 DEF Opened, Closing
  <2> QED
    BY <2>3, <2>4
<1>8. CASE Stop
  <2>1. /\ UNCHANGED <<sockets, fresh, open>> /\ main = "running" /\ main' = "stopping"
        /\ stopped'
    BY <1>8 DEF Stop, creation
  <2> QED
    BY <2>1 DEF Opened, Closing
<1>9. CASE \/ EndBatch \/ Pause \/ CreatorReturns \/ StartHelpers \/ Join \/ Exit
           \/ \E s \in Ids : Receive(s)
           \/ \E w \in Workers : Send(w)
           \/ \E h \in Helpers : Help(h)
           \/ UNCHANGED vars
  <2>1. UNCHANGED <<stopped, sockets, fresh, open>>
    BY <1>9 DEF EndBatch, Pause, CreatorReturns, StartHelpers, Join, Exit, Receive, CheckStop,
       RecvFails, RecvNothing, RecvPacket, Count, ReceiverReturns, UnchangedByReceiver, Send,
       Help, creation, vars
  <2>2. creator' = "batch" => creator = "batch" /\ currentCount' = currentCount
    BY <1>9 DEF EndBatch, Pause, CreatorReturns, StartHelpers, Join, Exit, Receive, CheckStop,
       RecvFails, RecvNothing, RecvPacket, Count, ReceiverReturns, UnchangedByReceiver, Send,
       Help, creation, vars
  <2>3. \/ main' = main
        \/ main = "creating" /\ main' = "running"
        \/ main \in Closing /\ main' \in Closing
    BY <1>9 DEF EndBatch, Pause, CreatorReturns, StartHelpers, Join, Exit, Receive, CheckStop,
       RecvFails, RecvNothing, RecvPacket, Count, ReceiverReturns, UnchangedByReceiver, Send,
       Help, creation, vars, Closing
  <2>4. /\ main' \in Closing => main \in Closing
        /\ main \in Closing => main' \in Closing
        /\ main' = "stopping" => main = "stopping"
    BY <2>3 DEF Closing
  <2> QED
    BY <1>2, <2>1, <2>2, <2>4
<1> QED
  BY <1>3, <1>4, <1>5, <1>6, <1>7, <1>8, <1>9 DEF Next, Main, Creator, Exited

\* However the creator and main interleave, what stays open after the join is
\* no more than a batch.
THEOREM LeakBounded == Spec => []LeakIsOneBatch
<1>1. Opened => LeakIsOneBatch
  <2> SUFFICES ASSUME Opened, main = "joined" PROVE Cardinality(open) <= SocketBatch
    BY DEF LeakIsOneBatch
  <2>1. PICK b \in Nat : OneBatch(b)
    BY DEF Opened, Closing
  <2>. DEFINE batch == (b + 1) .. (b + SocketBatch)
  <2>2. b + 1 \in Int /\ b + SocketBatch \in Int /\ SocketBatch \in Nat /\ SocketBatch >= 1
    BY Numbers
  <2>3. IsFiniteSet(batch) /\ Cardinality(batch) = SocketBatch
    <3>1. /\ IsFiniteSet(batch)
          /\ Cardinality(batch) = IF b + 1 > b + SocketBatch THEN 0
                                  ELSE (b + SocketBatch) - (b + 1) + 1
      BY <2>2, FS_Interval
    <3>2. ~(b + 1 > b + SocketBatch) /\ (b + SocketBatch) - (b + 1) + 1 = SocketBatch
      BY <2>2
    <3> QED
      BY <3>1, <3>2
  <2>4. open \in SUBSET batch
    BY <2>1 DEF OneBatch
  <2> QED
    BY <2>3, <2>4, FS_Subset
<1>2. Inv /\ Asked /\ Opened /\ [Next]_vars => Asked' /\ Opened'
  BY AskedStep, OpenedStep DEF Inv
<1> QED
  BY <1>1, <1>2, AskedInit, OpenedInit, InvHolds, PTL DEF Spec
--------------------------------------------------------------------------------
(* The counters.  A packet between the adds of its receiver is the only    *)
(* one that the counters of its socket and everybody's disagree about, and *)
(* a socket gets a receiver only once, so none of them is forgotten there. *)

OneReceiver ==
  /\ \A s \in Ids : receiver[s] # "off" => s \in sockets
  /\ main = "creating" => sockets \subseteq 1 .. i /\ (fresh # 0 => fresh = i + 1)

\* Counted by the socket and not yet by everybody; sent and not yet in bytes.
Ahead == [s \in Ids |-> IF receiver[s] \in {"sockBytes", "packetsRecv"} THEN 1 ELSE 0]
BytesAhead ==
  [s \in Ids |-> IF receiver[s] \in {"packetsRecv", "bytesRecv"} THEN size[s] ELSE 0]
Unsummed == [w \in Workers |-> IF worker[w] = "sent" THEN 1 ELSE 0]

Received ==
  /\ packetsRecv + SumFunction(Ahead) = SumFunction(pktsRecv)
  /\ bytesRecv + SumFunction(BytesAhead) = SumFunction(sockBytes)

Sent == bytesSent + PacketSize * SumFunction(Unsummed) = PacketSize * packetsSent

\* The socket in hand has no receiver.
LEMMA FreshIsNew ==
  ASSUME TypeOK, Progress, Asked, OneReceiver, fresh # 0
  PROVE  fresh \in Ids /\ fresh \notin sockets /\ receiver[fresh] = "off"
<1>1. fresh \in Ids /\ i \in Nat /\ currentCount \in Nat
  <2>1. fresh \in Ids \cup {0} /\ i \in Nat /\ currentCount \in 0 .. SocketCount
    BY DEF TypeOK, CreationOK
  <2> QED
    BY <2>1, Numbers
<1>2. \E n \in Nat : sockets \subseteq 1 .. n /\ fresh = n + 1
  <2>1. CASE main = "creating"
    BY <1>1, <2>1 DEF OneReceiver
  <2>2. CASE main # "creating"
    <3>1. creator = "batch"
      BY <2>2 DEF Progress
    <3>2. currentCount + i \in Nat
      BY <1>1
    <3> QED
      BY <3>1, <3>2 DEF Asked
  <2> QED
    BY <2>1, <2>2
<1>3. fresh \notin sockets
  BY <1>2
<1> QED
  BY <1>1, <1>3 DEF OneReceiver

LEMMA OneReceiverInit == Init => OneReceiver
BY DEF Init, OneReceiver

LEMMA OneReceiverStep ==
  TypeOK /\ Progress /\ Asked /\ OneReceiver /\ [Next]_vars => OneReceiver'
<1> SUFFICES ASSUME TypeOK, Progress, Asked, OneReceiver, [Next]_vars PROVE OneReceiver'
  OBVIOUS
<1>1. /\ i \in Nat
      /\ receiver \in [Ids -> {"off", "check", "recv", "pktsRecv", "sockBytes",
                               "packetsRecv", "bytesRecv", "ended"}]
  BY DEF TypeOK, CreationOK, ReceivingOK
\* A step that creates no socket and starts no receiver.
<1>2. ASSUME sockets' = sockets,
             \A s \in Ids : receiver'[s] # "off" => receiver[s] # "off",
             main' = "creating" => main = "creating" /\ i' = i /\ fresh' = fresh
      PROVE  OneReceiver'
  BY <1>2 DEF OneReceiver
<1>3. CASE CreateInMain
  <2>1. /\ main' = main /\ sockets' = sockets /\ receiver' = receiver /\ fresh = 0
        /\ \/ i' = i + 1 /\ fresh' = fresh
           \/ i' = i /\ fresh' = i + 1
    BY <1>3 DEF CreateInMain, Try, receiving
  <2>2. main = "creating" /\ sockets \subseteq 1 .. i
    BY <1>3 DEF CreateInMain, OneReceiver
  <2>3. sockets' \subseteq 1 .. i' /\ (fresh' # 0 => fresh' = i' + 1)
    BY <1>1, <2>1, <2>2
  <2> QED
    BY <2>1, <2>3 DEF OneReceiver
<1>4. CASE AppendInMain \/ AppendInBatch
  <2>1. /\ main' = main /\ sockets' = sockets \cup {fresh} /\ i' = i + 1 /\ fresh' = 0
        /\ fresh # 0 /\ receiver' = [receiver EXCEPT ![fresh] = "check"]
    BY <1>4 DEF AppendInMain, AppendInBatch, Append
  <2>2. \A s \in Ids : receiver'[s] # "off" => s \in sockets'
    BY <1>1, <2>1 DEF OneReceiver
  <2>3. main' = "creating" => sockets' \subseteq 1 .. i'
    BY <1>1, <2>1 DEF OneReceiver
  <2> QED
    BY <2>1, <2>2, <2>3 DEF OneReceiver
<1>5. CASE CheckBatch \/ CreateInBatch \/ EndBatch \/ Pause \/ CreatorReturns
  <2>1. main' = main /\ sockets' = sockets /\ receiver' = receiver /\ creator # "off"
    BY <1>5 DEF CheckBatch, CreateInBatch, EndBatch, Pause, CreatorReturns, receiving
  <2>2. main # "creating"
    BY <2>1 DEF Progress
  <2> QED
    BY <1>2, <2>1, <2>2
<1>6. ASSUME NEW s \in Ids, Receive(s) PROVE OneReceiver'
  <2>1. /\ main' = main /\ sockets' = sockets /\ i' = i /\ fresh' = fresh
        /\ receiver[s] # "off"
    BY <1>6 DEF Receive, CheckStop, RecvFails, RecvNothing, RecvPacket, Count,
       ReceiverReturns, UnchangedByReceiver
  <2>2. \E v : receiver' = [receiver EXCEPT ![s] = v]
    BY <1>6 DEF Receive, CheckStop, RecvFails, RecvNothing, RecvPacket, Count,
       ReceiverReturns
  <2> QED
    BY <1>1, <1>2, <2>1, <2>2
<1>7. CASE \/ StartHelpers \/ Stop \/ CloseSockets \/ Join \/ Exit
           \/ \E w \in Workers : Send(w)
           \/ \E h \in Helpers : Help(h)
           \/ UNCHANGED vars
  <2>1. /\ sockets' = sockets /\ receiver' = receiver /\ i' = i /\ fresh' = fresh
        /\ main' = "creating" => main = "creating"
    BY <1>7 DEF StartHelpers, Stop, CloseSockets, Join, Exit, Send, Help, creation,
       receiving, vars
  <2> QED
    BY <1>2, <2>1
<1> QED
  BY <1>3, <1>4, <1>5, <1>6, <1>7 DEF Next, Main, Creator, Exited

LEMMA IdsFinite == IsFiniteSet(Ids) /\ IsFiniteSet(Workers)
BY FS_Interval, StressAssumption DEF Ids

LEMMA SentInit == Init => Sent
<1> SUFFICES ASSUME Init PROVE Sent
  OBVIOUS
<1>1. Unsummed \in [Workers -> Int] /\ \A w \in Workers : Unsummed[w] = 0
  BY DEF Init, Unsummed
<1>2. SumFunction(Unsummed) = 0 /\ bytesSent = 0 /\ packetsSent = 0
  BY <1>1, IdsFinite, SumIsZero DEF Init
<1> QED
  BY <1>2, Numbers DEF Sent

LEMMA SentStep == TypeOK /\ Sent /\ [Next]_vars => Sent'
<1> SUFFICES ASSUME TypeOK, Sent, [Next]_vars PROVE Sent'
  OBVIOUS
<1> DEFINE k == SumFunction(Unsummed)
<1>1. /\ worker \in [Workers -> {"dial", "check", "sent", "ended"}]
      /\ packetsSent \in Nat /\ bytesSent \in Nat /\ PacketSize \in Nat
  BY Numbers DEF TypeOK, SendingOK
<1>2. Unsummed \in [Workers -> Int] /\ Unsummed' \in [Workers -> Int]
  BY DEF Unsummed
<1>3. k \in Int
  BY <1>2, IdsFinite, SumIsInt
<1>4. bytesSent + PacketSize * k = PacketSize * packetsSent
  BY DEF Sent
<1>5. ASSUME NEW w \in Workers, Send(w) PROVE Sent'
  <2>1. \E v \in {"dial", "check", "sent", "ended"} : worker' = [worker EXCEPT ![w] = v]
    BY <1>5 DEF Send, WorkerReturns
  <2>2. \A u \in Workers \ {w} : Unsummed'[u] = Unsummed[u]
    BY <1>1, <2>1 DEF Unsummed
  <2>3. k' = k + (Unsummed'[w] - Unsummed[w])
    BY <1>2, <2>2, IdsFinite, SumChangesAt
  <2>4. \/ /\ packetsSent' = packetsSent /\ bytesSent' = bytesSent
           /\ Unsummed'[w] = 0 /\ Unsummed[w] = 0
        \/ /\ packetsSent' = packetsSent + 1 /\ bytesSent' = bytesSent
           /\ Unsummed'[w] = 1 /\ Unsummed[w] = 0
        \/ /\ packetsSent' = packetsSent /\ bytesSent' = bytesSent + PacketSize
           /\ Unsummed'[w] = 0 /\ Unsummed[w] = 1
    BY <1>1, <1>5 DEF Send, WorkerReturns, Unsummed
  <2> HIDE DEF k
  <2>5. bytesSent' + PacketSize * k' = PacketSize * packetsSent'
    <3>1. CASE packetsSent' = packetsSent /\ bytesSent' = bytesSent /\ k' = k
      BY <1>4, <3>1
    <3>2. CASE packetsSent' = packetsSent + 1 /\ bytesSent' = bytesSent /\ k' = k + 1
      BY <1>1, <1>3, <1>4, <3>2
    <3>3. CASE packetsSent' = packetsSent /\ bytesSent' = bytesSent + PacketSize /\ k' = k - 1
      BY <1>1, <1>3, <1>4, <3>3
    <3> QED
      BY <1>3, <2>3, <2>4, <3>1, <3>2, <3>3
  <2> QED
    BY <2>5 DEF Sent, k
<1>6. CASE ~\E w \in Workers : Send(w)
  <2>1. worker' = worker /\ packetsSent' = packetsSent /\ bytesSent' = bytesSent
    BY <1>6 DEF Next, Main, Creator, CreateInMain, AppendInMain, StartHelpers, Stop,
       CloseSockets, Join, Exit, Exited, CheckBatch, CreateInBatch, AppendInBatch, EndBatch,
       Pause, CreatorReturns, Receive, CheckStop, RecvFails, RecvNothing, RecvPacket, Count,
       ReceiverReturns, UnchangedByReceiver, Help, sending, vars
  <2>2. Unsummed' = Unsummed
    BY <2>1 DEF Unsummed
  <2> QED
    BY <2>1, <2>2 DEF Sent
<1> QED
  BY <1>5, <1>6

LEMMA ReceivedInit == Init => Received
<1> SUFFICES ASSUME Init PROVE Received
  OBVIOUS
<1>1. /\ Ahead \in [Ids -> Int] /\ \A s \in Ids : Ahead[s] = 0
      /\ BytesAhead \in [Ids -> Int] /\ \A s \in Ids : BytesAhead[s] = 0
      /\ pktsRecv \in [Ids -> Int] /\ \A s \in Ids : pktsRecv[s] = 0
      /\ sockBytes \in [Ids -> Int] /\ \A s \in Ids : sockBytes[s] = 0
  BY DEF Init, Ahead, BytesAhead
<1>2. /\ SumFunction(Ahead) = 0 /\ SumFunction(BytesAhead) = 0
      /\ SumFunction(pktsRecv) = 0 /\ SumFunction(sockBytes) = 0
  BY <1>1, IdsFinite, SumIsZero
<1>3. packetsRecv = 0 /\ bytesRecv = 0
  BY DEF Init
<1> QED
  BY <1>2, <1>3 DEF Received

LEMMA ReceivedStep ==
  TypeOK /\ Progress /\ Asked /\ OneReceiver /\ Received /\ [Next]_vars => Received'
<1> SUFFICES ASSUME TypeOK, Progress, Asked, OneReceiver, Received, [Next]_vars
             PROVE  Received'
  OBVIOUS
<1>1. /\ receiver \in [Ids -> {"off", "check", "recv", "pktsRecv", "sockBytes",
                               "packetsRecv", "bytesRecv", "ended"}]
      /\ size \in [Ids -> Nat] /\ pktsRecv \in [Ids -> Nat] /\ sockBytes \in [Ids -> Nat]
      /\ packetsRecv \in Nat /\ bytesRecv \in Nat
  BY DEF TypeOK, ReceivingOK
<1>2. TypeOK'
  BY TypeStep
<1>3. /\ Ahead \in [Ids -> Int] /\ BytesAhead \in [Ids -> Int]
      /\ pktsRecv \in [Ids -> Int] /\ sockBytes \in [Ids -> Int]
  BY <1>1 DEF Ahead, BytesAhead
<1>4. /\ Ahead' \in [Ids -> Int] /\ BytesAhead' \in [Ids -> Int]
      /\ pktsRecv' \in [Ids -> Int] /\ sockBytes' \in [Ids -> Int]
  <2>1. /\ size' \in [Ids -> Nat] /\ pktsRecv' \in [Ids -> Nat]
        /\ sockBytes' \in [Ids -> Nat]
    BY <1>2 DEF TypeOK, ReceivingOK
  <2> QED
    BY <2>1 DEF Ahead, BytesAhead
<1>5. /\ SumFunction(Ahead) \in Int /\ SumFunction(BytesAhead) \in Int
      /\ SumFunction(pktsRecv) \in Int /\ SumFunction(sockBytes) \in Int
  BY <1>3, IdsFinite, SumIsInt
<1>6. ASSUME NEW s \in Ids, Receive(s) PROVE Received'
  <2>1. /\ \E v : receiver' = [receiver EXCEPT ![s] = v]
        /\ size' = size \/ \E v : size' = [size EXCEPT ![s] = v]
        /\ pktsRecv' = pktsRecv \/ \E v : pktsRecv' = [pktsRecv EXCEPT ![s] = v]
        /\ sockBytes' = sockBytes \/ \E v : sockBytes' = [sockBytes EXCEPT ![s] = v]
    BY <1>6 DEF Receive, CheckStop, RecvFails, RecvNothing, RecvPacket, Count,
       ReceiverReturns
  <2>2. \A t \in Ids \ {s} : /\ receiver'[t] = receiver[t] /\ size'[t] = size[t]
                             /\ pktsRecv'[t] = pktsRecv[t] /\ sockBytes'[t] = sockBytes[t]
    BY <1>1, <2>1
  <2>3. \A t \in Ids \ {s} : Ahead'[t] = Ahead[t] /\ BytesAhead'[t] = BytesAhead[t]
    BY <2>2 DEF Ahead, BytesAhead
  <2>4. /\ SumFunction(Ahead') = SumFunction(Ahead) + (Ahead'[s] - Ahead[s])
        /\ SumFunction(BytesAhead') = SumFunction(BytesAhead)
                                        + (BytesAhead'[s] - BytesAhead[s])
        /\ SumFunction(pktsRecv') = SumFunction(pktsRecv) + (pktsRecv'[s] - pktsRecv[s])
        /\ SumFunction(sockBytes') = SumFunction(sockBytes) + (sockBytes'[s] - sockBytes[s])
    BY <1>3, <1>4, <2>2, <2>3, IdsFinite, SumChangesAt
  <2>5. /\ Ahead[s] = (IF receiver[s] \in {"sockBytes", "packetsRecv"} THEN 1 ELSE 0)
        /\ Ahead'[s] = (IF receiver'[s] \in {"sockBytes", "packetsRecv"} THEN 1 ELSE 0)
        /\ BytesAhead[s]
             = (IF receiver[s] \in {"packetsRecv", "bytesRecv"} THEN size[s] ELSE 0)
        /\ BytesAhead'[s]
             = (IF receiver'[s] \in {"packetsRecv", "bytesRecv"} THEN size'[s] ELSE 0)
    BY DEF Ahead, BytesAhead
  <2>6. /\ (packetsRecv' - packetsRecv) + (Ahead'[s] - Ahead[s]) = pktsRecv'[s] - pktsRecv[s]
        /\ (bytesRecv' - bytesRecv) + (BytesAhead'[s] - BytesAhead[s])
             = sockBytes'[s] - sockBytes[s]
        /\ packetsRecv' \in Int /\ bytesRecv' \in Int
    <3>1. CASE ~Count(s)
      <4>1. /\ UNCHANGED <<pktsRecv, sockBytes, packetsRecv, bytesRecv>>
            /\ receiver[s] \in {"check", "recv"}
            /\ receiver'[s] \in {"check", "recv", "pktsRecv", "ended"}
        BY <1>1, <1>6, <3>1 DEF Receive, CheckStop, RecvFails, RecvNothing, RecvPacket,
           ReceiverReturns
      <4>2. /\ Ahead'[s] = 0 /\ Ahead[s] = 0 /\ BytesAhead'[s] = 0 /\ BytesAhead[s] = 0
        BY <2>5, <4>1
      <4> QED
        BY <1>1, <4>1, <4>2
    <3>2. CASE Count(s) /\ receiver[s] = "pktsRecv"
      <4>1. /\ pktsRecv'[s] = pktsRecv[s] + 1 /\ receiver'[s] = "sockBytes"
            /\ UNCHANGED <<sockBytes, packetsRecv, bytesRecv>>
        BY <1>1, <3>2 DEF Count
      <4>2. /\ Ahead'[s] = 1 /\ Ahead[s] = 0 /\ BytesAhead'[s] = 0 /\ BytesAhead[s] = 0
        BY <2>5, <3>2, <4>1
      <4> QED
        BY <1>1, <4>1, <4>2
    <3>3. CASE Count(s) /\ receiver[s] = "sockBytes"
      <4>1. /\ sockBytes'[s] = sockBytes[s] + size[s] /\ receiver'[s] = "packetsRecv"
            /\ UNCHANGED <<size, pktsRecv, packetsRecv, bytesRecv>>
        BY <1>1, <3>3 DEF Count
      <4>2. /\ Ahead'[s] = 1 /\ Ahead[s] = 1 /\ BytesAhead'[s] = size[s] /\ BytesAhead[s] = 0
        BY <2>5, <3>3, <4>1
      <4> QED
        BY <1>1, <4>1, <4>2
    <3>4. CASE Count(s) /\ receiver[s] = "packetsRecv"
      <4>1. /\ packetsRecv' = packetsRecv + 1 /\ receiver'[s] = "bytesRecv"
            /\ UNCHANGED <<size, pktsRecv, sockBytes, bytesRecv>>
        BY <1>1, <3>4 DEF Count
      <4>2. /\ Ahead'[s] = 0 /\ Ahead[s] = 1
            /\ BytesAhead'[s] = size[s] /\ BytesAhead[s] = size[s]
        BY <2>5, <3>4, <4>1
      <4> QED
        BY <1>1, <4>1, <4>2
    <3>5. CASE Count(s) /\ receiver[s] = "bytesRecv"
      <4>1. /\ bytesRecv' = bytesRecv + size[s] /\ receiver'[s] = "check"
            /\ UNCHANGED <<pktsRecv, sockBytes, packetsRecv>>
        BY <1>1, <3>5 DEF Count
      <4>2. /\ Ahead'[s] = 0 /\ Ahead[s] = 0
            /\ BytesAhead'[s] = 0 /\ BytesAhead[s] = size[s]
        BY <2>5, <3>5, <4>1
      <4> QED
        BY <1>1, <4>1, <4>2
    <3> QED
      BY <3>1, <3>2, <3>3, <3>4, <3>5 DEF Count
  <2>7. /\ Ahead[s] \in Int /\ Ahead'[s] \in Int
        /\ BytesAhead[s] \in Int /\ BytesAhead'[s] \in Int
        /\ pktsRecv[s] \in Int /\ pktsRecv'[s] \in Int
        /\ sockBytes[s] \in Int /\ sockBytes'[s] \in Int
    BY <1>3, <1>4
  <2>8. /\ packetsRecv' + SumFunction(Ahead') = SumFunction(pktsRecv')
        /\ bytesRecv' + SumFunction(BytesAhead') = SumFunction(sockBytes')
    BY <1>1, <1>5, <2>4, <2>6, <2>7 DEF Received
  <2> QED
    BY <2>8 DEF Received
<1>7. CASE AppendInMain \/ AppendInBatch
  <2>1. /\ receiver' = [receiver EXCEPT ![fresh] = "check"] /\ fresh # 0
        /\ UNCHANGED <<size, pktsRecv, sockBytes, packetsRecv, bytesRecv>>
    BY <1>7 DEF AppendInMain, AppendInBatch, Append
  <2>2. fresh \in Ids /\ receiver[fresh] = "off"
    BY <2>1, FreshIsNew
  <2>3. Ahead' = Ahead /\ BytesAhead' = BytesAhead
    <3>1. \A s \in Ids : receiver'[s] = receiver[s]
                         \/ (receiver[s] = "off" /\ receiver'[s] = "check")
      BY <1>1, <2>1, <2>2
    <3> QED
      BY <2>1, <3>1 DEF Ahead, BytesAhead
  <2> QED
    BY <2>1, <2>3 DEF Received
<1>8. CASE \/ CreateInMain \/ StartHelpers \/ Stop \/ CloseSockets \/ Join \/ Exit
           \/ CheckBatch \/ CreateInBatch \/ EndBatch \/ Pause \/ CreatorReturns
           \/ \E w \in Workers : Send(w)
           \/ \E h \in Helpers : Help(h)
           \/ UNCHANGED vars
  <2>1. UNCHANGED <<receiver, size, pktsRecv, sockBytes, packetsRecv, bytesRecv>>
    BY <1>8 DEF CreateInMain, StartHelpers, Stop, CloseSockets, Join, Exit, CheckBatch,
       CreateInBatch, EndBatch, Pause, CreatorReturns, Send, Help, receiving, vars
  <2>2. Ahead' = Ahead /\ BytesAhead' = BytesAhead
    BY <2>1 DEF Ahead, BytesAhead
  <2> QED
    BY <2>1, <2>2 DEF Received
<1> QED
  BY <1>6, <1>7, <1>8 DEF Next, Main, Creator, Exited

\* The totals printed after the join are those of the sockets and of the packets
\* sent, for any number of sockets and workers: every sequence of adds is then
\* complete.
THEOREM FinalTotals == Spec => []FinalStatsExact
<1>1. TypeOK /\ Received /\ Sent /\ JoinIsComplete => FinalStatsExact
  <2> SUFFICES ASSUME TypeOK, Received, Sent, JoinIsComplete, main = "joined"
               PROVE  /\ packetsRecv = SumFunction(pktsRecv)
                      /\ bytesRecv = SumFunction(sockBytes)
                      /\ bytesSent = PacketSize * packetsSent
    BY DEF FinalStatsExact
  <2>1. /\ \A s \in Ids : receiver[s] \in {"off", "ended"}
        /\ \A w \in Workers : worker[w] = "ended"
    BY DEF JoinIsComplete
  <2>2. /\ Ahead \in [Ids -> Int] /\ \A s \in Ids : Ahead[s] = 0
        /\ BytesAhead \in [Ids -> Int] /\ \A s \in Ids : BytesAhead[s] = 0
        /\ Unsummed \in [Workers -> Int] /\ \A w \in Workers : Unsummed[w] = 0
    BY <2>1 DEF Ahead, BytesAhead, Unsummed
  <2>3. SumFunction(Ahead) = 0 /\ SumFunction(BytesAhead) = 0 /\ SumFunction(Unsummed) = 0
    BY <2>2, IdsFinite, SumIsZero
  <2>4. /\ packetsRecv \in Nat /\ bytesRecv \in Nat /\ packetsSent \in Nat
        /\ bytesSent \in Nat /\ PacketSize \in Nat
    BY Numbers DEF TypeOK, ReceivingOK, SendingOK
  <2> QED
    BY <2>3, <2>4 DEF Received, Sent
<1>2. Init => Asked /\ OneReceiver /\ Received /\ Sent
  BY AskedInit, OneReceiverInit, ReceivedInit, SentInit
<1>3. Inv /\ Asked /\ OneReceiver /\ Received /\ Sent /\ [Next]_vars
        => Asked' /\ OneReceiver' /\ Received' /\ Sent'
  BY AskedStep, OneReceiverStep, ReceivedStep, SentStep DEF Inv
<1> QED
  BY <1>1, <1>2, <1>3, InvHolds, TypeCorrect, JoinComplete, PTL DEF Spec
================================================================================
