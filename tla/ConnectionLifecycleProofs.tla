---------------------- MODULE ConnectionLifecycleProofs ----------------------
(***************************************************************************)
(* Every open socket has somebody who will end it, and only a full send    *)
(* queue leaves a finished connection in its hub: proved for any sockets,  *)
(* queue capacity, timeouts and intervals.                                 *)
(***************************************************************************)
EXTENDS ConnectionLifecycle, TLAPS

\* A socket that was never opened has no timeout behind it.
Fresh ==
  \A c \in Conns : run[c] = "out" =>
    ~provClosed[c] /\ timeout[c] = "off" /\ c \notin pending /\ c \notin expired

\* Whoever ends the provisional connection closes the socket it shares.
ProvDead == \A c \in Conns : provClosed[c] => socket[c] = "closed"

\* A promoted connection leaves its hub only with its socket.
Joined ==
  \A c \in Conns : run[c] \in {"added", "announced", "running"} /\ socket[c] = "open"
                     => c \in listed

\* The hub, the scanner and the read loop know promoted connections only.
Late ==
  \A c \in Conns : c \in listed \/ c \in timedOut \/ reader[c] # "off" \/ closed[c]
                     => run[c] \in {"added", "announced", "running"}

\* A closed connection in the hub was closed by a full queue or is being removed.
Marked == \A c \in Conns : closed[c] /\ c \in listed => tripped[c] \/ c \in cancelling

DoneIsClosed == \A c \in Conns : reader[c] = "done" => closed[c]

Safe == Fresh /\ ProvDead /\ Joined /\ Late /\ Marked /\ DoneIsClosed /\ OpenIsWatched

IInv == TypeOK /\ Safe

-----------------------------------------------------------------------------
\* A send queue never holds more than its capacity (TryEnqueueSend).
LEMMA EnqueueTypes ==
  ASSUME TypeOK, NEW C \in SUBSET Conns, Enqueue(C)
  PROVE  /\ queue' \in [Conns -> 0 .. SendQueueCapacity]
         /\ closed' \in [Conns -> BOOLEAN] /\ tripped' \in [Conns -> BOOLEAN]
         /\ cancelling' \subseteq Conns
<1>1. \A c \in Conns : ~Full(c) => queue[c] + 1 \in 0 .. SendQueueCapacity
  BY LifecycleAssumption DEF TypeOK, Full
<1>2. queue' \in [Conns -> 0 .. SendQueueCapacity]
  BY <1>1 DEF Enqueue, TypeOK
<1>3. /\ closed' \in [Conns -> BOOLEAN] /\ tripped' \in [Conns -> BOOLEAN]
      /\ cancelling' \subseteq Conns
  <2>1. closed' \in [Conns -> BOOLEAN]
    BY DEF Enqueue, TypeOK
  <2>2. tripped' \in [Conns -> BOOLEAN]
    BY DEF Enqueue, TypeOK
  <2>. QED  BY <2>1, <2>2 DEF Enqueue, TypeOK
<1>. QED  BY <1>2, <1>3

\* Nor does sendSafe put more into it.
LEMMA SendSafeTypes ==
  ASSUME TypeOK, NEW c \in Conns, SendSafe(c)
  PROVE  /\ queue' \in [Conns -> 0 .. SendQueueCapacity]
         /\ closed' \in [Conns -> BOOLEAN] /\ cancelling' \subseteq Conns
<1>1. ~Full(c) => queue[c] + 1 \in 0 .. SendQueueCapacity
  BY LifecycleAssumption DEF TypeOK, Full
<1>2. CASE ~Full(c)
  BY <1>1, <1>2 DEF SendSafe, TypeOK
<1>3. CASE Full(c)
  <2>1. CancelConnections({c}) /\ UNCHANGED queue
    BY <1>3 DEF SendSafe
  <2>2. closed' \in [Conns -> BOOLEAN]
    BY <2>1 DEF CancelConnections
  <2>. QED  BY <2>1, <2>2 DEF CancelConnections, TypeOK
<1>. QED  BY <1>2, <1>3

\* RunConnection up to the start of the loops keeps the invariant.
LEMMA PromotionKeeps ==
  ASSUME IInv, NEW c \in Conns,
         \/ Connect(c) \/ FirstFrameFails(c) \/ RejectFirstFrame(c) \/ ReceiveHello(c)
         \/ AddConnection(c) \/ SetHelloReceived(c) \/ StartLoops(c)
  PROVE  IInv'
<1> USE LifecycleAssumption DEF IInv, provVars, hubVars, beatVars, loopVars, scanVars, downVars
<1>1. CASE Connect(c)
  <2>1. TypeOK'
    BY <1>1 DEF Connect, TypeOK
  <2>2. Safe'
    BY <1>1 DEF Connect, TypeOK, Safe, Fresh, ProvDead, Joined, Late, Marked, DoneIsClosed,
       OpenIsWatched
  <2>. QED  BY <2>1, <2>2
<1>2. CASE FirstFrameFails(c)
  <2>1. TypeOK'
    BY <1>2 DEF FirstFrameFails, CancelProvisional, TypeOK
  <2>2. Safe'
    BY <1>2 DEF FirstFrameFails, CancelProvisional, TypeOK, Safe, Fresh, ProvDead, Joined,
       Late, Marked, DoneIsClosed, OpenIsWatched
  <2>. QED  BY <2>1, <2>2
<1>3. CASE RejectFirstFrame(c)
  <2>1. TypeOK'
    BY <1>3 DEF RejectFirstFrame, CancelProvisional, TypeOK
  <2>2. Safe'
    BY <1>3 DEF RejectFirstFrame, CancelProvisional, TypeOK, Safe, Fresh, ProvDead, Joined,
       Late, Marked, DoneIsClosed, OpenIsWatched
  <2>. QED  BY <2>1, <2>2
<1>4. CASE ReceiveHello(c)
  <2>1. TypeOK'
    BY <1>4 DEF ReceiveHello, TypeOK
  <2>2. Safe'
    BY <1>4 DEF ReceiveHello, TypeOK, Safe, Fresh, ProvDead, Joined, Late, Marked,
       DoneIsClosed, OpenIsWatched
  <2>. QED  BY <2>1, <2>2
<1>5. CASE AddConnection(c)
  <2>1. TypeOK'
    <3>1. CASE Enqueue({c})
      BY <1>5, <3>1, EnqueueTypes DEF AddConnection, TypeOK
    <3>2. CASE UNCHANGED <<queue, closed, cancelling, tripped>>
      BY <1>5, <3>2 DEF AddConnection, TypeOK
    <3>. QED  BY <1>5, <3>1, <3>2 DEF AddConnection
  <2>2. Safe'
    BY <1>5 DEF AddConnection, Enqueue, Full, TypeOK, Safe, Fresh, ProvDead, Joined, Late,
       Marked, DoneIsClosed, OpenIsWatched
  <2>. QED  BY <2>1, <2>2
<1>6. CASE SetHelloReceived(c)
  <2>1. TypeOK'
    BY <1>6 DEF SetHelloReceived, TypeOK
  <2>2. Safe'
    BY <1>6 DEF SetHelloReceived, TypeOK, Safe, Fresh, ProvDead, Joined, Late, Marked,
       DoneIsClosed, OpenIsWatched
  <2>. QED  BY <2>1, <2>2
<1>7. CASE StartLoops(c)
  <2>1. TypeOK'
    BY <1>7 DEF StartLoops, TypeOK
  <2>2. Safe'
    BY <1>7 DEF StartLoops, TypeOK, Safe, Fresh, ProvDead, Joined, Late, Marked, DoneIsClosed,
       OpenIsWatched
  <2>. QED  BY <2>1, <2>2
<1>. QED  BY <1>1, <1>2, <1>3, <1>4, <1>5, <1>6, <1>7

\* The read loop keeps it.
LEMMA ReadingKeeps ==
  ASSUME IInv, NEW c \in Conns,
         \/ ReaderTop(c) \/ ReadFails(c) \/ ReadClip(c) \/ ReadRefusedClip(c)
         \/ ReadInvalid(c) \/ ReadPong(c) \/ ReadOversized(c) \/ CloseOversized(c)
         \/ ReadClose(c) \/ Disconnected(c) \/ FinishCancel(c)
  PROVE  IInv'
<1> USE LifecycleAssumption DEF IInv, provVars, hubVars, beatVars, loopVars, scanVars, downVars
<1>1. CASE ReaderTop(c)
  <2>1. TypeOK'
    BY <1>1 DEF ReaderTop, TypeOK
  <2>2. Safe'
    BY <1>1 DEF ReaderTop, TypeOK, Safe, Fresh, ProvDead, Joined, Late, Marked, DoneIsClosed,
       OpenIsWatched
  <2>. QED  BY <2>1, <2>2
<1>2. CASE ReadFails(c)
  <2>1. TypeOK'
    BY <1>2 DEF ReadFails, TypeOK
  <2>2. Safe'
    BY <1>2 DEF ReadFails, TypeOK, Safe, Fresh, ProvDead, Joined, Late, Marked, DoneIsClosed,
       OpenIsWatched
  <2>. QED  BY <2>1, <2>2
<1>3. CASE ReadClip(c)
  <2>1. TypeOK'
    BY <1>3 DEF ReadClip, Receives, TypeOK
  <2>2. Safe'
    BY <1>3 DEF ReadClip, Receives, TypeOK, Safe, Fresh, ProvDead, Joined, Late, Marked,
       DoneIsClosed, OpenIsWatched
  <2>. QED  BY <2>1, <2>2
<1>4. CASE ReadRefusedClip(c)
  <2>1. TypeOK'
    BY <1>4 DEF ReadRefusedClip, CancelConnections, Receives, TypeOK
  <2>2. Safe'
    BY <1>4 DEF ReadRefusedClip, CancelConnections, Receives, TypeOK, Safe, Fresh, ProvDead,
       Joined, Late, Marked, DoneIsClosed, OpenIsWatched
  <2>. QED  BY <2>1, <2>2
<1>5. CASE ReadInvalid(c)
  <2>1. TypeOK'
    BY <1>5, SendSafeTypes DEF ReadInvalid, TypeOK
  <2>2. Safe'
    BY <1>5 DEF ReadInvalid, SendSafe, CancelConnections, Receives, TypeOK, Safe, Fresh,
       ProvDead, Joined, Late, Marked, DoneIsClosed, OpenIsWatched
  <2>. QED  BY <2>1, <2>2
<1>6. CASE ReadPong(c)
  <2>1. TypeOK'
    BY <1>6 DEF ReadPong, Receives, TypeOK
  <2>2. Safe'
    BY <1>6 DEF ReadPong, Receives, TypeOK, Safe, Fresh, ProvDead, Joined, Late, Marked,
       DoneIsClosed, OpenIsWatched
  <2>. QED  BY <2>1, <2>2
<1>7. CASE ReadOversized(c)
  <2>1. TypeOK'
    BY <1>7, SendSafeTypes DEF ReadOversized, TypeOK
  <2>2. Safe'
    BY <1>7 DEF ReadOversized, SendSafe, CancelConnections, Receives, TypeOK, Safe, Fresh,
       ProvDead, Joined, Late, Marked, DoneIsClosed, OpenIsWatched
  <2>. QED  BY <2>1, <2>2
<1>8. CASE CloseOversized(c)
  <2>1. TypeOK'
    BY <1>8 DEF CloseOversized, CancelConnections, TypeOK
  <2>2. Safe'
    BY <1>8 DEF CloseOversized, CancelConnections, TypeOK, Safe, Fresh, ProvDead, Joined,
       Late, Marked, DoneIsClosed, OpenIsWatched
  <2>. QED  BY <2>1, <2>2
<1>9. CASE ReadClose(c)
  <2>1. TypeOK'
    BY <1>9 DEF ReadClose, Receives, TypeOK
  <2>2. Safe'
    BY <1>9 DEF ReadClose, Receives, TypeOK, Safe, Fresh, ProvDead, Joined, Late, Marked,
       DoneIsClosed, OpenIsWatched
  <2>. QED  BY <2>1, <2>2
<1>10. CASE Disconnected(c)
  <2>1. TypeOK'
    BY <1>10 DEF Disconnected, CancelConnections, TypeOK
  <2>2. (Fresh /\ ProvDead /\ Joined /\ Late /\ OpenIsWatched)'
    BY <1>10 DEF Disconnected, CancelConnections, TypeOK, Safe, Fresh, ProvDead, Joined, Late,
       OpenIsWatched
  <2>3. Marked'
    BY <1>10 DEF Disconnected, CancelConnections, TypeOK, Safe, Marked
  <2>4. DoneIsClosed'
    <3>1. \A d \in Conns : closed'[d] <=> closed[d] \/ d = c
      BY <1>10 DEF Disconnected, CancelConnections
    <3>2. \A d \in Conns : d # c => reader'[d] = reader[d]
      BY <1>10 DEF Disconnected, TypeOK
    <3>. QED  BY <3>1, <3>2 DEF Safe, DoneIsClosed
  <2>. QED  BY <2>1, <2>2, <2>3, <2>4 DEF Safe
<1>11. CASE FinishCancel(c)
  <2>1. TypeOK'
    BY <1>11 DEF FinishCancel, TypeOK
  <2>2. Safe'
    BY <1>11 DEF FinishCancel, TypeOK, Safe, Fresh, ProvDead, Joined, Late, Marked,
       DoneIsClosed, OpenIsWatched
  <2>. QED  BY <2>1, <2>2
<1>. QED  BY <1>1, <1>2, <1>3, <1>4, <1>5, <1>6, <1>7, <1>8, <1>9, <1>10, <1>11

\* The send loop, the hub and the peer keep it.
LEMMA SendingKeeps ==
  ASSUME IInv, NEW c \in Conns,
         \/ SenderStops(c) \/ SenderTakes(c) \/ SenderWrote(c) \/ SenderFails(c)
         \/ HubSends(c) \/ TakePong(c) \/ PeerDrops(c)
  PROVE  IInv'
<1> USE LifecycleAssumption DEF IInv, provVars, hubVars, beatVars, loopVars, scanVars, downVars
<1>1. CASE SenderStops(c)
  <2>1. TypeOK'
    BY <1>1 DEF SenderStops, TypeOK
  <2>2. Safe'
    BY <1>1 DEF SenderStops, TypeOK, Safe, Fresh, ProvDead, Joined, Late, Marked,
       DoneIsClosed, OpenIsWatched
  <2>. QED  BY <2>1, <2>2
<1>2. CASE SenderTakes(c)
  <2>1. TypeOK'
    BY <1>2 DEF SenderTakes, TypeOK
  <2>2. Safe'
    BY <1>2 DEF SenderTakes, TypeOK, Safe, Fresh, ProvDead, Joined, Late, Marked,
       DoneIsClosed, OpenIsWatched
  <2>. QED  BY <2>1, <2>2
<1>3. CASE SenderWrote(c)
  <2>1. TypeOK'
    BY <1>3 DEF SenderWrote, TypeOK
  <2>2. Safe'
    BY <1>3 DEF SenderWrote, TypeOK, Safe, Fresh, ProvDead, Joined, Late, Marked,
       DoneIsClosed, OpenIsWatched
  <2>. QED  BY <2>1, <2>2
<1>4. CASE SenderFails(c)
  <2>1. TypeOK'
    BY <1>4 DEF SenderFails, TypeOK
  <2>2. Safe'
    BY <1>4 DEF SenderFails, TypeOK, Safe, Fresh, ProvDead, Joined, Late, Marked,
       DoneIsClosed, OpenIsWatched
  <2>. QED  BY <2>1, <2>2
<1>5. CASE HubSends(c)
  <2>1. TypeOK'
    BY <1>5, EnqueueTypes DEF HubSends, TypeOK
  <2>2. Safe'
    BY <1>5 DEF HubSends, Enqueue, Full, TypeOK, Safe, Fresh, ProvDead, Joined, Late, Marked,
       DoneIsClosed, OpenIsWatched
  <2>. QED  BY <2>1, <2>2
<1>6. CASE TakePong(c)
  <2>1. TypeOK'
    BY <1>6 DEF TakePong, TypeOK
  <2>2. Safe'
    BY <1>6 DEF TakePong, TypeOK, Safe, Fresh, ProvDead, Joined, Late, Marked, DoneIsClosed,
       OpenIsWatched
  <2>. QED  BY <2>1, <2>2
<1>7. CASE PeerDrops(c)
  <2>1. TypeOK'
    BY <1>7 DEF PeerDrops, TypeOK
  <2>2. Safe'
    BY <1>7 DEF PeerDrops, TypeOK, Safe, Fresh, ProvDead, Joined, Late, Marked, DoneIsClosed,
       OpenIsWatched
  <2>. QED  BY <2>1, <2>2
<1>. QED  BY <1>1, <1>2, <1>3, <1>4, <1>5, <1>6, <1>7

\* The hello timeout, the heartbeat timeout and the goodbyes keep it.
LEMMA TimingKeeps ==
  ASSUME IInv, NEW c \in Conns,
         \/ CancelTimedOut(c) \/ StartTimeout(c) \/ TimeoutWrites(c) \/ TimeoutEnds(c)
         \/ SayBye(c) \/ HandshakeEnds(c)
  PROVE  IInv'
<1> USE LifecycleAssumption DEF IInv, provVars, hubVars, beatVars, loopVars, scanVars, downVars
<1>1. CASE CancelTimedOut(c)
  <2>1. TypeOK'
    BY <1>1 DEF CancelTimedOut, CancelConnections, TypeOK
  <2>2. Safe'
    BY <1>1 DEF CancelTimedOut, CancelConnections, TypeOK, Safe, Fresh, ProvDead, Joined,
       Late, Marked, DoneIsClosed, OpenIsWatched
  <2>. QED  BY <2>1, <2>2
<1>2. CASE StartTimeout(c)
  <2>1. TypeOK'
    BY <1>2 DEF StartTimeout, TypeOK
  <2>2. Safe'
    BY <1>2 DEF StartTimeout, TypeOK, Safe, Fresh, ProvDead, Joined, Late, Marked,
       DoneIsClosed, OpenIsWatched
  <2>. QED  BY <2>1, <2>2
<1>3. CASE TimeoutWrites(c)
  <2>1. TypeOK'
    BY <1>3 DEF TimeoutWrites, TypeOK
  <2>2. Safe'
    BY <1>3 DEF TimeoutWrites, TypeOK, Safe, Fresh, ProvDead, Joined, Late, Marked,
       DoneIsClosed, OpenIsWatched
  <2>. QED  BY <2>1, <2>2
<1>4. CASE TimeoutEnds(c)
  <2>1. TypeOK'
    BY <1>4 DEF TimeoutEnds, CancelProvisional, TypeOK
  <2>2. Safe'
    BY <1>4 DEF TimeoutEnds, CancelProvisional, TypeOK, Safe, Fresh, ProvDead, Joined, Late,
       Marked, DoneIsClosed, OpenIsWatched
  <2>. QED  BY <2>1, <2>2
<1>5. CASE SayBye(c)
  <2>1. TypeOK'
    BY <1>5 DEF SayBye, Full, TypeOK
  <2>2. Safe'
    BY <1>5 DEF SayBye, Full, TypeOK, Safe, Fresh, ProvDead, Joined, Late, Marked,
       DoneIsClosed, OpenIsWatched
  <2>. QED  BY <2>1, <2>2
<1>6. CASE HandshakeEnds(c)
  <2>1. TypeOK'
    BY <1>6 DEF HandshakeEnds, TypeOK
  <2>2. Safe'
    BY <1>6 DEF HandshakeEnds, TypeOK, Safe, Fresh, ProvDead, Joined, Late, Marked,
       DoneIsClosed, OpenIsWatched
  <2>. QED  BY <2>1, <2>2
<1>. QED  BY <1>1, <1>2, <1>3, <1>4, <1>5, <1>6

\* Clocks stop one tick past the bound they are compared with.
LEMMA OlderTypes ==
  ASSUME NEW bound \in Nat, NEW age \in [Conns -> 0 .. bound + 1]
  PROVE  Older(age, bound) \in [Conns -> 0 .. bound + 1]
<1>1. \A c \in Conns : age[c] <= bound => age[c] + 1 \in 0 .. bound + 1
  OBVIOUS
<1>. QED  BY <1>1 DEF Older

\* The walk over the hub's connections keeps it (ScanHeartbeats, its first part).
LEMMA ScanHubsKeeps ==
  ASSUME IInv, ScanHubs
  PROVE  IInv'
<1> USE LifecycleAssumption DEF IInv, provVars, hubVars, beatVars, loopVars, scanVars, downVars
<1> DEFINE idle == Older(unseen, HeartbeatTimeout)
           since == Older(unpinged, HeartbeatInterval)
           due == {c \in listed : HelloReceived(c) /\ since[c] >= HeartbeatInterval}
<1>1. /\ idle \in [Conns -> 0 .. HeartbeatTimeout + 1]
      /\ since \in [Conns -> 0 .. HeartbeatInterval + 1]
  BY OlderTypes DEF TypeOK
<1>2. due \in SUBSET Conns /\ due \subseteq listed
  BY DEF TypeOK
<1>3. /\ Enqueue(due) /\ unseen' = idle
      /\ pongAwaited' = [c \in Conns |-> pongAwaited[c] \/ c \in due]
      /\ unpinged' = [c \in Conns |-> IF c \in due THEN 0 ELSE since[c]]
      /\ timedOut' \subseteq listed
      /\ UNCHANGED <<socket, run, provClosed, pending, timeout, listed, reader, sender,
                     pongQueued, expired, downVars>>
  BY DEF ScanHubs
<1> HIDE DEF idle, since, due
<1>4. TypeOK'
  <2>1. waited' \in [Conns -> 0 .. HelloTimeout + 1]
    <3>1. Older(waited, HelloTimeout) \in [Conns -> 0 .. HelloTimeout + 1]
      BY OlderTypes DEF TypeOK
    <3>. QED  BY <3>1 DEF ScanHubs, TypeOK
  <2>2. unpinged' \in [Conns -> 0 .. HeartbeatInterval + 1] /\ pongAwaited' \in [Conns -> BOOLEAN]
    BY <1>1, <1>3 DEF TypeOK
  <2>3. scanning' \in BOOLEAN
    BY DEF ScanHubs
  <2>. QED  BY <1>1, <1>2, <1>3, <2>1, <2>2, <2>3, EnqueueTypes DEF TypeOK
<1>5. (Fresh /\ ProvDead /\ Joined /\ OpenIsWatched)'
  BY <1>3 DEF Safe, Fresh, ProvDead, Joined, OpenIsWatched
<1>6. Late' /\ Marked' /\ DoneIsClosed'
  BY <1>2, <1>3 DEF Enqueue, TypeOK, Safe, Late, Marked, DoneIsClosed
<1>. QED  BY <1>4, <1>5, <1>6 DEF Safe

\* The look at the pending hellos and the two ends of a shutdown keep it.
LEMMA ServerKeeps ==
  ASSUME IInv, ScanPending \/ ShutdownBegins \/ ShutdownEnds \/ UNCHANGED vars
  PROVE  IInv'
<1> USE LifecycleAssumption DEF IInv, provVars, hubVars, beatVars, loopVars, scanVars, downVars
<1>1. CASE ScanPending
  <2>1. TypeOK'
    BY <1>1 DEF ScanPending, TypeOK
  <2>2. Safe'
    BY <1>1 DEF ScanPending, TypeOK, Safe, Fresh, ProvDead, Joined, Late, Marked, DoneIsClosed,
       OpenIsWatched
  <2>. QED  BY <2>1, <2>2
<1>2. CASE ShutdownBegins
  <2>1. TypeOK'
    BY <1>2 DEF ShutdownBegins, TypeOK
  <2>2. Safe'
    BY <1>2 DEF ShutdownBegins, Safe, Fresh, ProvDead, Joined, Late, Marked, DoneIsClosed,
       OpenIsWatched
  <2>. QED  BY <2>1, <2>2
<1>3. CASE ShutdownEnds
  <2>1. TypeOK'
    BY <1>3 DEF ShutdownEnds, CancelConnections, TypeOK
  <2>2. Safe'
    BY <1>3 DEF ShutdownEnds, CancelConnections, TypeOK, Safe, Fresh, ProvDead, Joined, Late,
       Marked, DoneIsClosed, OpenIsWatched
  <2>. QED  BY <2>1, <2>2
<1>4. CASE UNCHANGED vars
  <2>1. TypeOK'
    BY <1>4 DEF vars, TypeOK
  <2>2. Safe'
    BY <1>4 DEF vars, Safe, Fresh, ProvDead, Joined, Late, Marked, DoneIsClosed, OpenIsWatched
  <2>. QED  BY <2>1, <2>2
<1>. QED  BY <1>1, <1>2, <1>3, <1>4

\* Before the first socket the invariant holds.
LEMMA InitEstablishes == Init => IInv
<1> SUFFICES ASSUME Init PROVE IInv
  OBVIOUS
<1>1. TypeOK
  <2>1. /\ 0 \in 0 .. SendQueueCapacity /\ 0 \in 0 .. HelloTimeout + 1
        /\ 0 \in 0 .. HeartbeatInterval + 1 /\ 0 \in 0 .. HeartbeatTimeout + 1
    BY LifecycleAssumption
  <2>. QED  BY <2>1 DEF Init, TypeOK
<1>2. Safe
  BY DEF Init, Safe, Fresh, ProvDead, Joined, Late, Marked, DoneIsClosed, OpenIsWatched
<1>. QED  BY <1>1, <1>2 DEF IInv

\* Every step of a connection, the scanner or the shutdown keeps the invariant.
LEMMA NextKeeps == IInv /\ [Next]_vars => IInv'
  BY PromotionKeeps, ReadingKeeps, SendingKeeps, TimingKeeps, ScanHubsKeeps, ServerKeeps
  DEF Next, Step, Promote, Read

-----------------------------------------------------------------------------
\* No send queue ever holds more than its capacity, whoever fills it.
THEOREM LifecycleTypes == Spec => []TypeOK
<1>1. IInv => TypeOK
  BY DEF IInv
<1>. QED  BY <1>1, InitEstablishes, NextKeeps, PTL DEF Spec

\* An open socket always has a deadline, a hub that watches it or a timeout under way,
\* however promotion, scanner, timeouts and peers interleave (RunConnection).
THEOREM EveryOpenIsWatched == Spec => []OpenIsWatched
<1>1. IInv => OpenIsWatched
  BY DEF IInv, Safe
<1>. QED  BY <1>1, InitEstablishes, NextKeeps, PTL DEF Spec

\* A finished connection is still in its hub only while it is being removed, or
\* because a full send queue had closed it (CancelConnection).
THEOREM OnlyTheBreakerLeaks == Spec => []OnlyBreakerLeaks
<1>1. IInv => OnlyBreakerLeaks
  BY DEF IInv, Safe, Marked, DoneIsClosed, OnlyBreakerLeaks
<1>. QED  BY <1>1, InitEstablishes, NextKeeps, PTL DEF Spec

=============================================================================
