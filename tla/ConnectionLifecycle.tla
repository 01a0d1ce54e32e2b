------------------------- MODULE ConnectionLifecycle -------------------------
(***************************************************************************)
(* The life of a WebSocket: internal/hosting/connection.go with            *)
(* internal/models/context.go, and the parts of internal/sync/server.go    *)
(* that end connections: the heartbeat scanner, the hello timeout, the     *)
(* cancellation paths and the shutdown.                                    *)
(*                                                                         *)
(* A socket is first run as a provisional connection that waits for its    *)
(* hello, then as the promoted connection, an object of its own with its   *)
(* own closed flag, queue and write mutex, on the same socket.  MarkClosed *)
(* and the Cancel that follows it everywhere are one step.  One hub stands *)
(* for all: what it sends, and when, is UserHub's subject.  Definitions    *)
(* named Bug_... are plausible errors in the definition that follows; no   *)
(* specification uses them.                                                *)
(***************************************************************************)
EXTENDS Naturals

CONSTANTS
  Conns,              \* sockets
  SendQueueCapacity,  \* messages a send queue holds
  HelloTimeout,       \* in ticks of the scanner's clock, like the next two
  HeartbeatInterval,
  HeartbeatTimeout

ASSUME LifecycleAssumption ==
  /\ SendQueueCapacity \in Nat \ {0}
  /\ HelloTimeout \in Nat \ {0}
  /\ HeartbeatInterval \in Nat \ {0}
  /\ HeartbeatTimeout \in Nat \ {0}

VARIABLES
  socket,      \* the TCP connection: "none", "open", "closed"
  run,         \* where RunConnection is
  provClosed,  \* closed flag of the provisional connection
  pending,     \* Server.pendingHellos
  waited,      \* ticks since the provisional connection was made
  timeout,     \* where closeAfterHelloTimeout is
  closed,      \* closed flag of the promoted connection
  cancelling,  \* marked closed by CancelConnection, which has yet to clean up
  listed,      \* Hub.connections
  queue,       \* messages in sendCh
  reader,      \* where readLoop is
  sender,      \* where sendLoop is
  pongAwaited, \* StateBag.pongAwaited
  pongQueued,  \* a PongJob waits for the user loop
  unseen,      \* ticks since lastSeen
  unpinged,    \* ticks since lastPingAt
  tripped,     \* history: the connection was closed by a full send queue
  scanning,    \* ScanHeartbeats is between its two parts
  timedOut,    \* connections it has found dead and has yet to cancel
  expired,     \* provisional ones it has yet to time out
  phase,       \* where Shutdown is
  toNotify,    \* connections it has yet to send bye to
  closers      \* connections whose close handshake it waits for

provVars == <<run, provClosed, pending, waited, timeout>>
hubVars == <<closed, cancelling, listed, tripped>>
beatVars == <<pongAwaited, pongQueued, unseen, unpinged>>
loopVars == <<reader, sender, queue>>
scanVars == <<scanning, timedOut, expired>>
downVars == <<phase, toNotify, closers>>
vars == <<socket, provVars, hubVars, loopVars, beatVars, scanVars, downVars>>

Init ==
  /\ socket = [c \in Conns |-> "none"]
  /\ run = [c \in Conns |-> "out"]
  /\ provClosed = [c \in Conns |-> FALSE]
  /\ pending = {}
  /\ waited = [c \in Conns |-> 0]
  /\ timeout = [c \in Conns |-> "off"]
  /\ closed = [c \in Conns |-> FALSE]
  /\ cancelling = {}
  /\ listed = {}
  /\ queue = [c \in Conns |-> 0]
  /\ reader = [c \in Conns |-> "off"]
  /\ sender = [c \in Conns |-> "off"]
  /\ pongAwaited = [c \in Conns |-> FALSE]
  /\ pongQueued = [c \in Conns |-> FALSE]
  /\ unseen = [c \in Conns |-> 0]
  /\ unpinged = [c \in Conns |-> 0]
  /\ tripped = [c \in Conns |-> FALSE]
  /\ scanning = FALSE
  /\ timedOut = {}
  /\ expired = {}
  /\ phase = "serving"
  /\ toNotify = {}
  /\ closers = {}

HelloReceived(c) == run[c] \in {"announced", "running"}

Bug_SenderSignalsOnly(c) == sender[c] = "done"

\* Both loops signal peerClosedCh as they end.
PeerGone(c) == reader[c] \in {"waiting", "done"} \/ sender[c] = "done"

-----------------------------------------------------------------------------
(***************************************************************************)
(* The ways a connection ends.  CancelConnection and EnqueueImmediateClose *)
(* do nothing to a connection already marked closed; else they mark it,    *)
(* and then close the socket and remove the connection from its hub.  The  *)
(* circuit breaker of a full queue marks it closed and does no more.       *)
(***************************************************************************)
CancelProvisional(c) ==
  /\ pending' = pending \ {c}
  /\ provClosed' = [provClosed EXCEPT ![c] = TRUE]
  /\ socket' = IF provClosed[c] THEN socket ELSE [socket EXCEPT ![c] = "closed"]

CancelConnections(C) ==
  /\ closed' = [c \in Conns |-> closed[c] \/ c \in C]
  /\ cancelling' = cancelling \union {c \in C : ~closed[c]}

Bug_ForgetsHub(c) ==
  /\ c \in cancelling
  /\ cancelling' = cancelling \ {c}
  /\ socket' = [socket EXCEPT ![c] = "closed"]
  /\ UNCHANGED <<provVars, closed, listed, tripped, loopVars, beatVars, scanVars, downVars>>

\* Whoever called CancelConnection may already have gone on here.
FinishCancel(c) ==
  /\ c \in cancelling
  /\ cancelling' = cancelling \ {c}
  /\ socket' = [socket EXCEPT ![c] = "closed"]
  /\ listed' = listed \ {c}
  /\ UNCHANGED <<provVars, closed, tripped, loopVars, beatVars, scanVars, downVars>>

Bug_FullOffByOne(c) == queue[c] > SendQueueCapacity

Full(c) == queue[c] >= SendQueueCapacity

\* TryEnqueueSend to each of C, with the circuit breaker where the queue is full.
Enqueue(C) ==
  LET full == {c \in C : Full(c)} IN
  /\ queue' = [c \in Conns |-> IF c \in C \ full THEN queue[c] + 1 ELSE queue[c]]
  /\ closed' = [c \in Conns |-> closed[c] \/ c \in full]
  /\ tripped' = [c \in Conns |-> tripped[c] \/ (c \in full /\ ~closed[c])]
  /\ UNCHANGED cancelling

\* sendSafe: a full queue closes the connection for good.
SendSafe(c) ==
  \/ /\ ~Full(c)
     /\ queue' = [queue EXCEPT ![c] = @ + 1]
     /\ UNCHANGED <<closed, cancelling>>
  \/ /\ Full(c)
     /\ CancelConnections({c})
     /\ UNCHANGED queue

-----------------------------------------------------------------------------
(***************************************************************************)
(* RunConnection: the provisional connection and its promotion.            *)
(***************************************************************************)
Connect(c) ==
  /\ run[c] = "out"
  /\ socket' = [socket EXCEPT ![c] = "open"]
  /\ pending' = pending \union {c}
  /\ run' = [run EXCEPT ![c] = "awaiting"]
  /\ UNCHANGED <<provClosed, waited, timeout, hubVars, loopVars, beatVars, scanVars, downVars>>

\* The socket fails, is closed by either side, or was cancelled.
FirstFrameFails(c) ==
  /\ run[c] = "awaiting"
  /\ CancelProvisional(c)
  /\ run' = [run EXCEPT ![c] = "ended"]
  /\ UNCHANGED <<waited, timeout, hubVars, loopVars, beatVars, scanVars, downVars>>

\* An invalid or oversized first frame: an error and a close frame are written
\* under the write mutex that the hello timeout uses as well.
RejectFirstFrame(c) ==
  /\ run[c] = "awaiting" /\ socket[c] = "open" /\ timeout[c] # "writing"
  /\ CancelProvisional(c)
  /\ run' = [run EXCEPT ![c] = "ended"]
  /\ UNCHANGED <<waited, timeout, hubVars, loopVars, beatVars, scanVars, downVars>>

\* NewConnection starts the promoted connection's clocks.
ReceiveHello(c) ==
  /\ run[c] = "awaiting" /\ socket[c] = "open" /\ ~provClosed[c]
  /\ run' = [run EXCEPT ![c] = "promoting"]
  /\ unseen' = [unseen EXCEPT ![c] = 0]
  /\ unpinged' = [unpinged EXCEPT ![c] = 0]
  /\ UNCHANGED <<socket, provClosed, pending, waited, timeout, hubVars, loopVars, pongAwaited,
                 pongQueued, scanVars, downVars>>

Bug_UnregistersFirst(c) ==
  /\ run[c] = "promoting"
  /\ IF c \in pending THEN pending' = pending \ {c} /\ UNCHANGED <<run, listed>>
     ELSE /\ listed' = listed \union {c}
          /\ run' = [run EXCEPT ![c] = "added"]
          /\ UNCHANGED pending
  /\ UNCHANGED <<socket, provClosed, waited, timeout, closed, cancelling, tripped, loopVars, beatVars,
                 scanVars, downVars>>

\* The hub welcomes the connection at once if its recovery window is closed.
AddConnection(c) ==
  /\ run[c] = "promoting"
  /\ listed' = listed \union {c}
  /\ run' = [run EXCEPT ![c] = "added"]
  /\ Enqueue({c}) \/ UNCHANGED <<queue, closed, cancelling, tripped>>
  /\ UNCHANGED <<socket, provClosed, pending, waited, timeout, reader, sender, beatVars,
                 scanVars, downVars>>

SetHelloReceived(c) ==
  /\ run[c] = "added"
  /\ run' = [run EXCEPT ![c] = "announced"]
  /\ unseen' = [unseen EXCEPT ![c] = 0]
  /\ UNCHANGED <<socket, provClosed, pending, waited, timeout, hubVars, loopVars, pongAwaited,
                 pongQueued, unpinged, scanVars, downVars>>

StartLoops(c) ==
  /\ run[c] = "announced"
  /\ pending' = pending \ {c}
  /\ run' = [run EXCEPT ![c] = "running"]
  /\ reader' = [reader EXCEPT ![c] = "top"]
  /\ sender' = [sender EXCEPT ![c] = "idle"]
  /\ UNCHANGED <<socket, provClosed, waited, timeout, hubVars, queue, beatVars, scanVars,
                 downVars>>

-----------------------------------------------------------------------------
(***************************************************************************)
(* readLoop.  It looks at the closed flag, then blocks until a frame comes *)
(* or the socket fails.  When it returns, the connection waits for the     *)
(* send loop before it is cancelled.                                       *)
(***************************************************************************)
ReaderTop(c) ==
  /\ reader[c] = "top"
  /\ reader' = [reader EXCEPT ![c] = IF closed[c] THEN "waiting" ELSE "reading"]
  /\ UNCHANGED <<socket, provVars, hubVars, queue, sender, beatVars, scanVars, downVars>>

\* The socket failed, or a frame arrived after the context was cancelled.
ReadFails(c) ==
  /\ reader[c] = "reading"
  /\ socket[c] = "closed" \/ closed[c]
  /\ reader' = [reader EXCEPT ![c] = "waiting"]
  /\ UNCHANGED <<socket, provVars, hubVars, queue, sender, beatVars, scanVars, downVars>>

Receives(c) == reader[c] = "reading" /\ socket[c] = "open" /\ ~closed[c]

\* A clip that goes to the hub; its answer is a later HubSends.
ReadClip(c) ==
  /\ Receives(c)
  /\ reader' = [reader EXCEPT ![c] = "top"]
  /\ UNCHANGED <<socket, provVars, hubVars, queue, sender, beatVars, scanVars, downVars>>

\* A clip that finds the recovery queue full.
ReadRefusedClip(c) ==
  /\ Receives(c)
  /\ CancelConnections({c})
  /\ reader' = [reader EXCEPT ![c] = "top"]
  /\ UNCHANGED <<socket, provVars, listed, tripped, queue, sender, beatVars, scanVars, downVars>>

\* A malformed frame, or a pong nobody asked for, is answered by an error.
ReadInvalid(c) ==
  /\ Receives(c)
  /\ SendSafe(c)
  /\ reader' = [reader EXCEPT ![c] = "top"]
  /\ UNCHANGED <<socket, provVars, listed, tripped, sender, beatVars, scanVars, downVars>>

ReadPong(c) ==
  /\ Receives(c) /\ pongAwaited[c]
  /\ pongAwaited' = [pongAwaited EXCEPT ![c] = FALSE]
  /\ pongQueued' = [pongQueued EXCEPT ![c] = TRUE]
  /\ reader' = [reader EXCEPT ![c] = "top"]
  /\ UNCHANGED <<socket, provVars, hubVars, queue, sender, unseen, unpinged, scanVars, downVars>>

\* An error, 100 ms later a close frame, and the end.
ReadOversized(c) ==
  /\ Receives(c)
  /\ SendSafe(c)
  /\ reader' = [reader EXCEPT ![c] = "refusing"]
  /\ UNCHANGED <<socket, provVars, listed, tripped, sender, beatVars, scanVars, downVars>>

CloseOversized(c) ==
  /\ reader[c] = "refusing"
  /\ CancelConnections({c})
  /\ reader' = [reader EXCEPT ![c] = "waiting"]
  /\ UNCHANGED <<socket, provVars, listed, tripped, queue, sender, beatVars, scanVars, downVars>>

ReadClose(c) ==
  /\ Receives(c)
  /\ reader' = [reader EXCEPT ![c] = "waiting"]
  /\ UNCHANGED <<socket, provVars, hubVars, queue, sender, beatVars, scanVars, downVars>>

Bug_NoFinalCancel(c) ==
  /\ reader[c] = "waiting" /\ sender[c] = "done"
  /\ reader' = [reader EXCEPT ![c] = "done"]
  /\ UNCHANGED <<socket, provVars, hubVars, queue, sender, beatVars, scanVars, downVars>>

Disconnected(c) ==
  /\ reader[c] = "waiting" /\ sender[c] = "done"
  /\ CancelConnections({c})
  /\ reader' = [reader EXCEPT ![c] = "done"]
  /\ UNCHANGED <<socket, provVars, listed, tripped, queue, sender, beatVars, scanVars, downVars>>

-----------------------------------------------------------------------------
(***************************************************************************)
(* sendLoop, and those who fill its queue.  A write has no deadline: it    *)
(* ends when the peer takes the bytes or the socket is closed.             *)
(***************************************************************************)
SenderStops(c) ==
  /\ sender[c] = "idle" /\ closed[c]
  /\ sender' = [sender EXCEPT ![c] = "done"]
  /\ UNCHANGED <<socket, provVars, hubVars, queue, reader, beatVars, scanVars, downVars>>

SenderTakes(c) ==
  /\ sender[c] = "idle" /\ queue[c] > 0
  /\ queue' = [queue EXCEPT ![c] = @ - 1]
  /\ sender' = [sender EXCEPT ![c] = "writing"]
  /\ UNCHANGED <<socket, provVars, hubVars, reader, beatVars, scanVars, downVars>>

SenderWrote(c) ==
  /\ sender[c] = "writing" /\ socket[c] = "open"
  /\ sender' = [sender EXCEPT ![c] = "idle"]
  /\ UNCHANGED <<socket, provVars, hubVars, queue, reader, beatVars, scanVars, downVars>>

SenderFails(c) ==
  /\ sender[c] = "writing" /\ socket[c] = "closed"
  /\ sender' = [sender EXCEPT ![c] = "done"]
  /\ UNCHANGED <<socket, provVars, hubVars, queue, reader, beatVars, scanVars, downVars>>

\* A welcome, a broadcast or an acknowledgement.
HubSends(c) ==
  /\ c \in listed
  /\ Enqueue({c})
  /\ UNCHANGED <<socket, provVars, listed, reader, sender, beatVars, scanVars, downVars>>

\* The user loop reaches the pong behind whatever else was queued.
TakePong(c) ==
  /\ pongQueued[c]
  /\ pongQueued' = [pongQueued EXCEPT ![c] = FALSE]
  /\ unseen' = [unseen EXCEPT ![c] = 0]
  /\ UNCHANGED <<socket, provVars, hubVars, loopVars, pongAwaited, unpinged, scanVars, downVars>>

\* The peer vanishes.
PeerDrops(c) ==
  /\ socket[c] = "open"
  /\ socket' = [socket EXCEPT ![c] = "closed"]
  /\ UNCHANGED <<provVars, hubVars, loopVars, beatVars, scanVars, downVars>>

-----------------------------------------------------------------------------
(***************************************************************************)
(* The scanner.  Every tick it walks the hub's list under its lock, pings  *)
(* whoever is due and notes who was not seen for too long; it cancels      *)
(* these after the lock is released, then looks at the pending hellos, and *)
(* starts a goroutine for each that is overdue.                            *)
(***************************************************************************)
\* A clock runs one tick past the bound it is compared with, and stops there.
Older(age, bound) == [c \in Conns |-> IF age[c] <= bound THEN age[c] + 1 ELSE age[c]]

ScanHubs ==
  /\ phase = "serving" /\ ~scanning /\ timedOut = {} /\ expired = {}
  /\ LET idle == Older(unseen, HeartbeatTimeout)
         since == Older(unpinged, HeartbeatInterval)
         due == {c \in listed : HelloReceived(c) /\ since[c] >= HeartbeatInterval}
     IN /\ Enqueue(due)
        /\ pongAwaited' = [c \in Conns |-> pongAwaited[c] \/ c \in due]
        /\ unpinged' = [c \in Conns |-> IF c \in due THEN 0 ELSE since[c]]
        /\ unseen' = idle
        /\ timedOut' = {c \in listed : HelloReceived(c) /\ idle[c] >= HeartbeatTimeout}
  /\ waited' = [c \in Conns |-> IF c \in pending THEN Older(waited, HelloTimeout)[c] ELSE waited[c]]
  /\ scanning' = TRUE
  /\ UNCHANGED <<socket, run, provClosed, pending, timeout, listed, reader, sender, pongQueued,
                 expired, downVars>>

CancelTimedOut(c) ==
  /\ c \in timedOut
  /\ CancelConnections({c})
  /\ timedOut' = timedOut \ {c}
  /\ UNCHANGED <<socket, provVars, listed, tripped, loopVars, beatVars, scanning, expired,
                 downVars>>

Overdue(c) == waited[c] >= HelloTimeout

Bug_ScansHubsOnly ==
  /\ scanning /\ timedOut = {}
  /\ scanning' = FALSE
  /\ UNCHANGED <<socket, provVars, hubVars, loopVars, beatVars, timedOut, expired, downVars>>

ScanPending ==
  /\ scanning /\ timedOut = {}
  /\ scanning' = FALSE
  /\ expired' = {c \in pending : Overdue(c)}
  /\ UNCHANGED <<socket, provVars, hubVars, loopVars, beatVars, timedOut, downVars>>

\* enqueueHelloTimeout
StartTimeout(c) ==
  /\ c \in expired
  /\ expired' = expired \ {c}
  /\ IF timeout[c] # "off" \/ provClosed[c] THEN UNCHANGED <<timeout, pending>>
     ELSE /\ timeout' = [timeout EXCEPT ![c] = "started"]
          /\ pending' = pending \ {c}
  /\ UNCHANGED <<socket, run, provClosed, waited, hubVars, loopVars, beatVars, scanning,
                 timedOut, downVars>>

\* closeAfterHelloTimeout: the error frame, 100 ms, the close frame, the end.
TimeoutWrites(c) ==
  /\ timeout[c] = "started" /\ ~provClosed[c]
  /\ timeout' = [timeout EXCEPT ![c] = "writing"]
  /\ UNCHANGED <<socket, run, provClosed, pending, waited, hubVars, loopVars, beatVars,
                 scanVars, downVars>>

TimeoutEnds(c) ==
  /\ timeout[c] = "writing" \/ (timeout[c] = "started" /\ provClosed[c])
  /\ CancelProvisional(c)
  /\ timeout' = [timeout EXCEPT ![c] = "over"]
  /\ UNCHANGED <<run, waited, hubVars, loopVars, beatVars, scanVars, downVars>>

-----------------------------------------------------------------------------
(***************************************************************************)
(* Shutdown, once the scanner has finished its last scan: bye and a close  *)
(* frame to every connection of a hub, the handshakes, the cancellation of *)
(* whoever is left.  Connections keep coming until the process ends.       *)
(***************************************************************************)
ShutdownBegins ==
  /\ phase = "serving" /\ ~scanning /\ timedOut = {} /\ expired = {}
  /\ phase' = "closing"
  /\ toNotify' = listed
  /\ UNCHANGED <<socket, provVars, hubVars, loopVars, beatVars, scanVars, closers>>

\* A connection that is closed or whose queue is full is passed over.
SayBye(c) ==
  /\ c \in toNotify
  /\ toNotify' = toNotify \ {c}
  /\ IF closed[c] \/ Full(c) THEN UNCHANGED <<queue, closers>>
     ELSE /\ queue' = [queue EXCEPT ![c] = @ + 1]
          /\ closers' = closers \union {c}
  /\ UNCHANGED <<socket, provVars, hubVars, reader, sender, beatVars, scanVars, phase>>

HandshakeEnds(c) ==
  /\ c \in closers /\ PeerGone(c)
  /\ closers' = closers \ {c}
  /\ UNCHANGED <<socket, provVars, hubVars, loopVars, beatVars, scanVars, phase, toNotify>>

ShutdownEnds ==
  /\ phase = "closing" /\ toNotify = {} /\ closers = {}
  /\ CancelConnections(listed)
  /\ phase' = "down"
  /\ UNCHANGED <<socket, provVars, listed, tripped, loopVars, beatVars, scanVars, toNotify,
                 closers>>

-----------------------------------------------------------------------------
Promote(c) ==
  ReceiveHello(c) \/ AddConnection(c) \/ SetHelloReceived(c) \/ StartLoops(c)

Read(c) ==
  \/ ReadClip(c) \/ ReadRefusedClip(c) \/ ReadInvalid(c) \/ ReadPong(c) \/ ReadOversized(c)
  \/ ReadClose(c)

Step(c) ==
  \/ Connect(c) \/ FirstFrameFails(c) \/ RejectFirstFrame(c) \/ Promote(c)
  \/ ReaderTop(c) \/ ReadFails(c) \/ Read(c) \/ CloseOversized(c) \/ Disconnected(c)
  \/ FinishCancel(c)
  \/ SenderStops(c) \/ SenderTakes(c) \/ SenderWrote(c) \/ SenderFails(c)
  \/ HubSends(c) \/ TakePong(c) \/ PeerDrops(c)
  \/ CancelTimedOut(c) \/ StartTimeout(c) \/ TimeoutWrites(c) \/ TimeoutEnds(c)
  \/ SayBye(c) \/ HandshakeEnds(c)

Next ==
  \/ \E c \in Conns : Step(c)
  \/ ScanHubs \/ ScanPending \/ ShutdownBegins \/ ShutdownEnds

\* Goroutines that can run do run, and time passes.  Of the peer only one thing is
\* assumed: it answers the close frame of a shutdown.
Fairness ==
  /\ \A c \in Conns :
       /\ WF_vars(AddConnection(c)) /\ WF_vars(SetHelloReceived(c)) /\ WF_vars(StartLoops(c))
       /\ WF_vars(run[c] = "awaiting" /\ socket[c] = "closed" /\ FirstFrameFails(c))
       /\ WF_vars(ReaderTop(c))
       /\ WF_vars(socket[c] = "closed" /\ ReadFails(c))
       /\ WF_vars(CloseOversized(c)) /\ WF_vars(Disconnected(c)) /\ WF_vars(FinishCancel(c))
       /\ WF_vars(SenderStops(c) \/ SenderTakes(c) \/ SenderFails(c))
       /\ WF_vars(TakePong(c))
       /\ WF_vars(CancelTimedOut(c)) /\ WF_vars(StartTimeout(c))
       /\ WF_vars(TimeoutWrites(c)) /\ WF_vars(TimeoutEnds(c))
       /\ WF_vars(SayBye(c)) /\ WF_vars(HandshakeEnds(c))
       /\ SF_vars(c \in closers /\ (ReadClose(c) \/ ReadFails(c)))
  /\ WF_vars(ScanHubs) /\ WF_vars(ScanPending) /\ WF_vars(ShutdownEnds)

Spec == Init /\ [][Next]_vars /\ Fairness

-----------------------------------------------------------------------------
TypeOK ==
  /\ socket \in [Conns -> {"none", "open", "closed"}]
  /\ run \in [Conns -> {"out", "awaiting", "promoting", "added", "announced", "running", "ended"}]
  /\ provClosed \in [Conns -> BOOLEAN] /\ closed \in [Conns -> BOOLEAN]
  /\ tripped \in [Conns -> BOOLEAN]
  /\ pending \subseteq Conns /\ listed \subseteq Conns /\ cancelling \subseteq Conns
  /\ timeout \in [Conns -> {"off", "started", "writing", "over"}]
  /\ queue \in [Conns -> 0 .. SendQueueCapacity]
  /\ reader \in [Conns -> {"off", "top", "reading", "refusing", "waiting", "done"}]
  /\ sender \in [Conns -> {"off", "idle", "writing", "done"}]
  /\ pongAwaited \in [Conns -> BOOLEAN] /\ pongQueued \in [Conns -> BOOLEAN]
  /\ waited \in [Conns -> 0 .. HelloTimeout + 1]
  /\ unseen \in [Conns -> 0 .. HeartbeatTimeout + 1]
  /\ unpinged \in [Conns -> 0 .. HeartbeatInterval + 1]
  /\ scanning \in BOOLEAN /\ timedOut \subseteq Conns /\ expired \subseteq Conns
  /\ phase \in {"serving", "closing", "down"}
  /\ toNotify \subseteq Conns /\ closers \subseteq Conns

\* An open socket is never out of sight: it is pending and has a deadline, a hub
\* lists it and the scanner walks over it, or its hello timeout runs.  (A listed
\* connection that a full queue closed is seen, but CancelConnection passes it over:
\* FinallyCleans.)
\* RunConnection must list the connection before it unregisters the pending hello,
\* while the scanner, the timeout and the peer act at any moment.
OpenIsWatched ==
  \A c \in Conns : socket[c] = "open" =>
    c \in pending \/ c \in listed \/ timeout[c] \in {"started", "writing"}

\* A connection whose two loops have ended is out of its hub, whoever ended it and
\* in whatever order, or somebody is about to remove it, unless a full send queue had
\* closed it.
OnlyBreakerLeaks ==
  \A c \in Conns : reader[c] = "done" /\ c \in listed => tripped[c] \/ c \in cancelling

\* docs/server-spec.md:524: the clean-up of a connection whose context was cancelled
\* by a full queue is ensured by the end of the read loop.
FinallyCleans ==
  \A c \in Conns : reader[c] = "done" /\ c \notin cancelling =>
                    c \notin listed /\ socket[c] = "closed"

\* context.go:192: direct writes and the send loop share one mutex, for the library
\* allows one writer of data frames at a time.
OneDataWriter ==
  \A c \in Conns : ~(sender[c] = "writing" /\ timeout[c] = "writing")

\* No socket waits for its hello for ever: the hello, an error or the timeout ends
\* the wait, unless the server shuts down.
HelloOrTimeout ==
  \A c \in Conns : c \in pending ~> (c \notin pending \/ phase # "serving")

\* A connection whose socket is dead leaves its hub, though its read loop waits for
\* a send loop that nothing wakes but the next message: a ping or the heartbeat
\* timeout does.  A connection closed by a full queue is the exception.
DeadAreReaped ==
  \A c \in Conns : (c \in listed /\ socket[c] = "closed") ~>
                     (c \notin listed \/ tripped[c] \/ phase = "down")

\* Shutdown ends if every peer answers its close frame, whatever happens to the
\* connections it waits for in the meantime.
ShutdownCompletes == phase = "closing" ~> phase = "down"

=============================================================================
