------------------------------- MODULE UserHub -------------------------------
(***************************************************************************)
(* internal/hub/hub.go, with the parts of internal/hosting and             *)
(* internal/models that drive it: the hub of one user, its connections,    *)
(* the recovery window after a process start, and the two goroutines that  *)
(* apply clips to it.                                                      *)
(*                                                                         *)
(*   "loop"    the user loop: takes jobs (hello, clip) from the queue      *)
(*   "closer"  whoever closes the recovery window, the scanner or a        *)
(*             connection in AddConnection: applies the clips that waited  *)
(*                                                                         *)
(* A step of the model is what the code does under one mutex.  ApplyClip   *)
(* takes several mutexes in turn, so it is several steps, and the two      *)
(* goroutines may interleave between them.                                 *)
(*                                                                         *)
(* The token bucket answers either way: what it answers is the subject of  *)
(* a module of its own.  Definitions named Bug_... are plausible errors in *)
(* the definition that follows; no specification uses them.                *)
(***************************************************************************)
EXTENDS SeenIdRing, SnapshotElection, FiniteSetsExt

CONSTANTS
  Conns,            \* the connections of the user
  Ids, Contents,    \* clip ids, and what payload, hash and encrypted stand for
  ClipsOf,          \* the clips each connection may submit
  Hello,            \* the hello of each connection
  None,             \* no text, no snapshot, nobody
  InitialVersion,   \* store.GetVersion when the hub is created
  MaxVersion,       \* math.MaxUint64
  QueueCapacity,    \* Limits.RecoveryClipQueueCapacity
  SnapshotBudget,   \* Limits.SnapshotTotalBytes
  WindowOverAtStart,\* the hub is created after the recovery window
  MaxSends,         \* bound on the clips the connections submit
  MaxSendsEach      \* bound on those of one connection

ASSUME HubAssumption ==
  /\ MaxVersion \in Nat /\ InitialVersion \in 0 .. MaxVersion
  /\ QueueCapacity \in Nat
  /\ SnapshotBudget \in Nat /\ MaxSends \in Nat /\ MaxSendsEach \in Nat
  /\ WindowOverAtStart \in BOOLEAN
  /\ ClipsOf \in [Conns -> SUBSET [id : Ids, content : Contents]]
  /\ Hello \in [Conns -> [client : Nat, version : 0 .. MaxVersion, time : Nat, bytes : Nat,
                          content : Contents \union {None}]]
  /\ {"loop", "closer"} \intersect Conns = {} /\ NoId \notin Ids
  /\ None \notin Contents \union [version : 0 .. MaxVersion, content : Contents] \union
                 [sender : Conns, clip : [id : Ids, content : Contents]] \union
                 {Hello[c] : c \in Conns}

Goroutines == {"loop", "closer"}

VARIABLES
  version, latest,  \* Hub.version and Hub.latest, under stateMu
  stored,           \* the user's version in the RuntimeStateStore
  seenIDs,          \* Hub.seenIDs
  connections,      \* Hub.connections, under connMu
  jobs,             \* Hub.jobs
  windowClosed,     \* Hub.recoveryWindowClosed, under snapshotMu with
  candidates,       \*   Hub.snapshotCandidates,
  snapshotBytes,    \*   Hub.snapshotBytes and
  recoveryQueue,    \*   Hub.recoveryQueue
  windowOver,       \* the clock has passed processStart + the window
  registered,       \* the registry still maps the user to this hub
  step,             \* how far each connection is in its life
  closed,           \* StateBag.closed (the context is cancelled with it)
  heard,            \* history: what was enqueued to each connection while open
  sent,             \* how many clips each connection has submitted
  lost,             \* history: the connections a clip of which died with the user loop
  pc,               \* the step each goroutine is at
  work,             \* the clip it applies, and who sent it
  text,             \* the text it delivers, or a connection's AddConnection does
  targets,          \* the connections it has yet to deliver to
  backlog,          \* the closer's copy of the recovery queue
  applied           \* history: what was applied, in the order of Hub.version's writes

hubVars == <<version, latest, stored, seenIDs, jobs, applied>>
windowVars == <<windowClosed, candidates, snapshotBytes, recoveryQueue, windowOver>>
connVars == <<connections, step, closed, heard, sent>>
threadVars == <<pc, work, text, targets, backlog>>
vars == <<hubVars, windowVars, connVars, threadVars, registered, lost>>

Init ==
  /\ version = InitialVersion /\ latest = None /\ stored = InitialVersion
  /\ seenIDs = NewRing
  /\ connections = {} /\ jobs = <<>>
  /\ windowClosed = FALSE /\ candidates = <<>> /\ snapshotBytes = 0
  /\ recoveryQueue = <<>>
  /\ windowOver = WindowOverAtStart
  /\ registered = TRUE
  /\ step = [c \in Conns |-> "out"]
  /\ closed = [c \in Conns |-> FALSE]
  /\ heard = [c \in Conns |-> [newest |-> {}, welcomed |-> FALSE, answers |-> 0, reply |-> None]]
  /\ sent = [c \in Conns |-> 0] /\ lost = {}
  /\ pc = [g \in Goroutines |-> "idle"]
  /\ work = [g \in Goroutines |-> None]
  /\ text = [x \in Goroutines \union Conns |-> None]
  /\ targets = [g \in Goroutines |-> {}]
  /\ backlog = <<>>
  /\ applied = <<>>

(***************************************************************************)
(* A message is its type ("welcome", "clip", "ack", "error") and its text. *)
(* Of all messages to a connection the history keeps the texts of highest  *)
(* version, whether one was a welcome, how many answered a clip, and what  *)
(* the last of these said.                                                 *)
(***************************************************************************)
Newest(texts, t) ==
  IF t = None \/ \E u \in texts : u.version > t.version
    THEN texts
    ELSE {u \in texts : u.version = t.version} \union {t}

Hear(h, type, t) ==
  [newest   |-> Newest(h.newest, t),
   welcomed |-> h.welcomed \/ type = "welcome",
   answers  |-> h.answers + (IF type \in {"ack", "error"} THEN 1 ELSE 0),
   reply    |-> IF type \in {"ack", "error"} THEN t ELSE h.reply]

(***************************************************************************)
(* TryEnqueueSend, and what every caller in the hub does when the queue is *)
(* full: MarkClosed and Cancel, nothing else.  A queue may be full at any  *)
(* time, for its reader is the client.  What is queued once the context is *)
(* cancelled reaches nobody.                                               *)
(***************************************************************************)
Enqueue(c, type, t) ==
  \/ /\ heard' = IF closed[c] THEN heard ELSE [heard EXCEPT ![c] = Hear(@, type, t)]
     /\ UNCHANGED closed
  \/ /\ ~closed[c]
     /\ closed' = [closed EXCEPT ![c] = TRUE]
     /\ UNCHANGED heard

\* CancelConnection of every connection in C: one already closed is left as it is.
CancelConnections(C) ==
  LET live == {c \in C : ~closed[c]}
  IN  /\ closed' = [c \in Conns |-> closed[c] \/ c \in live]
      /\ connections' = connections \ live

-----------------------------------------------------------------------------
(***************************************************************************)
(* A connection: RunConnection, AddConnection, readLoop and sendLoop.      *)
(***************************************************************************)
\* GetOrCreateHub: the registry still had the hub when the connection asked for it.
GetHub(c) ==
  /\ step[c] = "out" /\ registered
  /\ step' = [step EXCEPT ![c] = "found"]
  /\ UNCHANGED <<connections, closed, heard, sent, hubVars, windowVars, threadVars, registered,
                 lost>>

\* A user loop that panicked is started again by whoever still comes with its hub.
StartIfIdle(c) ==
  /\ step[c] = "found"
  /\ pc' = IF pc["loop"] = "dead" THEN [pc EXCEPT !["loop"] = "idle"] ELSE pc
  /\ step' = [step EXCEPT ![c] = "started"]
  /\ UNCHANGED <<connections, closed, heard, sent, hubVars, windowVars, registered, lost, work,
                 text, targets, backlog>>

\* AddConnection appends to the hub it was given, removed or dead as that may be by now.
Connect(c) ==
  /\ step[c] = "started"
  /\ connections' = connections \union {c}
  /\ step' = [step EXCEPT ![c] = "added"]
  /\ UNCHANGED <<closed, heard, sent, hubVars, windowVars, threadVars, registered, lost>>

\* AddConnection after the append: the window is closed, so Latest is read for a welcome.
AddLatest(c) ==
  /\ step[c] = "added" /\ windowClosed
  /\ text' = [text EXCEPT ![c] = latest]
  /\ step' = [step EXCEPT ![c] = "welcome"]
  /\ UNCHANGED <<connections, closed, heard, sent, hubVars, windowVars, registered, lost, pc, work,
                 targets, backlog>>

Bug_NoEmptyWelcome(c) ==
  /\ step[c] = "welcome"
  /\ IF text[c] = None THEN UNCHANGED <<heard, closed>> ELSE Enqueue(c, "welcome", text[c])
  /\ text' = [text EXCEPT ![c] = None]
  /\ step' = [step EXCEPT ![c] = "hello"]
  /\ UNCHANGED <<connections, sent, hubVars, windowVars, registered, lost, pc, work, targets,
                 backlog>>

AddWelcome(c) ==
  /\ step[c] = "welcome"
  /\ Enqueue(c, "welcome", text[c])
  /\ text' = [text EXCEPT ![c] = None]
  /\ step' = [step EXCEPT ![c] = "hello"]
  /\ UNCHANGED <<connections, sent, hubVars, windowVars, registered, lost, pc, work, targets,
                 backlog>>

\* The window was open at that check: EnsureRecoveryWindowClosed looks again.
AddOpen(c) ==
  /\ step[c] = "added" /\ ~windowClosed
  /\ step' = [step EXCEPT ![c] = "ensure"]
  /\ UNCHANGED <<connections, closed, heard, sent, hubVars, windowVars, threadVars, registered,
                 lost>>

AddNothing(c) ==
  /\ step[c] = "ensure"
  /\ windowClosed \/ ~windowOver
  /\ step' = [step EXCEPT ![c] = "hello"]
  /\ UNCHANGED <<connections, closed, heard, sent, hubVars, windowVars, threadVars, registered,
                 lost>>

\* RunConnection queues the hello and starts the loops.
SayHello(c) ==
  /\ step[c] = "hello"
  /\ jobs' = Append(jobs, [type |-> "hello", sender |-> c])
  /\ step' = [step EXCEPT ![c] = "serving"]
  /\ UNCHANGED <<connections, closed, heard, sent, windowVars, threadVars, registered, lost,
                 version, latest, stored, seenIDs, applied>>

Submitted == MapThenSumSet(LAMBDA c : sent[c], Conns)

Bug_QueueOffByOne == Len(recoveryQueue) > QueueCapacity

QueueFull == Len(recoveryQueue) >= QueueCapacity

\* readLoop receives a clip, and ClassifyClip says what becomes of it.
Submit(c, clip) ==
  /\ step[c] = "serving" /\ ~closed[c] /\ Submitted < MaxSends /\ sent[c] < MaxSendsEach
  /\ sent' = [sent EXCEPT ![c] = @ + 1]
  /\ \/ /\ windowClosed
        /\ jobs' = Append(jobs, [type |-> "clip", sender |-> c, clip |-> clip])
        /\ UNCHANGED <<recoveryQueue, closed, connections>>
     \/ /\ ~windowClosed /\ QueueFull
        /\ CancelConnections({c})
        /\ UNCHANGED <<jobs, recoveryQueue>>
     \/ /\ ~windowClosed /\ ~QueueFull
        /\ recoveryQueue' = Append(recoveryQueue, [sender |-> c, clip |-> clip])
        /\ UNCHANGED <<jobs, closed, connections>>
  /\ UNCHANGED <<step, heard, threadVars, registered, lost, version, latest, stored, seenIDs,
                 applied, windowClosed, candidates, snapshotBytes, windowOver>>

\* The peer is gone, or the scanner gave up on it: CancelConnection, the loops end.
Leave(c) ==
  /\ step[c] \in {"serving", "stranded"}
  /\ CancelConnections({c})
  /\ step' = [step EXCEPT ![c] = "gone"]
  /\ UNCHANGED <<heard, sent, hubVars, windowVars, threadVars, registered, lost>>

-----------------------------------------------------------------------------
(***************************************************************************)
(* The user loop takes a job.                                              *)
(***************************************************************************)
\* AcceptSnapshot: within the byte budget, while the window is open.
AcceptSnapshot(c) ==
  IF \/ Hello[c].content = None \/ windowClosed
     \/ snapshotBytes + Hello[c].bytes > SnapshotBudget
    THEN UNCHANGED <<candidates, snapshotBytes>>
    ELSE /\ candidates' = Append(candidates, Hello[c])
         /\ snapshotBytes' = snapshotBytes + Hello[c].bytes

TakeHello ==
  /\ pc["loop"] = "idle" /\ jobs # <<>> /\ Head(jobs).type = "hello"
  /\ AcceptSnapshot(Head(jobs).sender)
  /\ jobs' = Tail(jobs)
  /\ UNCHANGED <<version, latest, stored, seenIDs, applied, connVars, threadVars, registered, lost,
                 windowClosed, recoveryQueue, windowOver>>

TakeClip ==
  /\ pc["loop"] = "idle" /\ jobs # <<>> /\ Head(jobs).type = "clip"
  /\ work' = [work EXCEPT !["loop"] = [sender |-> Head(jobs).sender, clip |-> Head(jobs).clip]]
  /\ pc' = [pc EXCEPT !["loop"] = "check"]
  /\ jobs' = Tail(jobs)
  /\ UNCHANGED <<version, latest, stored, seenIDs, applied, connVars, windowVars, registered, lost,
                 text, targets, backlog>>

-----------------------------------------------------------------------------
(***************************************************************************)
(* CloseRecoveryWindow.                                                    *)
(***************************************************************************)

\* The clock passes the end of the window.
WindowEnds ==
  /\ ~windowOver
  /\ windowOver' = TRUE
  /\ UNCHANGED <<windowClosed, candidates, snapshotBytes, recoveryQueue, hubVars, connVars,
                 threadVars, registered, lost>>

\* A winner newer than the hub is restored, and so is an equal one if the hub has no text.
Restorable(winner) ==
  /\ winner # None
  /\ winner.version > version \/ (winner.version = version /\ latest = None)

\* Under snapshotMu: the election, the restored text, and the closer's copy of the queue.
CloseWindow ==
  LET winner == SelectSnapshotWinner(candidates, None)
  IN  /\ windowOver /\ ~windowClosed
      /\ windowClosed' = TRUE
      /\ IF Restorable(winner)
           THEN /\ version' = winner.version
                /\ latest' = [version |-> winner.version, content |-> winner.content]
                /\ stored' = IF winner.version > stored THEN winner.version ELSE stored
           ELSE UNCHANGED <<version, latest, stored>>
      /\ backlog' = recoveryQueue
      /\ recoveryQueue' = <<>>
      /\ pc' = [pc EXCEPT !["closer"] = "next"]
      /\ UNCHANGED <<candidates, snapshotBytes, windowOver, seenIDs, jobs, applied, registered,
                     lost, connections, closed, heard, sent, work, text, targets>>

\* The scanner closes the window of every hub in the registry.
ScannerCloses ==
  /\ registered
  /\ CloseWindow
  /\ UNCHANGED step

\* EnsureRecoveryWindowClosed closes it from AddConnection.
AddCloses(c) ==
  /\ step[c] = "ensure"
  /\ CloseWindow
  /\ step' = [step EXCEPT ![c] = "closing"]

\* The next clip of the backlog; those of closed connections are dropped.
CloserTakes ==
  /\ pc["closer"] = "next" /\ backlog # <<>>
  /\ backlog' = Tail(backlog)
  /\ IF closed[Head(backlog).sender]
       THEN UNCHANGED <<pc, work>>
       ELSE /\ work' = [work EXCEPT !["closer"] = Head(backlog)]
            /\ pc' = [pc EXCEPT !["closer"] = "check"]
  /\ UNCHANGED <<hubVars, windowVars, connVars, registered, lost, text, targets>>

Bug_WelcomeOnlyText ==
  /\ pc["closer"] = "next" /\ backlog = <<>>
  /\ text' = [text EXCEPT !["closer"] = latest]
  /\ pc' = [pc EXCEPT !["closer"] = IF latest = None THEN "welcome" ELSE "recipients"]
  /\ UNCHANGED <<hubVars, windowVars, connVars, registered, lost, work, targets, backlog>>

\* broadcastWelcome reads Latest, then the connections.
CloserLatest ==
  /\ pc["closer"] = "next" /\ backlog = <<>>
  /\ text' = [text EXCEPT !["closer"] = latest]
  /\ pc' = [pc EXCEPT !["closer"] = "recipients"]
  /\ UNCHANGED <<hubVars, windowVars, connVars, registered, lost, work, targets, backlog>>

CloserRecipients ==
  /\ pc["closer"] = "recipients"
  /\ targets' = [targets EXCEPT !["closer"] = connections]
  /\ pc' = [pc EXCEPT !["closer"] = "welcome"]
  /\ UNCHANGED <<hubVars, windowVars, connVars, registered, lost, work, text, backlog>>

CloserWelcome(c) ==
  /\ pc["closer"] = "welcome" /\ c \in targets["closer"]
  /\ Enqueue(c, "welcome", text["closer"])
  /\ targets' = [targets EXCEPT !["closer"] = @ \ {c}]
  /\ UNCHANGED <<hubVars, windowVars, connections, step, sent, registered, lost, pc, work, text,
                 backlog>>

\* Where AddConnection goes on if it ran the closer.
CloserReturns(to) == step' = [c \in Conns |-> IF step[c] = "closing" THEN to ELSE step[c]]

\* RemoveEmptyHubAfterRecovery.
CloserSweeps ==
  /\ pc["closer"] = "welcome" /\ targets["closer"] = {}
  /\ registered' = (registered /\ connections # {})
  /\ pc' = [pc EXCEPT !["closer"] = "done"]
  /\ CloserReturns("hello")
  /\ text' = [text EXCEPT !["closer"] = None]
  /\ UNCHANGED <<hubVars, windowVars, connections, closed, heard, sent, lost, work, targets,
                 backlog>>

\* ScanHeartbeats removes a hub that has been empty for ten minutes.
RemoveIdle ==
  /\ registered /\ connections = {} /\ windowOver
  /\ registered' = FALSE
  /\ UNCHANGED <<hubVars, windowVars, connVars, threadVars, lost>>

-----------------------------------------------------------------------------
(***************************************************************************)
(* ApplyClip, by the user loop or by the closer.                           *)
(***************************************************************************)
\* ApplyClip returns and its locals go out of scope.
Applied(g) ==
  /\ pc' = [pc EXCEPT ![g] = IF g = "loop" THEN "idle" ELSE "next"]
  /\ work' = [work EXCEPT ![g] = None]
  /\ text' = [text EXCEPT ![g] = None]

Sender(g) == work[g].sender
Clip(g) == work[g].clip
Unchanged(g) == IsUnchangedDuplicate(seenIDs, Clip(g).id, Clip(g).content)

Bug_SilentDuplicate(g) ==
  /\ pc[g] = "check" /\ Unchanged(g)
  /\ Applied(g)
  /\ UNCHANGED <<hubVars, windowVars, connVars, registered, lost, targets, backlog>>

Bug_AcksLatest(g) ==
  /\ pc[g] = "check" /\ Unchanged(g)
  /\ Enqueue(Sender(g), "ack", latest)
  /\ Applied(g)
  /\ UNCHANGED <<hubVars, windowVars, connections, step, sent, registered, lost, targets, backlog>>

\* A repeated clip is acknowledged with the version it already has.
AckDuplicate(g) ==
  /\ pc[g] = "check" /\ Unchanged(g)
  /\ Enqueue(Sender(g), "ack", seenIDs.entries[Clip(g).id])
  /\ Applied(g)
  /\ UNCHANGED <<hubVars, windowVars, connections, step, sent, registered, lost, targets, backlog>>

\* The ring is unlocked again before the bucket and the version are looked at.
PassCheck(g) ==
  /\ pc[g] = "check" /\ ~Unchanged(g)
  /\ pc' = [pc EXCEPT ![g] = "reserve"]
  /\ UNCHANGED <<hubVars, windowVars, connVars, registered, lost, work, text, targets, backlog>>

Bug_SilentLimit(g) ==
  /\ pc[g] = "reserve"
  /\ Applied(g)
  /\ UNCHANGED <<hubVars, windowVars, connVars, registered, lost, targets, backlog>>

RateLimit(g) ==
  /\ pc[g] = "reserve"
  /\ Enqueue(Sender(g), "error", None)
  /\ Applied(g)
  /\ UNCHANGED <<hubVars, windowVars, connections, step, sent, registered, lost, targets, backlog>>

Bug_SkipsOne(v) == v + 2

NextVersion(v) == v + 1

Bug_UnsavedReserve(g) ==
  /\ pc[g] = "reserve" /\ version < MaxVersion
  /\ text' = [text EXCEPT ![g] =
                [version |-> NextVersion(version), content |-> Clip(g).content]]
  /\ pc' = [pc EXCEPT ![g] = "install"]
  /\ UNCHANGED <<hubVars, windowVars, connVars, registered, lost, work, targets, backlog>>

\* The bucket had a token: NextVersion of Hub.version, and SaveVersion before anyone hears of it.
Reserve(g) ==
  /\ pc[g] = "reserve" /\ version < MaxVersion
  /\ text' = [text EXCEPT ![g] =
                [version |-> NextVersion(version), content |-> Clip(g).content]]
  /\ stored' = IF NextVersion(version) > stored THEN NextVersion(version) ELSE stored
  /\ pc' = [pc EXCEPT ![g] = "install"]
  /\ UNCHANGED <<version, latest, seenIDs, jobs, applied, windowVars, connVars, registered, lost,
                 work, targets, backlog>>

\* NextVersion panics: RebuildHub for the user loop; nothing but a log entry for the closer.
LoopPanics ==
  /\ pc["loop"] = "reserve" /\ version = MaxVersion
  /\ pc' = [pc EXCEPT !["loop"] = "dead"]
  /\ registered' = FALSE
  /\ IF registered THEN CancelConnections(connections) ELSE UNCHANGED <<closed, connections>>
  /\ lost' = lost \union {Sender("loop")}
  /\ work' = [work EXCEPT !["loop"] = None]
  /\ UNCHANGED <<hubVars, windowVars, step, heard, sent, text, targets, backlog>>

CloserPanics ==
  /\ pc["closer"] = "reserve" /\ version = MaxVersion
  /\ pc' = [pc EXCEPT !["closer"] = "panicked"]
  /\ CloserReturns("stranded")
  /\ UNCHANGED <<hubVars, windowVars, connections, closed, heard, sent, registered, lost, work,
                 text, targets, backlog>>

\* Hub.version and Hub.latest are replaced together.
Install(g) ==
  /\ pc[g] = "install"
  /\ version' = text[g].version
  /\ latest' = text[g]
  /\ applied' = Append(applied, [clip |-> Clip(g), version |-> text[g].version])
  /\ pc' = [pc EXCEPT ![g] = "remember"]
  /\ UNCHANGED <<stored, seenIDs, jobs, windowVars, connVars, registered, lost, work, text,
                 targets, backlog>>

Bug_ExcludesClient(g) == {c \in connections : Hello[c].client # Hello[Sender(g)].client}

\* The other connections of the same client still hear of the clip.
Recipients(g) == connections \ {Sender(g)}

RememberClip(g) ==
  /\ pc[g] = "remember"
  /\ seenIDs' = Remember(seenIDs, Clip(g).id, text[g])
  /\ targets' = [targets EXCEPT ![g] = Recipients(g)]
  /\ pc' = [pc EXCEPT ![g] = "broadcast"]
  /\ UNCHANGED <<version, latest, stored, jobs, applied, windowVars, connVars, registered, lost,
                 work, text, backlog>>

Broadcast(g, c) ==
  /\ pc[g] = "broadcast" /\ c \in targets[g]
  /\ Enqueue(c, "clip", text[g])
  /\ targets' = [targets EXCEPT ![g] = @ \ {c}]
  /\ UNCHANGED <<hubVars, windowVars, connections, step, sent, registered, lost, pc, work, text,
                 backlog>>

Ack(g) ==
  /\ pc[g] = "broadcast" /\ targets[g] = {}
  /\ Enqueue(Sender(g), "ack", text[g])
  /\ Applied(g)
  /\ UNCHANGED <<hubVars, windowVars, connections, step, sent, registered, lost, targets, backlog>>

-----------------------------------------------------------------------------
ConnectionStep(c) ==
  \/ StartIfIdle(c) \/ Connect(c)
  \/ AddLatest(c) \/ AddWelcome(c) \/ AddOpen(c) \/ AddNothing(c) \/ AddCloses(c)
  \/ SayHello(c)

ApplyStep(g) ==
  \/ AckDuplicate(g) \/ PassCheck(g) \/ RateLimit(g) \/ Reserve(g) \/ Install(g)
  \/ RememberClip(g) \/ (\E c \in Conns : Broadcast(g, c)) \/ Ack(g)

LoopStep == TakeHello \/ TakeClip \/ ApplyStep("loop") \/ LoopPanics

CloserStep ==
  \/ CloserTakes \/ CloserLatest \/ CloserRecipients
  \/ (\E c \in Conns : CloserWelcome(c)) \/ CloserSweeps
  \/ ApplyStep("closer") \/ CloserPanics

Next ==
  \/ \E c \in Conns : GetHub(c) \/ ConnectionStep(c) \/ Leave(c)
  \/ \E c \in Conns : \E clip \in ClipsOf[c] : Submit(c, clip)
  \/ LoopStep \/ CloserStep
  \/ WindowEnds \/ ScannerCloses \/ RemoveIdle

\* Goroutines are scheduled, the clock runs and the scanner ticks; clients owe nothing.
Fairness ==
  /\ WF_vars(LoopStep) /\ WF_vars(CloserStep)
  /\ \A c \in Conns : WF_vars(ConnectionStep(c))
  /\ WF_vars(WindowEnds) /\ WF_vars(ScannerCloses)

Spec == Init /\ [][Next]_vars
FairSpec == Spec /\ Fairness

-----------------------------------------------------------------------------
Text == [version : 0 .. MaxVersion, content : Contents]
Steps == {"out", "found", "started", "added", "ensure", "welcome", "closing", "hello", "serving",
          "stranded", "gone"}
Points == {"idle", "next", "check", "reserve", "install", "remember", "broadcast", "recipients",
           "welcome", "done", "dead", "panicked"}

TypeOK ==
  /\ version \in 0 .. MaxVersion /\ stored \in 0 .. MaxVersion
  /\ latest \in Text \union {None}
  /\ seenIDs.order \in [Slots -> Ids \union {NoId}] /\ seenIDs.next \in Slots
  /\ DOMAIN seenIDs.entries \subseteq {seenIDs.order[i] : i \in Slots}
  /\ connections \subseteq Conns
  /\ windowClosed \in BOOLEAN /\ windowOver \in BOOLEAN /\ registered \in BOOLEAN
  /\ snapshotBytes \in 0 .. SnapshotBudget /\ Len(recoveryQueue) <= QueueCapacity
  /\ step \in [Conns -> Steps] /\ closed \in [Conns -> BOOLEAN]
  /\ sent \in [Conns -> Nat] /\ lost \subseteq Conns
  /\ pc \in [Goroutines -> Points]

\* A connection in service whose messages still reach its client.
Live(c) == step[c] = "serving" /\ ~closed[c]

\* Nothing is left to do but wait for clients.
Quiet ==
  /\ pc["loop"] = "idle" /\ pc["closer"] = "done"
  /\ jobs = <<>>
  /\ \A c \in Conns : step[c] \in {"out", "serving", "gone"}

(***************************************************************************)
(* When the hub is quiet, every live connection was told the hub's latest  *)
(* text, and nothing that passes for newer.  A connection that joins while *)
(* a clip is applied hears of it from the broadcast or from its welcome:   *)
(* AddConnection appends before it reads Latest, ApplyClip replaces Latest *)
(* before it reads the connections.                                        *)
(***************************************************************************)
Converged ==
  Quiet /\ latest # None =>
    \A c \in Conns : Live(c) => heard[c].newest = {latest}

(***************************************************************************)
(* When the hub is quiet, every clip of a live connection was answered     *)
(* once, with an ack or an error: neither the recovery queue nor the job   *)
(* queue loses or repeats one.  Excepted is the sender of a clip that the  *)
(* user loop panicked at: RebuildHub cancels nobody in a hub that was out  *)
(* of the registry already, and StartIfIdle may start the loop again.      *)
(***************************************************************************)
EveryClipAnswered ==
  Quiet => \A c \in Conns : Live(c) /\ c \notin lost => heard[c].answers = sent[c]

(***************************************************************************)
(* When the hub is quiet, every live connection was welcomed, whichever of *)
(* AddConnection, the scanner and another connection's AddConnection       *)
(* closed the window, and whenever.                                        *)
(***************************************************************************)
EveryoneWelcomed ==
  Quiet => \A c \in Conns : Live(c) => heard[c].welcomed

(***************************************************************************)
(* The store holds at least every version a client was told of and the     *)
(* hub's own: SaveVersion precedes the announcement, so a hub created      *)
(* later starts above everything this one announced.                       *)
(***************************************************************************)
SavedBeforeAnnounced ==
  /\ version <= stored
  /\ \A c \in Conns : \A t \in heard[c].newest : t.version <= stored

(***************************************************************************)
(* Applied clips are numbered one after the other.  This needs a single    *)
(* applier: it holds for a hub created after the recovery window.          *)
(***************************************************************************)
GaplessVersions ==
  \A i \in DOMAIN applied : applied[i].version = InitialVersion + i

(***************************************************************************)
(* No version is given to two different texts.                             *)
(***************************************************************************)
OneTextPerVersion ==
  \A i, j \in DOMAIN applied :
    applied[i].version = applied[j].version => applied[i].clip.content = applied[j].clip.content

(***************************************************************************)
(* A clip repeated with the content its id last had makes no new version   *)
(* while no more than RingCapacity clips were applied since, unless one of *)
(* those overwrote the slot of an older use of the id.  This too needs a   *)
(* single applier.                                                         *)
(***************************************************************************)
UsedAt(k, id) == applied[k].clip.id = id

RepeatKeepsVersion ==
  \A i, j \in DOMAIN applied :
    /\ i < j /\ j - i <= RingCapacity
    /\ applied[i].clip = applied[j].clip
    => \E k \in i + 1 .. j - 1 :
         \/ UsedAt(k, applied[i].clip.id)
         \/ k > RingCapacity /\ UsedAt(k - RingCapacity, applied[i].clip.id)

(***************************************************************************)
(* What the window restores is the best candidate, by version, then time,  *)
(* then client, in whatever order the hellos were accepted, and never a    *)
(* version below the one the hub started from.                             *)
(***************************************************************************)
BestCandidateRestored ==
  windowClosed /\ applied = <<>> =>
    /\ version >= InitialVersion
    /\ \A i \in DOMAIN candidates :
         LET c == candidates[i] IN
         c.version > 0 =>
           /\ version >= c.version
           /\ latest = None => c.version < version
    /\ latest # None =>
         \E i \in DOMAIN candidates :
           /\ latest = [version |-> candidates[i].version, content |-> candidates[i].content]
           /\ \A j \in DOMAIN candidates : ~Before(candidates[j], candidates[i])

(***************************************************************************)
(* A hub created after the recovery window behaves as if one consumer took *)
(* its jobs in turn and a clip became a version in one step, although      *)
(* ApplyClip takes five mutexes one after the other and connections join,  *)
(* leave and are cut off between any two of them.                          *)
(***************************************************************************)
Serial == INSTANCE SerialHub WITH
  inbox <- jobs,
  current <- work["loop"],
  done <- pc["loop"] \in {"remember", "broadcast"},
  log <- applied,
  told <- [c \in Conns |->
             [newest |-> heard[c].newest, answers |-> heard[c].answers, reply |-> heard[c].reply]],
  open <- {c \in Conns : ~closed[c]}

ImplementsSerial == Serial!Spec

(***************************************************************************)
(* A connection in service is welcomed, or ends: the window does close.    *)
(***************************************************************************)
EventuallyWelcomed ==
  \A c \in Conns :
    step[c] = "serving" ~>
      \/ heard[c].welcomed \/ closed[c] \/ step[c] = "gone"
      \/ pc["closer"] = "panicked"

(***************************************************************************)
(* A submitted clip is answered, or its connection ends: a clip that waits *)
(* for the window does not wait for ever.  Excepted is what a panic of     *)
(* ApplyClip at the largest version leaves behind.  In the closer: clips   *)
(* of the backlog it had yet to take.  In the user loop: connections of a  *)
(* hub that was out of the registry already, which RebuildHub leaves       *)
(* alone, and those that got the hub before and append themselves after    *)
(* RebuildHub has listed its connections.                                  *)
(***************************************************************************)
EventuallyAnswered ==
  \A c \in Conns :
    heard[c].answers < sent[c] ~>
      \/ heard[c].answers = sent[c] \/ closed[c] \/ step[c] = "gone"
      \/ pc["closer"] = "panicked" \/ pc["loop"] = "dead" \/ c \in lost
=============================================================================
