--------------------------- MODULE VersionRecovery ---------------------------
(***************************************************************************)
(* The store, the hub of one user and its clients, over many lives of the  *)
(* server process: what becomes of the versions clients were told when the *)
(* process crashes, stops or reclaims the hub, and what the recovery       *)
(* window repairs from the snapshots of the clients that come back.        *)
(*                                                                         *)
(* The store is RuntimeStateStore, step by step.  Of the hub and of the    *)
(* clients only versions are kept: texts, ids and queues are UserHub's     *)
(* subject.  Two goroutines apply clips: the one that closes the window    *)
(* applies those that waited, and meanwhile the user loop those that come. *)
(* The user has one hub at a time; how two come about is HubRegistry's     *)
(* subject.  A message that is sent reaches its client at once or is lost  *)
(* with the connection.  Clients are external: each keeps the last version *)
(* the server told it and reports it in its hello                          *)
(* (docs/server-spec.md:704).  There are any number of them, so neither    *)
(* they nor their connections are told apart: every version ever told may  *)
(* be reported, and every version a connection read may make a hub.        *)
(*                                                                         *)
(* Definitions named Bug_... are plausible errors in the definition that   *)
(* follows each of them; no specification uses them.                       *)
(***************************************************************************)
EXTENDS RuntimeStateStore

CONSTANTS
  User,         \* the user whose hub this is
  Closer,       \* the goroutine that closes the window and applies the clips that waited
  Loop          \* the user loop

Appliers == {Closer, Loop}

ASSUME RecoveryAssumption == User \in Users /\ Appliers \subseteq Savers /\ Closer # Loop

VARIABLES
  exists,       \* the registry has a hub of the user
  hubVersion,   \* Hub.version
  hasLatest,    \* Hub.latest is not nil
  windowOver,   \* the clock has passed the recovery window of this process
  windowClosed, \* Hub.recoveryWindowClosed
  candidates,   \* the versions of Hub.snapshotCandidates
  closing,      \* the closer has yet to broadcast the welcome
  stage,        \* where each applier is in ApplyClip
  next,         \* the version ApplyClip gives its clip
  initial,      \* what GetVersion returned to connections that may yet call GetOrAdd
  online,       \* Hub.connections is not empty
  told,         \* the versions some client was told
  sealed,       \* history: told, unless behind, when Stop went on to its Flush
  cleanStop,    \* history: that Flush did not fail
  behind,       \* history: a restart found the file behind told, not repaired since
  raced         \* history: the hub was made from a version that the store had outgrown, or
                \* its closer and its loop were in ApplyClip at the same time

hubVars == <<exists, hubVersion, hasLatest, windowClosed, candidates, closing, stage, next, raced>>
clientVars == <<initial, online>>
historyVars == <<told, sealed, cleanStop, behind>>
systemVars == <<vars, hubVars, windowOver, clientVars, historyVars>>

\* No hub, as when the process starts and after the hub was reclaimed.
NoHub ==
  /\ exists' = FALSE /\ hubVersion' = 0 /\ hasLatest' = FALSE
  /\ windowClosed' = FALSE /\ candidates' = {} /\ closing' = FALSE
  /\ stage' = [s \in Appliers |-> "idle"] /\ next' = [s \in Appliers |-> 0]
  /\ raced' = FALSE

SystemInit ==
  /\ Init
  /\ exists = FALSE /\ hubVersion = 0 /\ hasLatest = FALSE
  /\ windowOver = FALSE /\ windowClosed = FALSE /\ candidates = {} /\ closing = FALSE
  /\ stage = [s \in Appliers |-> "idle"] /\ next = [s \in Appliers |-> 0]
  /\ initial = {} /\ online = FALSE
  /\ told = {} /\ sealed = {}
  /\ cleanStop = FALSE /\ behind = FALSE /\ raced = FALSE

-----------------------------------------------------------------------------
(***************************************************************************)
(* Connections.  An upgrade that began before the listener was closed may  *)
(* finish until the process ends, so connections join in every phase.      *)
(***************************************************************************)
\* GetOrCreateHub reads the stored version first, for the hub it may have to make.
Lookup ==
  /\ versions[User] \notin initial
  /\ initial' = initial \union {versions[User]}
  /\ UNCHANGED <<vars, hubVars, windowOver, online, historyVars>>

\* GetOrAdd makes a hub; AddConnection closes its window at once if the time is over.
CreateHub ==
  /\ ~exists /\ exists' = TRUE
  /\ hubVersion' \in initial
  /\ raced' = (hubVersion' # versions[User])
  /\ windowClosed' = windowOver

\* A hello may have a snapshot, of a version the client was told; it is a candidate if it
\* fits the budget and the user loop takes it before the window closes.
Offered(closed) ==
  candidates' \in {candidates} \union {candidates \union {v} : v \in IF closed THEN {} ELSE told}

\* A message with version v is sent, and reaches a client or not.
Tell(v) == told' \in {told, told \union {v}}

\* snapshotMu and stateMu are held until the restored version is saved.
Restoring == closing /\ stage[Closer] = "idle" /\ saver[Closer] # "idle"

\* GetOrAdd and AddConnection.  If the window is closed AddConnection sends a welcome; one
\* without a text tells no version.
Join ==
  /\ initial # {} /\ ~Restoring
  /\ \/ /\ CreateHub
        /\ Offered(windowOver)
        /\ UNCHANGED told
     \/ /\ exists /\ (windowClosed \/ ~windowOver)
        /\ Offered(windowClosed)
        /\ IF windowClosed /\ hasLatest THEN Tell(hubVersion) ELSE UNCHANGED told
        /\ UNCHANGED <<exists, hubVersion, windowClosed, raced>>
  /\ online' = TRUE
  /\ UNCHANGED <<vars, hasLatest, windowOver, closing, stage, next, initial, sealed, cleanStop,
                 behind>>

\* The last connection of the hub ends.
Leave ==
  /\ online
  /\ online' = FALSE
  /\ UNCHANGED <<vars, hubVars, windowOver, initial, historyVars>>

-----------------------------------------------------------------------------
(***************************************************************************)
(* The hub.                                                                *)
(***************************************************************************)
WindowEnds ==
  /\ ~windowOver
  /\ windowOver' = TRUE
  /\ UNCHANGED <<vars, hubVars, clientVars, historyVars>>

\* SelectSnapshotWinner: the highest version comes first; 0 is no winner.
Winner ==
  IF candidates = {} THEN 0 ELSE CHOOSE v \in candidates : \A w \in candidates : v >= w

\* CloseRecoveryWindow, by the scanner or by a connection that is about to join: a newer
\* winner is saved and restored, an equal one is restored if the hub has no text.
Bug_RestoreUnsaved ==
  /\ exists /\ windowOver /\ ~windowClosed
  /\ windowClosed' = TRUE /\ closing' = TRUE
  /\ hubVersion' = IF Winner > hubVersion THEN Winner ELSE hubVersion
  /\ hasLatest' = (hasLatest \/ (Winner # 0 /\ Winner >= hubVersion))
  /\ UNCHANGED <<vars, exists, windowOver, candidates, stage, next, raced, clientVars, historyVars>>

CloseWindow ==
  /\ exists /\ windowOver /\ ~windowClosed
  /\ windowClosed' = TRUE /\ closing' = TRUE
  /\ \/ /\ Winner > hubVersion
        /\ SaveMerge(Closer, User, Winner)
        /\ hubVersion' = Winner
        /\ hasLatest' = TRUE
     \/ /\ Winner <= hubVersion
        /\ hasLatest' = (hasLatest \/ (Winner # 0 /\ Winner = hubVersion))
        /\ UNCHANGED <<vars, hubVersion>>
  /\ UNCHANGED <<exists, windowOver, candidates, stage, next, raced, clientVars, historyVars>>

\* broadcastWelcome, once the restored version is saved and the clips that waited are applied.
\* The store is repaired if a client brought a version as high as any that was told.
Welcome ==
  /\ closing /\ closing' = FALSE
  /\ stage[Closer] = "idle" /\ saver[Closer] = "idle"
  /\ IF online /\ hasLatest THEN Tell(hubVersion) ELSE UNCHANGED told
  /\ behind' = (behind /\ ~\E v \in candidates : \A w \in told : v >= w)
  /\ UNCHANGED <<vars, exists, hubVersion, hasLatest, windowOver, windowClosed, candidates, stage,
                 next, raced, initial, online, sealed, cleanStop>>

\* ApplyClip reads the hub's version: by the closer, for a clip that waited, or by the user
\* loop, for one that came after the window was closed.
ApplyClip(s) ==
  /\ exists /\ windowClosed /\ ~Restoring
  /\ s = Closer => closing
  /\ stage[s] = "idle" /\ saver[s] = "idle"
  /\ hubVersion < MaxVersion
  /\ next' = [next EXCEPT ![s] = hubVersion + 1]
  /\ stage' = [stage EXCEPT ![s] = "read"]
  /\ raced' = (raced \/ \E t \in Appliers \ {s} : stage[t] # "idle")
  /\ UNCHANGED <<vars, exists, hubVersion, hasLatest, windowOver, windowClosed, candidates, closing,
                 clientVars, historyVars>>

\* It saves the next one ...
ApplySave(s) ==
  /\ stage[s] = "read"
  /\ stage' = [stage EXCEPT ![s] = "saving"]
  /\ SaveMerge(s, User, next[s])
  /\ UNCHANGED <<exists, hubVersion, hasLatest, windowOver, windowClosed, candidates, closing, next,
                 raced, clientVars, historyVars>>

\* ... and makes it the hub's, whatever the hub's has become meanwhile.  Everyone online is
\* told: the sender by its ack, the others by the broadcast.
Install(s) ==
  /\ stage[s] = "saving" /\ saver[s] = "idle"
  /\ hubVersion' = next[s]
  /\ hasLatest' = TRUE
  /\ IF online THEN Tell(next[s]) ELSE UNCHANGED told
  /\ stage' = [stage EXCEPT ![s] = "idle"] /\ next' = [next EXCEPT ![s] = 0]
  /\ UNCHANGED <<vars, exists, windowOver, windowClosed, candidates, closing, raced,
                 initial, online, sealed, cleanStop, behind>>

\* The scanner removes a hub without connections, after the window or after ten minutes.
Reclaim ==
  /\ exists /\ windowClosed /\ ~online /\ phase = "serving"
  /\ ~closing /\ \A s \in Appliers : stage[s] = "idle"
  /\ NoHub
  /\ UNCHANGED <<vars, windowOver, clientVars, historyVars>>

-----------------------------------------------------------------------------
(***************************************************************************)
(* The process.  The store's own steps leave the hub alone.                *)
(***************************************************************************)
StoreStep ==
  /\ \/ \E s \in Savers : SaveMark(s)
     \/ \E f \in Flushers : FlushSwap(f) \/ FlushSnapshot(f)
     \/ ServeFails \/ StopClose \/ LoopExit
  /\ UNCHANGED <<hubVars, windowOver, clientVars, historyVars>>

\* A Flush returns.  If it is the one of Stop, whether it failed is remembered.
FlushReturns(f) ==
  /\ \/ /\ FlushClean(f) \/ FlushWrite(f)
        /\ cleanStop' = (cleanStop \/ (f = "main" /\ phase = "final"))
     \/ FlushFail(f) /\ UNCHANGED cleanStop
  /\ UNCHANGED <<hubVars, windowOver, clientVars, told, sealed, behind>>

\* Server.Shutdown has said bye and waited; it cancels every connection and goes on to flush.
CancelAll ==
  /\ Shutdown
  /\ online' = FALSE
  /\ UNCHANGED <<hubVars, windowOver, initial, historyVars>>

Bug_StopDoesNotWait ==
  /\ phase = "closing"
  /\ phase' = "final"
  /\ sealed' = IF behind THEN {} ELSE told
  /\ UNCHANGED <<versions, isDirty, file, writeGate, flush, entries, saver, loopDone, hubVars,
                 windowOver, clientVars, told, cleanStop, behind>>

StopFlushes ==
  /\ StopWait
  /\ sealed' = IF behind THEN {} ELSE told
  /\ UNCHANGED <<hubVars, windowOver, clientVars, told, cleanStop, behind>>

\* The process ends, in order or by a crash at any step; clients keep what they were told.
NewProcess ==
  /\ Restart
  /\ NoHub
  /\ windowOver' = FALSE
  /\ initial' = {} /\ online' = FALSE
  /\ sealed' = {} /\ cleanStop' = FALSE
  /\ behind' = (\E v \in told : file[User] < v)
  /\ UNCHANGED told

SystemNext ==
  \/ Lookup \/ Join \/ Leave
  \/ \E s \in Appliers : ApplyClip(s) \/ ApplySave(s) \/ Install(s)
  \/ WindowEnds \/ CloseWindow \/ Welcome \/ Reclaim
  \/ StoreStep \/ (\E f \in Flushers : FlushReturns(f))
  \/ CancelAll \/ StopFlushes \/ NewProcess

SystemSpec == SystemInit /\ [][SystemNext]_systemVars

\* The fairness of the store, with which what was saved reaches the file.
FairSystemSpec == SystemSpec /\ Fairness

-----------------------------------------------------------------------------
SystemTypeOK ==
  /\ TypeOK
  /\ exists \in BOOLEAN /\ hubVersion \in Version /\ hasLatest \in BOOLEAN
  /\ windowOver \in BOOLEAN /\ windowClosed \in BOOLEAN
  /\ candidates \subseteq Version \ {0}
  /\ closing \in BOOLEAN
  /\ stage \in [Appliers -> {"idle", "read", "saving"}] /\ next \in [Appliers -> Version]
  /\ initial \subseteq Version /\ online \in BOOLEAN
  /\ told \subseteq Version \ {0} /\ sealed \subseteq Version \ {0}
  /\ cleanStop \in BOOLEAN /\ behind \in BOOLEAN /\ raced \in BOOLEAN

(***************************************************************************)
(* A hub that gives out versions does not repeat one a client was told, by *)
(* this hub, an earlier hub of the process or an earlier process.  The     *)
(* docs promise versions that stay monotonic across restarts               *)
(* (docs/server-spec.md:13) and know no exception.  The code has three:    *)
(* the process was restarted from a file that lacks the version, and no    *)
(* client brought it back in the window (behind); the connection that made *)
(* this hub had read the stored version before another hub gave out more   *)
(* and was reclaimed (raced); or the closer and the user loop applied      *)
(* clips of this hub at the same time, and the one that came late put the  *)
(* hub's version back (raced).                                             *)
(***************************************************************************)
NoVersionReused ==
  exists /\ windowClosed /\ ~behind /\ ~raced => \A v \in told : hubVersion >= v

(***************************************************************************)
(* When the process has stopped in order and its last write did not fail,  *)
(* the file has every version a client was told before Stop went on to its *)
(* Flush, although the flush loop may have taken the dirty flag before.    *)
(***************************************************************************)
StopKeepsTold == cleanStop => \A v \in sealed : file[User] >= v
=============================================================================
