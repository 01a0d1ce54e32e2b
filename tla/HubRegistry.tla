----------------------------- MODULE HubRegistry -----------------------------
(***************************************************************************)
(* internal/hub/registry.go and its callers in internal/sync/server.go and *)
(* internal/hub/hub.go, for one user: which hub the registry maps the user *)
(* to while connections look it up and join it, the scanner sweeps empty   *)
(* hubs away, and a failed user loop rebuilds its hub.                     *)
(*                                                                         *)
(* Hubs are numbered in the order they are created; 0 is no hub.  What a   *)
(* hub does with a clip is UserHub's subject: here it takes the next       *)
(* version and saves it.  Definitions named Bug_... are plausible errors   *)
(* in the definition that follows; no specification uses them.             *)
(***************************************************************************)
EXTENDS Naturals

CONSTANTS
  Conns,        \* connections of the user
  MaxHubs,      \* bound on the hubs created
  MaxVersion    \* math.MaxUint64

ASSUME RegistryAssumption == MaxHubs \in Nat /\ MaxVersion \in Nat

Hubs == 1 .. MaxHubs
NoHub == 0

VARIABLES
  registry,     \* Registry.hubs[username]
  made,         \* how many hubs were created
  version,      \* Hub.version
  stored,       \* the user's version in the store
  connections,  \* Hub.connections
  loops,        \* goroutines of StartIfIdle that have yet to clear userLoopRunning
  rebuilding,   \* RebuildHub has removed the hub and has yet to cancel its connections
  windowClosed, \* Hub.recoveryWindowClosed
  windowOver,   \* the clock has passed the recovery window
  emptied,      \* the hub the scanner found empty and is about to remove
  step,         \* how far each connection is in RunConnection
  initial,      \* the version it read for a hub it may create
  hub           \* the hub it got

hubVars == <<version, connections, loops, rebuilding, windowClosed>>
connVars == <<step, initial, hub>>
vars == <<registry, made, stored, windowOver, emptied, hubVars, connVars>>

Init ==
  /\ registry = NoHub /\ made = 0 /\ stored = 0
  /\ version = [h \in Hubs |-> 0]
  /\ connections = [h \in Hubs |-> {}]
  /\ loops = [h \in Hubs |-> 0]
  /\ rebuilding = [h \in Hubs |-> FALSE]
  /\ windowClosed = [h \in Hubs |-> FALSE]
  /\ windowOver = FALSE
  /\ emptied = NoHub
  /\ step = [c \in Conns |-> "out"]
  /\ initial = [c \in Conns |-> 0]
  /\ hub = [c \in Conns |-> NoHub]

-----------------------------------------------------------------------------
(***************************************************************************)
(* GetOrCreateHub reads the store, takes or creates the hub under the      *)
(* registry's lock, and starts the user loop; AddConnection follows.       *)
(***************************************************************************)
GetVersion(c) ==
  /\ step[c] = "out"
  /\ initial' = [initial EXCEPT ![c] = stored]
  /\ step' = [step EXCEPT ![c] = "read"]
  /\ UNCHANGED <<registry, made, stored, windowOver, emptied, hubVars, hub>>

GetHub(c) ==
  /\ step[c] = "read" /\ registry # NoHub
  /\ hub' = [hub EXCEPT ![c] = registry]
  /\ step' = [step EXCEPT ![c] = "got"]
  /\ UNCHANGED <<registry, made, stored, windowOver, emptied, hubVars, initial>>

CreateHub(c) ==
  /\ step[c] = "read" /\ registry = NoHub /\ made < MaxHubs
  /\ made' = made + 1
  /\ registry' = made + 1
  /\ version' = [version EXCEPT ![made + 1] = initial[c]]
  /\ hub' = [hub EXCEPT ![c] = made + 1]
  /\ step' = [step EXCEPT ![c] = "got"]
  /\ UNCHANGED <<stored, windowOver, emptied, connections, loops, rebuilding, windowClosed,
                 initial>>

Bug_AlwaysStarts(c) ==
  /\ step[c] = "got"
  /\ loops' = [loops EXCEPT ![hub[c]] = @ + 1]
  /\ step' = [step EXCEPT ![c] = "started"]
  /\ UNCHANGED <<registry, made, stored, windowOver, emptied, version, connections, rebuilding,
                 windowClosed, initial, hub>>

StartIfIdle(c) ==
  /\ step[c] = "got"
  /\ loops' = [loops EXCEPT ![hub[c]] = IF @ = 0 THEN 1 ELSE @]
  /\ step' = [step EXCEPT ![c] = "started"]
  /\ UNCHANGED <<registry, made, stored, windowOver, emptied, version, connections, rebuilding,
                 windowClosed, initial, hub>>

\* The connection that finds the window over closes it; the hub it joined is not empty.
AddConnection(c) ==
  /\ step[c] = "started"
  /\ connections' = [connections EXCEPT ![hub[c]] = @ \union {c}]
  /\ windowClosed' = [windowClosed EXCEPT ![hub[c]] = @ \/ windowOver]
  /\ step' = [step EXCEPT ![c] = "in"]
  /\ UNCHANGED <<registry, made, stored, windowOver, emptied, version, loops, rebuilding,
                 initial, hub>>

\* CancelConnection, for any reason of the connection's own.
Leave(c) ==
  /\ step[c] = "in"
  /\ connections' = [connections EXCEPT ![hub[c]] = @ \ {c}]
  /\ step' = [step EXCEPT ![c] = "gone"]
  /\ UNCHANGED <<registry, made, stored, windowOver, emptied, version, loops, rebuilding,
                 windowClosed, initial, hub>>

-----------------------------------------------------------------------------
(***************************************************************************)
(* RemoveIfEmpty, by the scanner: it sees an empty hub, then removes it    *)
(* under the registry's lock if the registry still maps the user to it.    *)
(***************************************************************************)
WindowEnds ==
  /\ ~windowOver
  /\ windowOver' = TRUE
  /\ UNCHANGED <<registry, made, stored, emptied, hubVars, connVars>>

\* CloseRecoveryWindow, up to the check of RemoveEmptyHubAfterRecovery.
CloseWindow ==
  /\ emptied = NoHub /\ registry # NoHub
  /\ windowOver /\ ~windowClosed[registry]
  /\ windowClosed' = [windowClosed EXCEPT ![registry] = TRUE]
  /\ emptied' = IF connections[registry] = {} THEN registry ELSE NoHub
  /\ UNCHANGED <<registry, made, stored, windowOver, version, connections, loops, rebuilding,
                 connVars>>

\* ScanHeartbeats finds a hub that has been empty for ten minutes.
FindIdle ==
  /\ emptied = NoHub /\ registry # NoHub
  /\ windowOver /\ connections[registry] = {}
  /\ emptied' = registry
  /\ UNCHANGED <<registry, made, stored, windowOver, hubVars, connVars>>

RemoveEmpty ==
  /\ emptied # NoHub
  /\ registry' = IF registry = emptied THEN NoHub ELSE registry
  /\ emptied' = NoHub
  /\ UNCHANGED <<made, stored, windowOver, hubVars, connVars>>

-----------------------------------------------------------------------------
(***************************************************************************)
(* The user loop applies a clip, or fails at the largest version.          *)
(***************************************************************************)
\* A connection joined, and may have queued clips before it left.
Joined(h) == \E c \in Conns : hub[c] = h /\ step[c] \in {"in", "gone"}

Takes(h) == loops[h] > 0 /\ ~rebuilding[h] /\ Joined(h)

Apply(h) ==
  /\ Takes(h) /\ version[h] < MaxVersion
  /\ version' = [version EXCEPT ![h] = @ + 1]
  /\ stored' = IF version[h] + 1 > stored THEN version[h] + 1 ELSE stored
  /\ UNCHANGED <<registry, made, windowOver, emptied, connections, loops, rebuilding,
                 windowClosed, connVars>>

Bug_KeepsMapping(h) ==
  /\ Takes(h) /\ version[h] = MaxVersion
  /\ rebuilding' = [rebuilding EXCEPT ![h] = TRUE]
  /\ UNCHANGED <<registry, made, stored, windowOver, emptied, version, connections, loops,
                 windowClosed, connVars>>

\* The recover of StartIfIdle runs RebuildHub: a hub already replaced is left alone.
LoopFails(h) ==
  /\ Takes(h) /\ version[h] = MaxVersion
  /\ IF registry = h
       THEN /\ registry' = NoHub
            /\ rebuilding' = [rebuilding EXCEPT ![h] = TRUE]
            /\ UNCHANGED loops
       ELSE /\ loops' = [loops EXCEPT ![h] = @ - 1]
            /\ UNCHANGED <<registry, rebuilding>>
  /\ UNCHANGED <<made, stored, windowOver, emptied, version, connections, windowClosed,
                 connVars>>

\* RebuildHub cancels the connections it lists, and only then is the loop marked idle.
CancelAll(h) ==
  /\ rebuilding[h]
  /\ step' = [c \in Conns |-> IF c \in connections[h] THEN "gone" ELSE step[c]]
  /\ connections' = [connections EXCEPT ![h] = {}]
  /\ rebuilding' = [rebuilding EXCEPT ![h] = FALSE]
  /\ loops' = [loops EXCEPT ![h] = @ - 1]
  /\ UNCHANGED <<registry, made, stored, windowOver, emptied, version, windowClosed, initial,
                 hub>>

Next ==
  \/ \E c \in Conns : \/ GetVersion(c) \/ GetHub(c) \/ CreateHub(c)
                      \/ StartIfIdle(c) \/ AddConnection(c) \/ Leave(c)
  \/ WindowEnds \/ CloseWindow \/ FindIdle \/ RemoveEmpty
  \/ \E h \in Hubs : Apply(h) \/ LoopFails(h) \/ CancelAll(h)

Spec == Init /\ [][Next]_vars

-----------------------------------------------------------------------------
\* Among the types: no hub ever has two user loops.
TypeOK ==
  /\ registry \in Hubs \union {NoHub} /\ made \in 0 .. MaxHubs
  /\ version \in [Hubs -> 0 .. MaxVersion] /\ stored \in 0 .. MaxVersion
  /\ connections \in [Hubs -> SUBSET Conns]
  /\ loops \in [Hubs -> {0, 1}]
  /\ rebuilding \in [Hubs -> BOOLEAN] /\ windowClosed \in [Hubs -> BOOLEAN]
  /\ windowOver \in BOOLEAN /\ emptied \in Hubs \union {NoHub}
  /\ step \in [Conns -> {"out", "read", "got", "started", "in", "gone"}]
  /\ initial \in [Conns -> 0 .. MaxVersion]
  /\ hub \in [Conns -> Hubs \union {NoHub}]

(***************************************************************************)
(* A connection that joined the hub the registry knows is served: that hub *)
(* has a user loop that has not failed.  RebuildHub removes the hub before *)
(* its loop counts as idle, and GetOrCreateHub starts the loop before it   *)
(* hands out the hub.                                                      *)
(***************************************************************************)
LoopServes ==
  registry # NoHub /\ connections[registry] # {} =>
    loops[registry] = 1 /\ ~rebuilding[registry]

(***************************************************************************)
(* The connections of the user share one hub.                              *)
(***************************************************************************)
OneHubPerUser ==
  \A c, d \in Conns : step[c] = "in" /\ step[d] = "in" => hub[c] = hub[d]
=============================================================================
