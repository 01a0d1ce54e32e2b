-------------------------- MODULE HubRegistryProofs --------------------------
(***************************************************************************)
(* For any connections, any number of hubs and any largest version: no hub *)
(* has two user loops, and the hub the registry knows serves those who     *)
(* joined it.                                                              *)
(***************************************************************************)
EXTENDS HubRegistry, TLAPS

\* The registry and the connections know only hubs that were created.
Created ==
  /\ registry \in 0 .. made
  /\ \A c \in Conns : step[c] \in {"got", "started", "in", "gone"} => hub[c] \in 1 .. made
  /\ \A h \in Hubs : rebuilding[h] => h <= made

\* A hub lists the connections that joined it, and no others.
Listed ==
  \A h \in Hubs : \A c \in connections[h] : hub[c] = h /\ step[c] = "in"

\* A hub under RebuildHub is out of the registry, and its loop still counts as running.
Rebuilt ==
  \A h \in Hubs : rebuilding[h] => registry # h /\ loops[h] = 1

\* A hub in the registry has a loop as soon as somebody is past StartIfIdle.
Started ==
  \A c \in Conns :
    step[c] \in {"started", "in"} /\ hub[c] = registry => loops[registry] = 1

(***************************************************************************)
(* The inductive invariant.  LoopServes alone is not inductive: that the   *)
(* hub of the registry has a loop rests on GetOrCreateHub having started   *)
(* it (Started), and that a failing loop leaves the hub of the registry    *)
(* alone rests on RebuildHub having removed its own (Rebuilt).             *)
(***************************************************************************)
IInv == TypeOK /\ Created /\ Listed /\ Rebuilt /\ Started

\* The invariant says what the run checks.
LEMMA InvServes == IInv => LoopServes
<1> SUFFICES ASSUME IInv, registry # NoHub, connections[registry] # {}
             PROVE  loops[registry] = 1 /\ ~rebuilding[registry]
  BY DEF LoopServes
<1>1. registry \in Hubs
  BY DEF IInv, TypeOK
<1>2. PICK c \in connections[registry] : TRUE
  OBVIOUS
<1>3. c \in Conns /\ hub[c] = registry /\ step[c] = "in"
  BY <1>1, <1>2 DEF IInv, TypeOK, Listed
<1>4. loops[registry] = 1
  BY <1>3 DEF IInv, Started
<1>5. ~rebuilding[registry]
  BY <1>1 DEF IInv, Rebuilt
<1> QED
  BY <1>4, <1>5

\* It holds before any connection.
LEMMA InvInit == Init => IInv
<1> SUFFICES ASSUME Init PROVE IInv
  OBVIOUS
<1>1. /\ rebuilding \in [Hubs -> BOOLEAN] /\ windowClosed \in [Hubs -> BOOLEAN]
      /\ connections \in [Hubs -> SUBSET Conns] /\ loops \in [Hubs -> {0, 1}]
  BY DEF Init
<1>2. /\ version \in [Hubs -> 0 .. MaxVersion] /\ initial \in [Conns -> 0 .. MaxVersion]
      /\ hub \in [Conns -> Hubs \union {NoHub}]
      /\ step \in [Conns -> {"out", "read", "got", "started", "in", "gone"}]
  BY RegistryAssumption DEF Init
<1>3. made \in 0 .. MaxHubs /\ stored \in 0 .. MaxVersion
  BY RegistryAssumption DEF Init
<1>4. /\ registry \in Hubs \union {NoHub} /\ emptied \in Hubs \union {NoHub}
      /\ windowOver \in BOOLEAN
  BY DEF Init
<1>5. TypeOK
  BY <1>1, <1>2, <1>3, <1>4 DEF TypeOK
<1>6. Created /\ Listed /\ Rebuilt /\ Started
  BY RegistryAssumption DEF Init, Created, Listed, Rebuilt, Started, NoHub
<1> QED
  BY <1>5, <1>6 DEF IInv

\* Every step of a connection, the scanner or a user loop preserves it.
LEMMA InvStep == IInv /\ [Next]_vars => IInv'
<1> SUFFICES ASSUME IInv, [Next]_vars PROVE IInv'
  OBVIOUS
<1> USE RegistryAssumption DEF IInv, NoHub
<1>1. ASSUME NEW c \in Conns, GetVersion(c)
      PROVE  IInv'
  <2>1. TypeOK'
    BY <1>1 DEF GetVersion, hubVars, TypeOK
  <2>2. Created'
    BY <1>1 DEF GetVersion, hubVars, Created, TypeOK
  <2>3. (Listed /\ Rebuilt)'
    BY <1>1 DEF GetVersion, hubVars, Listed, Rebuilt, TypeOK
  <2>4. Started'
    BY <1>1 DEF GetVersion, hubVars, Started, TypeOK
  <2> QED
    BY <2>1, <2>2, <2>3, <2>4
<1>2. ASSUME NEW c \in Conns, GetHub(c)
      PROVE  IInv'
  <2>1. TypeOK'
    BY <1>2 DEF GetHub, hubVars, TypeOK
  <2>2. Created'
    BY <1>2 DEF GetHub, hubVars, Created, TypeOK, Hubs
  <2>3. (Listed /\ Rebuilt)'
    BY <1>2 DEF GetHub, hubVars, Listed, Rebuilt, TypeOK
  <2>4. Started'
    BY <1>2 DEF GetHub, hubVars, Started, TypeOK
  <2> QED
    BY <2>1, <2>2, <2>3, <2>4
<1>3. ASSUME NEW c \in Conns, CreateHub(c)
      PROVE  IInv'
  <2>1. TypeOK'
    BY <1>3 DEF CreateHub, TypeOK, Hubs
  <2>2. Created'
    BY <1>3 DEF CreateHub, Created, TypeOK, Hubs
  <2>3. Listed'
    BY <1>3 DEF CreateHub, Listed, TypeOK
  <2>4. Rebuilt'
    BY <1>3 DEF CreateHub, Rebuilt, Created, TypeOK, Hubs
  <2>5. Started'
    BY <1>3 DEF CreateHub, Started, Created, TypeOK
  <2> QED
    BY <2>1, <2>2, <2>3, <2>4, <2>5
<1>4. ASSUME NEW c \in Conns, StartIfIdle(c)
      PROVE  IInv'
  <2>1. TypeOK'
    BY <1>4 DEF StartIfIdle, TypeOK
  <2>2. Created'
    BY <1>4 DEF StartIfIdle, Created, TypeOK
  <2>3. Listed'
    BY <1>4 DEF StartIfIdle, Listed, TypeOK
  <2>4. Rebuilt'
    BY <1>4 DEF StartIfIdle, Rebuilt, TypeOK
  <2>5. Started'
    BY <1>4 DEF StartIfIdle, Started, Created, TypeOK, Hubs
  <2> QED
    BY <2>1, <2>2, <2>3, <2>4, <2>5
<1>5. ASSUME NEW c \in Conns, AddConnection(c)
      PROVE  IInv'
  <2>1. TypeOK'
    BY <1>5 DEF AddConnection, TypeOK
  <2>2. Created'
    BY <1>5 DEF AddConnection, Created, TypeOK
  <2>3. Listed'
    BY <1>5 DEF AddConnection, Listed, TypeOK
  <2>4. (Rebuilt /\ Started)'
    BY <1>5 DEF AddConnection, Rebuilt, Started, TypeOK
  <2> QED
    BY <2>1, <2>2, <2>3, <2>4
<1>6. ASSUME NEW c \in Conns, Leave(c)
      PROVE  IInv'
  <2>1. TypeOK'
    BY <1>6 DEF Leave, TypeOK
  <2>2. Created'
    BY <1>6 DEF Leave, Created, TypeOK
  <2>3. Listed'
    BY <1>6 DEF Leave, Listed, TypeOK
  <2>4. (Rebuilt /\ Started)'
    BY <1>6 DEF Leave, Rebuilt, Started, TypeOK
  <2> QED
    BY <2>1, <2>2, <2>3, <2>4
<1>7. CASE WindowEnds \/ CloseWindow \/ FindIdle
  <2>1. TypeOK'
    BY <1>7 DEF WindowEnds, CloseWindow, FindIdle, hubVars, connVars, TypeOK
  <2>2. UNCHANGED <<registry, made, connections, loops, rebuilding, step, hub>>
    BY <1>7 DEF WindowEnds, CloseWindow, FindIdle, hubVars, connVars
  <2> QED
    BY <2>1, <2>2 DEF Created, Listed, Rebuilt, Started
<1>8. CASE RemoveEmpty
  <2>1. registry' \in {registry, NoHub}
    BY <1>8 DEF RemoveEmpty
  <2>2. UNCHANGED <<made, connections, loops, rebuilding, step, hub>>
    BY <1>8 DEF RemoveEmpty, hubVars, connVars
  <2>3. TypeOK'
    BY <1>8 DEF RemoveEmpty, hubVars, connVars, TypeOK
  <2>4. (Created /\ Listed)'
    BY <2>1, <2>2 DEF Created, Listed, TypeOK
  <2>5. Rebuilt'
    BY <2>1, <2>2 DEF Rebuilt, Hubs
  <2>6. Started'
    BY <2>1, <2>2 DEF Started, Created
  <2> QED
    BY <2>3, <2>4, <2>5, <2>6
<1>9. ASSUME NEW h \in Hubs, Apply(h)
      PROVE  IInv'
  <2>1. TypeOK'
    BY <1>9 DEF Apply, connVars, TypeOK
  <2>2. UNCHANGED <<registry, made, connections, loops, rebuilding, step, hub>>
    BY <1>9 DEF Apply, connVars
  <2> QED
    BY <2>1, <2>2 DEF Created, Listed, Rebuilt, Started
<1>10. ASSUME NEW h \in Hubs, LoopFails(h)
       PROVE  IInv'
  <2>1. UNCHANGED <<made, stored, windowOver, emptied, version, connections, windowClosed,
                    step, initial, hub>>
    BY <1>10 DEF LoopFails, connVars
  <2>2. loops[h] = 1
    BY <1>10 DEF LoopFails, Takes, TypeOK
  <2>3. h <= made
    BY <1>10 DEF LoopFails, Takes, Joined, Created
  <2>4. CASE registry = h
    <3>1. /\ registry' = NoHub /\ UNCHANGED loops
          /\ rebuilding' = [rebuilding EXCEPT ![h] = TRUE]
      BY <1>10, <2>4 DEF LoopFails
    <3>2. TypeOK'
      BY <2>1, <3>1 DEF TypeOK
    <3>3. (Created /\ Listed)'
      BY <2>1, <2>3, <3>1 DEF Created, Listed, TypeOK
    <3>4. Rebuilt'
      BY <2>2, <3>1 DEF Rebuilt, TypeOK, Hubs
    <3>5. Started'
      BY <2>1, <3>1 DEF Started, Created
    <3> QED
      BY <3>2, <3>3, <3>4, <3>5
  <2>5. CASE registry # h
    <3>1. /\ loops' = [loops EXCEPT ![h] = 0]
          /\ UNCHANGED <<registry, rebuilding>>
      BY <1>10, <2>2, <2>5 DEF LoopFails, TypeOK
    <3>2. TypeOK'
      BY <2>1, <3>1 DEF TypeOK
    <3>3. (Created /\ Listed)'
      BY <2>1, <3>1 DEF Created, Listed
    <3>4. Rebuilt'
      BY <1>10, <3>1 DEF Rebuilt, LoopFails, Takes, TypeOK
    <3>5. Started'
      BY <2>1, <2>5, <3>1 DEF Started, TypeOK
    <3> QED
      BY <3>2, <3>3, <3>4, <3>5
  <2> QED
    BY <2>4, <2>5
<1>11. ASSUME NEW h \in Hubs, CancelAll(h)
       PROVE  IInv'
  <2>1. registry # h /\ loops[h] = 1
    BY <1>11 DEF CancelAll, Rebuilt
  <2>2. TypeOK'
    BY <1>11, <2>1 DEF CancelAll, TypeOK
  <2>3. Created'
    BY <1>11 DEF CancelAll, Created, Listed, TypeOK
  <2>4. Listed'
    BY <1>11 DEF CancelAll, Listed, TypeOK
  <2>5. Rebuilt'
    BY <1>11 DEF CancelAll, Rebuilt, TypeOK
  <2>6. Started'
    BY <1>11, <2>1 DEF CancelAll, Started, TypeOK
  <2> QED
    BY <2>2, <2>3, <2>4, <2>5, <2>6
<1>12. CASE UNCHANGED vars
  BY <1>12 DEF vars, hubVars, connVars, TypeOK, Created, Listed, Rebuilt, Started
<1> QED
  BY <1>1, <1>2, <1>3, <1>4, <1>5, <1>6, <1>7, <1>8, <1>9, <1>10, <1>11, <1>12 DEF Next

\* No hub ever has two user loops, and every variable keeps its type.
THEOREM RegistryTypes == Spec => []TypeOK
<1>1. IInv => TypeOK
  BY DEF IInv
<1> QED
  BY InvInit, InvStep, <1>1, PTL DEF Spec

\* Whoever joined the hub that the registry knows has a user loop that has not failed.
THEOREM JoinedAreServed == Spec => []LoopServes
BY InvInit, InvStep, InvServes, PTL DEF Spec
=============================================================================
