---------------------------- MODULE UserHubProofs ----------------------------
(***************************************************************************)
(* Proofs about UserHub, for any connections, ids, texts, clips, hellos,   *)
(* capacities and bounds, and for both goroutines that apply clips.        *)
(***************************************************************************)
EXTENDS UserHub, TLAPS, SequenceTheorems, FiniteSetTheorems, WellFoundedInduction

ClipSet == [id : Ids, content : Contents]
Queued == [sender : Conns, clip : ClipSet]
Job == [type : {"hello"}, sender : Conns] \union
       [type : {"clip"}, sender : Conns, clip : ClipSet]
Candidate == {Hello[c] : c \in {d \in Conns : Hello[d].content # None}}
Heard == [newest : SUBSET Text, welcomed : BOOLEAN, answers : Nat, reply : Text \union {None}]
Applying == {"check", "reserve", "install", "remember", "broadcast"}
Announcing == {"install", "remember", "broadcast"}

(***************************************************************************)
(* The types of all variables: TypeOK, and what the queues and the locals  *)
(* of the goroutines hold.                                                 *)
(***************************************************************************)
HubTypes ==
  /\ version \in 0 .. MaxVersion /\ stored \in 0 .. MaxVersion
  /\ latest \in Text \union {None}
  /\ jobs \in Seq(Job)
  /\ applied \in Seq([clip : ClipSet, version : 0 .. MaxVersion])

RingTypes ==
  /\ seenIDs.order \in [Slots -> Ids \union {NoId}] /\ seenIDs.next \in Slots
  /\ DOMAIN seenIDs.entries \subseteq {seenIDs.order[i] : i \in Slots}
  /\ \A id \in DOMAIN seenIDs.entries : seenIDs.entries[id] \in Text

WindowTypes ==
  /\ windowClosed \in BOOLEAN /\ windowOver \in BOOLEAN /\ registered \in BOOLEAN
  /\ candidates \in Seq(Candidate)
  /\ snapshotBytes \in 0 .. SnapshotBudget
  /\ recoveryQueue \in Seq(Queued) /\ Len(recoveryQueue) <= QueueCapacity

ConnTypes ==
  /\ connections \subseteq Conns
  /\ step \in [Conns -> Steps] /\ closed \in [Conns -> BOOLEAN]
  /\ heard \in [Conns -> Heard]
  /\ sent \in [Conns -> Nat]

ThreadTypes ==
  /\ pc \in [Goroutines -> Points]
  /\ work \in [Goroutines -> Queued \union {None}]
  /\ text \in [Goroutines \union Conns -> Text \union {None}]
  /\ targets \in [Goroutines -> SUBSET Conns]
  /\ backlog \in Seq(Queued)
  /\ \A g \in Goroutines : pc[g] \in Applying => work[g] \in Queued
  /\ \A g \in Goroutines : pc[g] \in Announcing => text[g] \in Text

Types == HubTypes /\ RingTypes /\ WindowTypes /\ ConnTypes /\ ThreadTypes

(***************************************************************************)
(* SavedBeforeAnnounced, and the same for every text on its way to a       *)
(* client: the hub's latest, those of the ring, and those a goroutine or   *)
(* an AddConnection holds.                                                 *)
(***************************************************************************)
UpTo(t, n) == t # None => t.version <= n

SavedVersion == version <= stored
SavedLatest == UpTo(latest, stored)
SavedRing == \A id \in DOMAIN seenIDs.entries : UpTo(seenIDs.entries[id], stored)
SavedTexts == \A x \in Goroutines \union Conns : UpTo(text[x], stored)
SavedHeard == \A c \in Conns : \A t \in heard[c].newest : UpTo(t, stored)

SavedInv == SavedVersion /\ SavedLatest /\ SavedRing /\ SavedTexts /\ SavedHeard

(***************************************************************************)
(* EveryoneWelcomed, before the hub is quiet.  A connection that found the *)
(* window open is owed a welcome by the closer: it is in the hub until the *)
(* closer copies the connections, and in the copy after that.              *)
(***************************************************************************)
\* The closer has yet to welcome c, or has died.
Pending(c) ==
  \/ pc["closer"] \in {"next", "recipients"} \union Applying /\ c \in connections
  \/ pc["closer"] = "welcome" /\ c \in targets["closer"]
  \/ pc["closer"] = "panicked"

CloserRuns == windowClosed <=> pc["closer"] # "idle"
Members == \A c \in Conns : ~closed[c] /\ step[c] \notin {"out", "found", "started", "gone"} =>
             c \in connections
Owed == \A c \in Conns :
          ~closed[c] /\ windowClosed /\ step[c] \in {"ensure", "closing", "hello", "serving"} =>
            heard[c].welcomed \/ Pending(c)

WelcomeInv == CloserRuns /\ Members /\ Owed

\* Before the window closes nothing is applied: the hub is as it was created.
BeforeClose ==
  ~windowClosed =>
    /\ version = InitialVersion /\ latest = None /\ applied = <<>>
    /\ pc["loop"] = "idle"
    /\ \A i \in 1 .. Len(jobs) : jobs[i].type = "hello"

(***************************************************************************)
(* A hub created after the recovery window: nobody is served before it     *)
(* closes its own, so nothing waits for the closer, and the user loop      *)
(* alone applies clips.                                                    *)
(***************************************************************************)
NothingWaits ==
  /\ windowOver
  /\ ~windowClosed => /\ jobs = <<>>
                      /\ \A c \in Conns : step[c] \notin {"welcome", "closing", "hello", "serving"}
  /\ recoveryQueue = <<>> /\ backlog = <<>> /\ candidates = <<>>
  /\ pc["closer"] \notin Applying

Numbered ==
  /\ version = InitialVersion + Len(applied)
  /\ pc["loop"] = "install" => text["loop"].version = version + 1
  /\ GaplessVersions

-----------------------------------------------------------------------------
(***************************************************************************)
(* Facts about the operators.                                              *)
(***************************************************************************)
\* A candidate is a record with a text.
LEMMA CandidateFields ==
  ASSUME NEW w \in Candidate
  PROVE  /\ w.client \in Nat /\ w.version \in 0 .. MaxVersion /\ w.time \in Nat /\ w.bytes \in Nat
         /\ w.content \in Contents /\ w # None
BY HubAssumption DEF Candidate

\* No text is None.
LEMMA NoneIsNoText == None \notin Text /\ \A t \in Text : t.version \in 0 .. MaxVersion
BY HubAssumption DEF Text

\* What TryEnqueueSend with its circuit breaker makes of the connections.
LEMMA EnqueueFacts ==
  ASSUME ConnTypes, NEW c \in Conns, NEW type, NEW t \in Text \union {None}, Enqueue(c, type, t)
  PROVE  /\ closed' \in [Conns -> BOOLEAN] /\ heard' \in [Conns -> Heard]
         /\ \A d \in Conns : closed[d] => closed'[d]
         /\ \A d \in Conns : heard[d].welcomed => heard'[d].welcomed
         /\ \A d \in Conns : \A u \in heard'[d].newest : u \in heard[d].newest \/ (u = t /\ t # None)
         /\ type = "welcome" /\ ~closed'[c] => heard'[c].welcomed
<1>1. /\ closed \in [Conns -> BOOLEAN] /\ heard \in [Conns -> Heard]
      /\ heard[c].newest \in SUBSET Text /\ heard[c].welcomed \in BOOLEAN
      /\ heard[c].answers \in Nat /\ heard[c].reply \in Text \union {None}
  BY DEF ConnTypes, Heard
<1> DEFINE old == heard[c].newest
<1>2. \A u \in Newest(old, t) : u \in old \/ (u = t /\ t # None)
  <2>1. CASE t = None \/ \E u \in old : u.version > t.version
    BY <2>1 DEF Newest
  <2>2. CASE ~(t = None \/ \E u \in old : u.version > t.version)
    <3>1. Newest(old, t) = {u \in old : u.version = t.version} \union {t} /\ t # None
      BY <2>2, Zenon DEF Newest
    <3> QED
      BY <3>1, Zenon
  <2> QED
    BY <2>1, <2>2
<1>3. Newest(old, t) \in SUBSET Text
  <2>1. \A u \in Newest(old, t) : u \in Text
    BY <1>1, <1>2
  <2> QED
    BY <2>1
<1> DEFINE h == Hear(heard[c], type, t)
<1>4. /\ h \in Heard /\ h.newest = Newest(old, t)
      /\ heard[c].welcomed => h.welcomed
      /\ type = "welcome" => h.welcomed
  <2>1. heard[c].answers + (IF type \in {"ack", "error"} THEN 1 ELSE 0) \in Nat
    BY <1>1
  <2>2. (heard[c].welcomed \/ type = "welcome") \in BOOLEAN
    OBVIOUS
  <2> QED
    BY <1>1, <1>3, <2>1, <2>2 DEF Hear, Heard
<1> HIDE DEF h
<1>5. CASE heard' = heard
  <2>1. \/ closed' = closed /\ closed[c]
        \/ closed' = closed /\ heard = [heard EXCEPT ![c] = h]
        \/ ~closed[c] /\ closed' = [closed EXCEPT ![c] = TRUE]
    BY <1>5 DEF Enqueue, h
  <2>2. closed' \in [Conns -> BOOLEAN] /\ \A d \in Conns : closed[d] => closed'[d]
    BY <1>1, <2>1
  <2>3. type = "welcome" /\ ~closed'[c] => heard'[c].welcomed
    <3>1. CASE closed' = closed /\ heard = [heard EXCEPT ![c] = h]
      BY <1>1, <1>4, <1>5, <3>1
    <3>2. CASE closed' = closed /\ closed[c]
      BY <3>2
    <3>3. CASE closed' = [closed EXCEPT ![c] = TRUE]
      BY <1>1, <3>3
    <3> QED
      BY <2>1, <3>1, <3>2, <3>3
  <2> QED
    BY <1>1, <1>5, <2>2, <2>3
<1>6. CASE heard' = [heard EXCEPT ![c] = h] /\ closed' = closed
  <2>1. heard' \in [Conns -> Heard] /\ heard'[c] = h
    BY <1>1, <1>4, <1>6
  <2>2. \A d \in Conns : d # c => heard'[d] = heard[d]
    BY <1>1, <1>6
  <2> QED
    BY <1>1, <1>2, <1>4, <1>6, <2>1, <2>2
<1> QED
  BY <1>5, <1>6 DEF Enqueue, h

\* CancelConnection marks connections closed and takes only those out of the hub.
LEMMA CancelFacts ==
  ASSUME ConnTypes, NEW C \in SUBSET Conns, CancelConnections(C)
  PROVE  /\ closed' \in [Conns -> BOOLEAN] /\ connections' \subseteq connections
         /\ \A d \in Conns : closed[d] => closed'[d]
         /\ \A d \in connections : ~closed'[d] => d \in connections'
BY DEF ConnTypes, CancelConnections

\* The ring after Remember: within its slots, and its entries are old ones or the new one.
LEMMA RememberFacts ==
  ASSUME RingTypes, NEW id \in Ids, NEW t \in Text, seenIDs' = Remember(seenIDs, id, t)
  PROVE  /\ RingTypes'
         /\ \A i \in DOMAIN seenIDs'.entries :
              \/ seenIDs'.entries[i] = t
              \/ i \in DOMAIN seenIDs.entries /\ seenIDs'.entries[i] = seenIDs.entries[i]
<1> DEFINE n == seenIDs.next
           evicted == seenIDs.order[n]
           kept == DOMAIN seenIDs.entries \ ({evicted} \ {id})
<1>1. /\ seenIDs'.entries = [i \in kept \union {id} |-> IF i = id THEN t ELSE seenIDs.entries[i]]
      /\ seenIDs'.order = [seenIDs.order EXCEPT ![n] = id]
      /\ seenIDs'.next = (n + 1) % RingCapacity
  BY DEF Remember
<1>2. n \in Slots /\ seenIDs.order \in [Slots -> Ids \union {NoId}]
  BY DEF RingTypes
<1>3. seenIDs'.next \in Slots
  BY <1>1, <1>2, RingAssumption DEF Slots
<1>4. seenIDs'.order \in [Slots -> Ids \union {NoId}]
  BY <1>1, <1>2
<1>5. kept \union {id} \subseteq {seenIDs'.order[i] : i \in Slots}
  <2>1. id \in {seenIDs'.order[i] : i \in Slots}
    BY <1>1, <1>2
  <2>2. ASSUME NEW k \in kept, k # id PROVE k \in {seenIDs'.order[i] : i \in Slots}
    <3>1. k # evicted /\ k \in DOMAIN seenIDs.entries
      BY <2>2
    <3>2. PICK i \in Slots : seenIDs.order[i] = k
      BY <3>1 DEF RingTypes
    <3>3. i # n /\ seenIDs'.order[i] = k
      BY <1>1, <1>2, <3>1, <3>2
    <3> QED
      BY <3>3
  <2> QED
    BY <2>1, <2>2
<1>6. \A i \in DOMAIN seenIDs'.entries :
        \/ seenIDs'.entries[i] = t
        \/ i \in DOMAIN seenIDs.entries /\ seenIDs'.entries[i] = seenIDs.entries[i]
  BY <1>1
<1>7. \A i \in DOMAIN seenIDs'.entries : seenIDs'.entries[i] \in Text
  BY <1>6 DEF RingTypes
<1>8. DOMAIN seenIDs'.entries = kept \union {id}
  BY <1>1
<1> QED
  BY <1>3, <1>4, <1>5, <1>6, <1>7, <1>8 DEF RingTypes

\* The rules of the election make a strict order of the candidates.
LEMMA BeforeIsStrict ==
  ASSUME NEW a \in Candidate
  PROVE  /\ ~Before(a, a)
         /\ \A b, c \in Candidate : Before(a, b) /\ Before(b, c) => Before(a, c)
BY CandidateFields DEF Before

\* Any nonempty set of candidates has a first one that no other precedes: the CHOOSE of First
\* has a value.
LEMMA FirstExists ==
  ASSUME NEW s \in Seq(Candidate), NEW S \in SUBSET DOMAIN s, S # {}
  PROVE  \E i \in S :
           /\ \A j \in S : ~Before(s[j], s[i])
           /\ \A j \in S : j < i => \E k \in S : Before(s[k], s[j])
<1> DEFINE Ahead(i) == {j \in S : Before(s[j], s[i])}
           R == StrictSubsetOrdering(S)
           T == {Ahead(i) : i \in S}
           Top == {i \in S : Ahead(i) = {}}
<1>1. Len(s) \in Nat /\ DOMAIN s = 1 .. Len(s) /\ \A i \in S : s[i] \in Candidate
  OBVIOUS
<1>2. IsFiniteSet(S)
  <2>1. IsFiniteSet(1 .. Len(s))
    BY <1>1, FS_Interval
  <2> QED
    BY <1>1, <2>1, FS_Subset
<1>3. IsWellFoundedOn(R, FiniteSubsetsOf(S))
  BY FS_StrictSubsetOrderingWellFounded
<1>4. T \subseteq FiniteSubsetsOf(S) /\ T # {}
  <2>1. ASSUME NEW i \in S PROVE Ahead(i) \in FiniteSubsetsOf(S)
    <3> DEFINE A == Ahead(i)
    <3>1. A \in SUBSET S
      OBVIOUS
    <3> HIDE DEF A
    <3>2. IsFiniteSet(A)
      BY <1>2, <3>1, FS_Subset
    <3>3. A \in FiniteSubsetsOf(S)
      BY <3>1, <3>2 DEF FiniteSubsetsOf
    <3> QED
      BY <3>3 DEF A
  <2> HIDE DEF Ahead
  <2> QED
    BY <2>1
<1>5. PICK x \in T : \A y \in T : <<y, x>> \notin R
  <2> HIDE DEF R, T
  <2> QED
    BY <1>3, <1>4, WFMin
<1>6. PICK i \in S : x = Ahead(i)
  BY <1>5
<1>7. Ahead(i) = {}
  <2>1. SUFFICES ASSUME NEW j \in Ahead(i) PROVE FALSE
    OBVIOUS
  <2>2. Ahead(j) \subseteq Ahead(i) /\ j \notin Ahead(j)
    BY <1>1, <2>1, BeforeIsStrict
  <2>3. <<Ahead(j), Ahead(i)>> \in R
    BY <2>1, <2>2 DEF StrictSubsetOrdering
  <2> QED
    BY <1>5, <1>6, <2>1, <2>3
<1>8. Top \subseteq Nat /\ Top # {}
  BY <1>1, <1>7
<1>9. PICK m \in Top : \A y \in Top : <<y, m>> \notin OpToRel(<, Nat)
  <2> HIDE DEF Top
  <2> QED
    BY <1>8, NatLessThanWellFounded, WFMin
<1>10. \A y \in Top : ~(y < m)
  BY <1>8, <1>9 DEF OpToRel
<1> QED
  BY <1>9, <1>10

\* SelectSnapshotWinner returns an eligible candidate that no candidate precedes, if any is eligible.
LEMMA WinnerFacts ==
  ASSUME NEW s \in Seq(Candidate)
  PROVE  \/ /\ SelectSnapshotWinner(s, None) = None
            /\ \A j \in DOMAIN s : s[j].version = 0
         \/ \E i \in DOMAIN s :
              /\ SelectSnapshotWinner(s, None) = s[i]
              /\ s[i].version > 0
              /\ \A j \in DOMAIN s : ~Before(s[j], s[i])
<1>1. \A i \in DOMAIN s : s[i] \in Candidate
  OBVIOUS
<1> DEFINE S == Eligible(s)
<1>2. S \in SUBSET DOMAIN s /\ \A i \in DOMAIN s : i \notin S => s[i].version = 0
  BY <1>1, CandidateFields DEF Eligible
<1>3. CASE S = {}
  BY <1>2, <1>3 DEF SelectSnapshotWinner
<1>4. CASE S # {}
  <2> DEFINE P(i) == /\ \A j \in S : ~Before(s[j], s[i])
                     /\ \A j \in S : j < i => \E k \in S : Before(s[k], s[j])
             i == CHOOSE i \in S : P(i)
  <2>1. \E n \in S : P(n)
    BY <1>2, <1>4, FirstExists
  <2>2. i \in S /\ P(i)
    BY <2>1
  <2>3. SelectSnapshotWinner(s, None) = s[i]
    BY <1>4 DEF SelectSnapshotWinner, First
  <2> HIDE DEF i
  <2>4. s[i].version > 0
    BY <2>2 DEF Eligible
  <2>5. \A j \in DOMAIN s : ~Before(s[j], s[i])
    BY <1>1, <1>2, <2>2, <2>4, CandidateFields DEF Before
  <2> QED
    BY <1>2, <2>2, <2>3, <2>4, <2>5
<1> QED
  BY <1>3, <1>4

(***************************************************************************)
(* Every step keeps the types.                                             *)
(***************************************************************************)
\* What a step leaves alone keeps its type.
LEMMA Untouched ==
  ASSUME Types
  PROVE  /\ UNCHANGED hubVars => HubTypes' /\ RingTypes'
         /\ UNCHANGED seenIDs => RingTypes'
         /\ UNCHANGED <<windowVars, registered>> => WindowTypes'
         /\ UNCHANGED connVars => ConnTypes'
         /\ UNCHANGED threadVars => ThreadTypes'
<1>1. UNCHANGED hubVars => HubTypes' /\ RingTypes'
  BY DEF Types, HubTypes, RingTypes, hubVars
<1>2. UNCHANGED seenIDs => RingTypes'
  BY DEF Types, RingTypes
<1>3. UNCHANGED <<windowVars, registered>> => WindowTypes'
  BY DEF Types, WindowTypes, windowVars
<1>4. UNCHANGED connVars => ConnTypes'
  BY DEF Types, ConnTypes, connVars
<1>5. UNCHANGED threadVars => ThreadTypes'
  BY DEF Types, ThreadTypes, threadVars
<1> QED
  BY <1>1, <1>2, <1>3, <1>4, <1>5

\* The types hold at the start.
LEMMA TypesAtStart == Init => Types
<1> SUFFICES ASSUME Init PROVE Types
  OBVIOUS
<1> USE DEF Init
<1>1. HubTypes
  BY HubAssumption DEF HubTypes
<1>2. RingTypes
  BY RingAssumption DEF RingTypes, NewRing, Slots
<1>3. WindowTypes
  <2>1. windowClosed \in BOOLEAN /\ windowOver \in BOOLEAN /\ registered \in BOOLEAN
    BY HubAssumption, Zenon
  <2>2. /\ candidates \in Seq(Candidate) /\ snapshotBytes \in 0 .. SnapshotBudget
        /\ recoveryQueue \in Seq(Queued) /\ Len(recoveryQueue) <= QueueCapacity
    BY HubAssumption
  <2> QED
    BY <2>1, <2>2, Zenon DEF WindowTypes
<1>4. ConnTypes
  BY DEF ConnTypes, Steps, Heard
<1>5. ThreadTypes
  BY DEF ThreadTypes, Points, Applying, Announcing
<1> QED
  BY <1>1, <1>2, <1>3, <1>4, <1>5 DEF Types

\* A connection's own steps, except the one that closes the window.
LEMMA ConnectionTypes ==
  ASSUME Types, NEW c \in Conns,
         \/ Connect(c) \/ Leave(c) \/ AddLatest(c) \/ AddWelcome(c) \/ AddOpen(c)
         \/ AddNothing(c) \/ SayHello(c)
  PROVE  Types'
<1>1. ConnTypes /\ step \in [Conns -> Steps] /\ closed \in [Conns -> BOOLEAN]
  BY DEF Types, ConnTypes
<1>2. CASE Connect(c)
  <2>1. ConnTypes'
    BY <1>1, <1>2 DEF Connect, ConnTypes, Steps
  <2> QED
    BY <1>2, <2>1, Untouched DEF Connect, Types
<1>3. CASE Leave(c)
  <2>1. ConnTypes'
    BY <1>1, <1>3, CancelFacts DEF Leave, ConnTypes, Steps
  <2> QED
    BY <1>3, <2>1, Untouched DEF Leave, Types
<1>4. CASE AddLatest(c)
  <2>1. ConnTypes'
    BY <1>1, <1>4 DEF AddLatest, ConnTypes, Steps
  <2>2. ThreadTypes'
    <3>1. text' \in [Goroutines \union Conns -> Text \union {None}]
      BY <1>4 DEF AddLatest, Types, ThreadTypes, HubTypes
    <3>2. \A g \in Goroutines : text'[g] = text[g]
      BY <1>4, HubAssumption DEF AddLatest, Types, ThreadTypes, Goroutines
    <3> QED
      BY <1>4, <3>1, <3>2 DEF AddLatest, Types, ThreadTypes
  <2> QED
    BY <1>4, <2>1, <2>2, Untouched DEF AddLatest, Types
<1>5. CASE AddWelcome(c)
  <2>1. text[c] \in Text \union {None}
    BY DEF Types, ThreadTypes
  <2>2. closed' \in [Conns -> BOOLEAN] /\ heard' \in [Conns -> Heard]
    BY <1>1, <1>5, <2>1, EnqueueFacts DEF AddWelcome
  <2>3. ConnTypes'
    BY <1>1, <1>5, <2>2 DEF AddWelcome, ConnTypes, Steps
  <2>4. ThreadTypes'
    <3>1. text' \in [Goroutines \union Conns -> Text \union {None}]
      BY <1>5 DEF AddWelcome, Types, ThreadTypes
    <3>2. \A g \in Goroutines : text'[g] = text[g]
      BY <1>5, HubAssumption DEF AddWelcome, Types, ThreadTypes, Goroutines
    <3> QED
      BY <1>5, <3>1, <3>2 DEF AddWelcome, Types, ThreadTypes
  <2> QED
    BY <1>5, <2>3, <2>4, Untouched DEF AddWelcome, Types
<1>6. CASE AddOpen(c) \/ AddNothing(c)
  <2>1. ConnTypes'
    BY <1>1, <1>6 DEF AddOpen, AddNothing, ConnTypes, Steps
  <2> QED
    BY <1>6, <2>1, Untouched DEF AddOpen, AddNothing, Types
<1>7. CASE SayHello(c)
  <2>1. ConnTypes'
    BY <1>1, <1>7 DEF SayHello, ConnTypes, Steps
  <2>2. [type |-> "hello", sender |-> c] \in Job
    BY DEF Job
  <2>3. jobs' \in Seq(Job)
    BY <1>7, <2>2, AppendProperties DEF SayHello, Types, HubTypes
  <2>4. HubTypes'
    BY <1>7, <2>3 DEF SayHello, Types, HubTypes
  <2> QED
    BY <1>7, <2>1, <2>4, Untouched DEF SayHello, Types
<1> QED
  BY <1>2, <1>3, <1>4, <1>5, <1>6, <1>7

\* GetOrCreateHub moves its connection on, and may start a dead user loop again.
LEMMA GetOrCreateFacts ==
  ASSUME Types, NEW c \in Conns, GetHub(c) \/ StartIfIdle(c)
  PROVE  /\ UNCHANGED <<connections, closed, heard, sent, hubVars, windowVars, work, text,
                         targets, backlog, registered, lost>>
         /\ \A d \in Conns : d # c => step'[d] = step[d]
         /\ step[c] \in {"out", "found"} /\ step'[c] \in {"found", "started"}
         /\ pc'["closer"] = pc["closer"]
         /\ pc' = pc \/ (pc["loop"] = "dead" /\ pc'["loop"] = "idle")
         /\ Types'
<1>1. step \in [Conns -> Steps] /\ pc \in [Goroutines -> Points]
  BY DEF Types, ConnTypes, ThreadTypes
<1>2. /\ UNCHANGED <<connections, closed, heard, sent, hubVars, windowVars, work, text, targets,
                      backlog, registered, lost>>
      /\ \A d \in Conns : d # c => step'[d] = step[d]
      /\ step[c] \in {"out", "found"} /\ step'[c] \in {"found", "started"}
      /\ step' \in [Conns -> Steps]
  BY <1>1 DEF GetHub, StartIfIdle, threadVars, Steps
<1>3. /\ pc'["closer"] = pc["closer"] /\ pc' \in [Goroutines -> Points]
      /\ pc' = pc \/ (pc["loop"] = "dead" /\ pc'["loop"] = "idle")
  BY <1>1 DEF GetHub, StartIfIdle, threadVars, Goroutines, Points
<1>4. ConnTypes'
  BY <1>2 DEF Types, ConnTypes
<1>5. ThreadTypes'
  BY <1>2, <1>3 DEF Types, ThreadTypes, Goroutines, Applying, Announcing
<1> QED
  BY <1>2, <1>3, <1>4, <1>5, Untouched DEF Types

\* A submitted clip goes to the job queue, to the recovery queue, or closes its connection.
LEMMA SubmitTypes ==
  ASSUME Types, NEW c \in Conns, NEW clip \in ClipsOf[c], Submit(c, clip)
  PROVE  Types'
<1>1. clip \in ClipSet
  BY HubAssumption DEF ClipSet
<1>2. sent' \in [Conns -> Nat]
  BY DEF Submit, Types, ConnTypes
<1>3. ConnTypes'
  <2>1. closed' \in [Conns -> BOOLEAN] /\ connections' \subseteq Conns
    <3>1. CASE CancelConnections({c})
      BY <3>1, CancelFacts DEF Types, ConnTypes
    <3>2. CASE UNCHANGED <<closed, connections>>
      BY <3>2 DEF Types, ConnTypes
    <3> QED
      BY <3>1, <3>2 DEF Submit
  <2> QED
    BY <1>2, <2>1 DEF Submit, Types, ConnTypes
<1>4. HubTypes' /\ RingTypes'
  <2>1. [type |-> "clip", sender |-> c, clip |-> clip] \in Job
    BY <1>1 DEF Job
  <2>2. jobs' \in Seq(Job)
    <3>1. jobs \in Seq(Job)
      BY DEF Types, HubTypes
    <3>2. jobs' = jobs \/ jobs' = Append(jobs, [type |-> "clip", sender |-> c, clip |-> clip])
      BY DEF Submit
    <3> QED
      BY <2>1, <3>1, <3>2, AppendProperties
  <2> QED
    BY <2>2, Untouched DEF Submit, Types, HubTypes
<1>5. WindowTypes'
  <2>1. [sender |-> c, clip |-> clip] \in Queued
    BY <1>1 DEF Queued
  <2>2. recoveryQueue' \in Seq(Queued) /\ Len(recoveryQueue') <= QueueCapacity
    <3>1. CASE UNCHANGED recoveryQueue
      BY <3>1 DEF Types, WindowTypes
    <3>2. CASE recoveryQueue' = Append(recoveryQueue, [sender |-> c, clip |-> clip]) /\ ~QueueFull
      BY <2>1, <3>2, AppendProperties, HubAssumption DEF Types, WindowTypes, QueueFull
    <3> QED
      BY <3>1, <3>2 DEF Submit
  <2> QED
    BY <2>2 DEF Submit, Types, WindowTypes
<1> QED
  BY <1>3, <1>4, <1>5, Untouched DEF Submit, Types

\* The user loop takes a job.
LEMMA TakeTypes ==
  ASSUME Types, TakeHello \/ TakeClip
  PROVE  Types'
<1>1. jobs \in Seq(Job) /\ jobs # <<>>
  BY DEF Types, HubTypes, TakeHello, TakeClip
<1>2. Head(jobs) \in Job /\ Tail(jobs) \in Seq(Job)
  BY <1>1, HeadTailProperties
<1>3. HubTypes' /\ RingTypes'
  BY <1>2, Untouched DEF TakeHello, TakeClip, Types, HubTypes
<1>4. CASE TakeHello
  <2> DEFINE d == Head(jobs).sender
  <2>1. d \in Conns
    BY <1>2 DEF Job
  <2>2. CASE UNCHANGED <<candidates, snapshotBytes>>
    BY <1>3, <1>4, <2>2, Untouched DEF TakeHello, Types, windowVars
  <2>3. CASE /\ Hello[d].content # None /\ ~(snapshotBytes + Hello[d].bytes > SnapshotBudget)
             /\ candidates' = Append(candidates, Hello[d])
             /\ snapshotBytes' = snapshotBytes + Hello[d].bytes
    <3>1. Hello[d] \in Candidate /\ Hello[d].bytes \in Nat
      BY <2>1, <2>3, HubAssumption DEF Candidate
    <3>2. candidates' \in Seq(Candidate)
      BY <2>3, <3>1, AppendProperties DEF Types, WindowTypes
    <3>3. snapshotBytes' \in 0 .. SnapshotBudget
      <4>1. snapshotBytes \in Nat /\ SnapshotBudget \in Nat
        BY HubAssumption DEF Types, WindowTypes
      <4> HIDE DEF d
      <4> QED
        BY <2>3, <3>1, <4>1
    <3>4. WindowTypes'
      BY <1>4, <3>2, <3>3 DEF TakeHello, Types, WindowTypes
    <3> QED
      BY <1>3, <1>4, <3>4, Untouched DEF TakeHello, Types
  <2> QED
    BY <1>4, <2>2, <2>3 DEF TakeHello, AcceptSnapshot
<1>5. CASE TakeClip
  <2>1. [sender |-> Head(jobs).sender, clip |-> Head(jobs).clip] \in Queued
    BY <1>2, <1>5 DEF TakeClip, Job, Queued
  <2>2. ThreadTypes'
    <3>1. work' \in [Goroutines -> Queued \union {None}] /\ work'["loop"] \in Queued
          /\ work'["closer"] = work["closer"]
      BY <1>5, <2>1 DEF TakeClip, Types, ThreadTypes, Goroutines
    <3>2. pc' \in [Goroutines -> Points] /\ pc'["loop"] = "check" /\ pc'["closer"] = pc["closer"]
      BY <1>5 DEF TakeClip, Types, ThreadTypes, Goroutines, Points
    <3> QED
      BY <1>5, <3>1, <3>2 DEF TakeClip, Types, ThreadTypes, Goroutines, Applying, Announcing
  <2> QED
    BY <1>3, <1>5, <2>2, Untouched DEF TakeClip, Types
<1> QED
  BY <1>4, <1>5

\* The election and the restored text.
LEMMA CloseWindowTypes ==
  ASSUME Types, CloseWindow, step' \in [Conns -> Steps]
  PROVE  Types'
<1> DEFINE winner == SelectSnapshotWinner(candidates, None)
<1>1. winner = None \/ winner \in Candidate
  BY WinnerFacts DEF Types, WindowTypes
<1>2. HubTypes' /\ RingTypes'
  <2>1. CASE Restorable(winner)
    <3>1. winner.version \in 0 .. MaxVersion /\ winner.content \in Contents
      BY <1>1, <2>1, CandidateFields DEF Restorable
    <3>2. latest' \in Text /\ version' = winner.version /\ stored' \in 0 .. MaxVersion
      BY <2>1, <3>1 DEF CloseWindow, Text, Types, HubTypes
    <3> QED
      BY <3>1, <3>2, Untouched DEF CloseWindow, Types, HubTypes
  <2>2. CASE ~Restorable(winner)
    BY <2>2, Untouched DEF CloseWindow, Types, HubTypes
  <2> QED
    BY <2>1, <2>2
<1>3. WindowTypes'
  BY HubAssumption DEF CloseWindow, Types, WindowTypes
<1>4. ConnTypes'
  BY DEF CloseWindow, Types, ConnTypes
<1>5. ThreadTypes'
  <2>1. pc' \in [Goroutines -> Points] /\ pc'["loop"] = pc["loop"] /\ pc'["closer"] = "next"
    BY DEF CloseWindow, Types, ThreadTypes, Goroutines, Points
  <2>2. backlog' \in Seq(Queued)
    BY DEF CloseWindow, Types, WindowTypes
  <2> QED
    BY <2>1, <2>2 DEF CloseWindow, Types, ThreadTypes, Goroutines, Applying, Announcing
<1> QED
  BY <1>2, <1>3, <1>4, <1>5 DEF Types

\* The goroutines' locals when ApplyClip has returned.
LEMMA AppliedTypes ==
  ASSUME Types, NEW g \in Goroutines, Applied(g), UNCHANGED <<targets, backlog>>
  PROVE  ThreadTypes'
<1>1. /\ pc' \in [Goroutines -> Points] /\ pc'[g] \in {"idle", "next"}
      /\ \A h \in Goroutines : h # g => pc'[h] = pc[h]
  BY DEF Applied, Types, ThreadTypes, Points
<1>2. /\ work' \in [Goroutines -> Queued \union {None}]
      /\ \A h \in Goroutines : h # g => work'[h] = work[h]
  BY DEF Applied, Types, ThreadTypes
<1>3. /\ text' \in [Goroutines \union Conns -> Text \union {None}]
      /\ \A h \in Goroutines : h # g => text'[h] = text[h]
  BY DEF Applied, Types, ThreadTypes
<1> QED
  BY <1>1, <1>2, <1>3 DEF Types, ThreadTypes, Applying, Announcing

\* What ApplyClip works with, and who is sent what.
LEMMA ApplyFacts ==
  ASSUME Types, NEW g \in Goroutines, pc[g] \in Applying
  PROVE  /\ Sender(g) \in Conns /\ Clip(g) \in ClipSet
         /\ Clip(g).id \in Ids /\ Clip(g).content \in Contents
         /\ pc[g] \in Announcing => text[g] \in Text
         /\ Unchanged(g) => /\ Clip(g).id \in DOMAIN seenIDs.entries
                            /\ seenIDs.entries[Clip(g).id] \in Text
<1>1. work[g] \in Queued /\ (pc[g] \in Announcing => text[g] \in Text)
  BY DEF Types, ThreadTypes
<1>2. Sender(g) \in Conns /\ Clip(g) \in ClipSet
  BY <1>1 DEF Queued, Sender, Clip
<1>3. Clip(g).id \in Ids /\ Clip(g).content \in Contents
  BY <1>2 DEF ClipSet
<1> QED
  BY <1>1, <1>2, <1>3 DEF Unchanged, IsUnchangedDuplicate, Types, RingTypes

\* The messages of ApplyClip that end it.
LEMMA AnswerTypes ==
  ASSUME Types, NEW g \in Goroutines, AckDuplicate(g) \/ RateLimit(g) \/ Ack(g)
  PROVE  Types'
<1>1. pc[g] \in Applying
  BY DEF AckDuplicate, RateLimit, Ack, Applying
<1>2. closed' \in [Conns -> BOOLEAN] /\ heard' \in [Conns -> Heard]
  <2>1. CASE AckDuplicate(g)
    BY <1>1, <2>1, ApplyFacts, EnqueueFacts DEF AckDuplicate, Types
  <2>2. CASE RateLimit(g)
    BY <1>1, <2>2, ApplyFacts, EnqueueFacts DEF RateLimit, Types
  <2>3. CASE Ack(g)
    BY <1>1, <2>3, ApplyFacts, EnqueueFacts DEF Ack, Types, Announcing
  <2> QED
    BY <2>1, <2>2, <2>3
<1>3. ConnTypes'
  BY <1>2 DEF AckDuplicate, RateLimit, Ack, Types, ConnTypes
<1>4. ThreadTypes'
  BY AppliedTypes DEF AckDuplicate, RateLimit, Ack
<1> QED
  BY <1>3, <1>4, Untouched DEF AckDuplicate, RateLimit, Ack, Types

\* The steps of ApplyClip.
LEMMA ApplyTypes ==
  ASSUME Types, NEW g \in Goroutines, ApplyStep(g)
  PROVE  Types'
<1>1. /\ pc \in [Goroutines -> Points] /\ work \in [Goroutines -> Queued \union {None}]
      /\ text \in [Goroutines \union Conns -> Text \union {None}]
      /\ targets \in [Goroutines -> SUBSET Conns]
  BY DEF Types, ThreadTypes
<1>2. CASE AckDuplicate(g) \/ RateLimit(g) \/ Ack(g)
  BY <1>2, AnswerTypes
<1>3. CASE PassCheck(g)
  <2>1. /\ pc' \in [Goroutines -> Points] /\ pc[g] \in Applying /\ pc'[g] = "reserve"
        /\ \A h \in Goroutines : h # g => pc'[h] = pc[h]
    BY <1>1, <1>3 DEF PassCheck, Points, Applying
  <2>2. ThreadTypes'
    BY <1>3, <2>1 DEF PassCheck, Types, ThreadTypes, Applying, Announcing
  <2> QED
    BY <1>3, <2>2, Untouched DEF PassCheck, Types
<1>4. CASE Reserve(g)
  <2>1. /\ pc' \in [Goroutines -> Points] /\ pc[g] \in Applying /\ pc'[g] = "install"
        /\ \A h \in Goroutines : h # g => pc'[h] = pc[h]
    BY <1>1, <1>4 DEF Reserve, Points, Applying
  <2> DEFINE v == NextVersion(version)
             t == [version |-> v, content |-> Clip(g).content]
  <2>2. v \in 0 .. MaxVersion /\ t \in Text
    <3>1. v \in 0 .. MaxVersion
      BY <1>4, HubAssumption DEF Reserve, Types, HubTypes, NextVersion
    <3>2. Clip(g).content \in Contents
      BY <2>1, ApplyFacts
    <3> HIDE DEF v
    <3> QED
      BY <3>1, <3>2 DEF Text
  <2>3. /\ text' \in [Goroutines \union Conns -> Text \union {None}] /\ text'[g] \in Text
        /\ \A h \in Goroutines : h # g => text'[h] = text[h]
    BY <1>1, <1>4, <2>2 DEF Reserve
  <2>4. ThreadTypes'
    BY <1>4, <2>1, <2>3 DEF Reserve, Types, ThreadTypes, Applying, Announcing
  <2>5. HubTypes'
    BY <1>4, <2>2 DEF Reserve, Types, HubTypes
  <2> QED
    BY <1>4, <2>4, <2>5, Untouched DEF Reserve, Types
<1>5. CASE Install(g)
  <2>1. /\ pc' \in [Goroutines -> Points] /\ pc[g] = "install" /\ pc'[g] = "remember"
        /\ \A h \in Goroutines : h # g => pc'[h] = pc[h]
    BY <1>1, <1>5 DEF Install, Points
  <2>2. ThreadTypes'
    BY <1>5, <2>1 DEF Install, Types, ThreadTypes, Applying, Announcing
  <2>3. text[g] \in Text /\ Clip(g) \in ClipSet /\ text[g].version \in 0 .. MaxVersion
    BY <2>1, ApplyFacts, NoneIsNoText DEF Applying, Announcing
  <2> DEFINE A == [clip : ClipSet, version : 0 .. MaxVersion]
             a == [clip |-> Clip(g), version |-> text[g].version]
  <2>4. a \in A
    BY <2>3
  <2>5. applied' \in Seq(A)
    <3>1. applied \in Seq(A) /\ applied' = Append(applied, a)
      BY <1>5 DEF Install, Types, HubTypes
    <3> HIDE DEF A, a
    <3> QED
      BY <2>4, <3>1, AppendProperties
  <2>6. HubTypes'
    BY <1>5, <2>3, <2>5 DEF Install, Types, HubTypes
  <2> QED
    BY <1>5, <2>2, <2>6, Untouched DEF Install, Types
<1>6. CASE RememberClip(g)
  <2>1. /\ pc' \in [Goroutines -> Points] /\ pc[g] = "remember" /\ pc'[g] = "broadcast"
        /\ \A h \in Goroutines : h # g => pc'[h] = pc[h]
    BY <1>1, <1>6 DEF RememberClip, Points
  <2>2. targets' \in [Goroutines -> SUBSET Conns]
    BY <1>1, <1>6 DEF RememberClip, Recipients, Types, ConnTypes
  <2>3. ThreadTypes'
    BY <1>6, <2>1, <2>2 DEF RememberClip, Types, ThreadTypes, Applying, Announcing
  <2>4. text[g] \in Text /\ Clip(g).id \in Ids
    BY <2>1, ApplyFacts DEF Applying, Announcing
  <2>5. RingTypes'
    BY <1>6, <2>4, RememberFacts DEF RememberClip, Types
  <2>6. HubTypes'
    BY <1>6 DEF RememberClip, Types, HubTypes
  <2> QED
    BY <1>6, <2>3, <2>5, <2>6, Untouched DEF RememberClip, Types
<1>7. ASSUME NEW c \in Conns, Broadcast(g, c) PROVE Types'
  <2>1. text[g] \in Text
    BY <1>7, ApplyFacts DEF Broadcast, Applying, Announcing
  <2>2. closed' \in [Conns -> BOOLEAN] /\ heard' \in [Conns -> Heard]
    BY <1>7, <2>1, EnqueueFacts DEF Broadcast, Types
  <2>3. ConnTypes'
    BY <1>7, <2>2 DEF Broadcast, Types, ConnTypes
  <2>4. ThreadTypes'
    BY <1>1, <1>7 DEF Broadcast, Types, ThreadTypes
  <2> QED
    BY <1>7, <2>3, <2>4, Untouched DEF Broadcast, Types
<1> QED
  BY <1>2, <1>3, <1>4, <1>5, <1>6, <1>7 DEF ApplyStep

\* CloserReturns moves connections to a step of their lives.
LEMMA ReturnTypes ==
  ASSUME Types, NEW to \in {"hello", "stranded"}, CloserReturns(to)
  PROVE  step' \in [Conns -> Steps]
BY DEF CloserReturns, Types, ConnTypes, Steps

\* The steps of the closer outside ApplyClip.
LEMMA CloserTypes ==
  ASSUME Types,
         \/ CloserTakes \/ CloserLatest \/ CloserRecipients
         \/ (\E c \in Conns : CloserWelcome(c)) \/ CloserSweeps \/ CloserPanics
  PROVE  Types'
<1>1. /\ pc \in [Goroutines -> Points] /\ work \in [Goroutines -> Queued \union {None}]
      /\ text \in [Goroutines \union Conns -> Text \union {None}]
      /\ targets \in [Goroutines -> SUBSET Conns] /\ backlog \in Seq(Queued)
  BY DEF Types, ThreadTypes
<1>2. CASE CloserTakes
  <2>1. Head(backlog) \in Queued /\ backlog' \in Seq(Queued)
    BY <1>1, <1>2, HeadTailProperties DEF CloserTakes
  <2>2. \/ pc' = pc /\ work' = work
        \/ /\ pc' = [pc EXCEPT !["closer"] = "check"]
           /\ work' = [work EXCEPT !["closer"] = Head(backlog)]
    BY <1>2 DEF CloserTakes
  <2>3. ThreadTypes'
    <3>1. CASE pc' = pc /\ work' = work
      BY <1>2, <2>1, <3>1 DEF CloserTakes, Types, ThreadTypes
    <3>2. CASE /\ pc' = [pc EXCEPT !["closer"] = "check"]
               /\ work' = [work EXCEPT !["closer"] = Head(backlog)]
      <4>1. /\ pc' \in [Goroutines -> Points] /\ pc'["loop"] = pc["loop"]
            /\ pc'["closer"] = "check"
        BY <1>1, <3>2 DEF Goroutines, Points
      <4>2. /\ work' \in [Goroutines -> Queued \union {None}] /\ work'["closer"] \in Queued
            /\ work'["loop"] = work["loop"]
        BY <1>1, <2>1, <3>2 DEF Goroutines
      <4> QED
        BY <1>2, <2>1, <4>1, <4>2
        DEF CloserTakes, Types, ThreadTypes, Goroutines, Applying, Announcing
    <3> QED
      BY <2>2, <3>1, <3>2
  <2> QED
    BY <1>2, <2>3, Untouched DEF CloserTakes, Types
<1>3. CASE CloserLatest
  <2>1. /\ pc' \in [Goroutines -> Points] /\ pc'["loop"] = pc["loop"]
        /\ pc'["closer"] = "recipients"
    BY <1>1, <1>3 DEF CloserLatest, Goroutines, Points
  <2>2. /\ text' \in [Goroutines \union Conns -> Text \union {None}]
        /\ text'["loop"] = text["loop"]
    BY <1>1, <1>3 DEF CloserLatest, Goroutines, Types, HubTypes
  <2>3. ThreadTypes'
    BY <1>3, <2>1, <2>2 DEF CloserLatest, Types, ThreadTypes, Goroutines, Applying, Announcing
  <2> QED
    BY <1>3, <2>3, Untouched DEF CloserLatest, Types
<1>4. CASE CloserRecipients
  <2>1. /\ pc' \in [Goroutines -> Points] /\ pc'["loop"] = pc["loop"]
        /\ pc'["closer"] = "welcome"
    BY <1>1, <1>4 DEF CloserRecipients, Goroutines, Points
  <2>2. targets' \in [Goroutines -> SUBSET Conns]
    BY <1>1, <1>4 DEF CloserRecipients, Types, ConnTypes
  <2>3. ThreadTypes'
    BY <1>4, <2>1, <2>2
    DEF CloserRecipients, Types, ThreadTypes, Goroutines, Applying, Announcing
  <2> QED
    BY <1>4, <2>3, Untouched DEF CloserRecipients, Types
<1>5. ASSUME NEW c \in Conns, CloserWelcome(c) PROVE Types'
  <2>1. text["closer"] \in Text \union {None}
    BY <1>1 DEF Goroutines
  <2>2. closed' \in [Conns -> BOOLEAN] /\ heard' \in [Conns -> Heard]
    BY <1>5, <2>1, EnqueueFacts DEF CloserWelcome, Types
  <2>3. ConnTypes'
    BY <1>5, <2>2 DEF CloserWelcome, Types, ConnTypes
  <2>4. ThreadTypes'
    BY <1>1, <1>5 DEF CloserWelcome, Types, ThreadTypes
  <2> QED
    BY <1>5, <2>3, <2>4, Untouched DEF CloserWelcome, Types
<1>6. CASE CloserSweeps
  <2>1. ConnTypes'
    BY <1>6, ReturnTypes DEF CloserSweeps, Types, ConnTypes
  <2>2. /\ pc' \in [Goroutines -> Points] /\ pc'["loop"] = pc["loop"] /\ pc'["closer"] = "done"
    BY <1>1, <1>6 DEF CloserSweeps, Goroutines, Points
  <2>3. /\ text' \in [Goroutines \union Conns -> Text \union {None}]
        /\ text'["loop"] = text["loop"]
    BY <1>1, <1>6 DEF CloserSweeps, Goroutines
  <2>4. ThreadTypes'
    BY <1>6, <2>2, <2>3 DEF CloserSweeps, Types, ThreadTypes, Goroutines, Applying, Announcing
  <2>5. registered' \in BOOLEAN
    BY <1>6, Zenon DEF CloserSweeps
  <2>6. WindowTypes'
    BY <1>6, <2>5 DEF CloserSweeps, windowVars, Types, WindowTypes
  <2> QED
    BY <1>6, <2>1, <2>4, <2>6, Untouched DEF CloserSweeps, Types
<1>7. CASE CloserPanics
  <2>1. ConnTypes'
    BY <1>7, ReturnTypes DEF CloserPanics, Types, ConnTypes
  <2>2. /\ pc' \in [Goroutines -> Points] /\ pc'["loop"] = pc["loop"]
        /\ pc'["closer"] = "panicked"
    BY <1>1, <1>7 DEF CloserPanics, Goroutines, Points
  <2>3. ThreadTypes'
    BY <1>7, <2>2 DEF CloserPanics, Types, ThreadTypes, Goroutines, Applying, Announcing
  <2> QED
    BY <1>7, <2>1, <2>3, Untouched DEF CloserPanics, Types
<1> QED
  BY <1>2, <1>3, <1>4, <1>5, <1>6, <1>7

\* The clock, the registry, and the panic of the user loop.
LEMMA OtherTypes ==
  ASSUME Types, WindowEnds \/ RemoveIdle \/ LoopPanics
  PROVE  Types'
<1>1. CASE WindowEnds
  <2>1. WindowTypes'
    BY <1>1 DEF WindowEnds, Types, WindowTypes
  <2> QED
    BY <1>1, <2>1, Untouched DEF WindowEnds, Types
<1>2. CASE RemoveIdle
  <2>1. WindowTypes'
    BY <1>2 DEF RemoveIdle, Types, WindowTypes, windowVars
  <2> QED
    BY <1>2, <2>1, Untouched DEF RemoveIdle, Types
<1>3. CASE LoopPanics
  <2>1. closed' \in [Conns -> BOOLEAN] /\ connections' \subseteq Conns
    <3>1. CASE CancelConnections(connections)
      BY <3>1, CancelFacts DEF Types, ConnTypes
    <3>2. CASE UNCHANGED <<closed, connections>>
      BY <3>2 DEF Types, ConnTypes
    <3> QED
      BY <1>3, <3>1, <3>2 DEF LoopPanics
  <2>2. ConnTypes'
    BY <1>3, <2>1 DEF LoopPanics, Types, ConnTypes
  <2>3. WindowTypes'
    BY <1>3 DEF LoopPanics, Types, WindowTypes, windowVars
  <2>4. /\ pc' \in [Goroutines -> Points] /\ pc'["closer"] = pc["closer"] /\ pc'["loop"] = "dead"
    BY <1>3 DEF LoopPanics, Goroutines, Points, Types, ThreadTypes
  <2>5. ThreadTypes'
    BY <1>3, <2>4 DEF LoopPanics, Types, ThreadTypes, Goroutines, Applying, Announcing
  <2> QED
    BY <1>3, <2>2, <2>3, <2>5, Untouched DEF LoopPanics, Types
<1> QED
  BY <1>1, <1>2, <1>3

\* No step but the panic of the user loop loses a clip, and that one its sender's.
LEMMA OnlyPanicsLose ==
  ASSUME Types, [Next]_vars
  PROVE  /\ lost' = lost \/ (LoopPanics /\ lost' = lost \union {Sender("loop")})
         /\ LoopPanics => Sender("loop") \in Conns
<1>1. LoopPanics => Sender("loop") \in Conns
  BY DEF LoopPanics, Types, ThreadTypes, Goroutines, Applying, Queued, Sender
<1>2. CASE LoopPanics
  BY <1>1, <1>2 DEF LoopPanics
<1>3. ASSUME NEW g \in Goroutines, ApplyStep(g) PROVE lost' = lost
  BY <1>3 DEF ApplyStep, AckDuplicate, PassCheck, RateLimit, Reserve, Install, RememberClip,
              Broadcast, Ack
<1>4. ASSUME NEW c \in Conns, GetHub(c) \/ ConnectionStep(c) \/ Leave(c) PROVE lost' = lost
  BY <1>4 DEF GetHub, ConnectionStep, StartIfIdle, Connect, AddLatest, AddWelcome, AddOpen,
              AddNothing, AddCloses, CloseWindow, SayHello, Leave
<1>5. ASSUME NEW c \in Conns, NEW clip \in ClipsOf[c], Submit(c, clip) PROVE lost' = lost
  BY <1>5 DEF Submit
<1>6. CASE \/ TakeHello \/ TakeClip \/ WindowEnds \/ ScannerCloses \/ RemoveIdle
           \/ UNCHANGED vars
  BY <1>1, <1>6 DEF TakeHello, TakeClip, WindowEnds, ScannerCloses, CloseWindow, RemoveIdle, vars
<1>7. CASE \/ CloserTakes \/ CloserLatest \/ CloserRecipients
           \/ (\E c \in Conns : CloserWelcome(c)) \/ CloserSweeps \/ CloserPanics
  BY <1>1, <1>7 DEF CloserTakes, CloserLatest, CloserRecipients, CloserWelcome, CloserSweeps,
                    CloserPanics
<1> QED
  BY <1>1, <1>2, <1>3, <1>4, <1>5, <1>6, <1>7 DEF Next, LoopStep, CloserStep, Goroutines

\* Types is inductive.
LEMMA TypesKept ==
  ASSUME Types, [Next]_vars
  PROVE  Types'
<1>1. ASSUME NEW c \in Conns, GetHub(c) \/ ConnectionStep(c) \/ Leave(c) PROVE Types'
  <2>1. CASE AddCloses(c)
    <3>1. step' \in [Conns -> Steps]
      BY <2>1 DEF AddCloses, Types, ConnTypes, Steps
    <3> QED
      BY <2>1, <3>1, CloseWindowTypes DEF AddCloses
  <2> QED
    BY <1>1, <2>1, ConnectionTypes, GetOrCreateFacts DEF ConnectionStep
<1>2. ASSUME NEW c \in Conns, NEW clip \in ClipsOf[c], Submit(c, clip) PROVE Types'
  BY <1>2, SubmitTypes
<1>3. CASE LoopStep
  BY <1>3, TakeTypes, ApplyTypes, OtherTypes DEF LoopStep, Goroutines
<1>4. CASE CloserStep
  BY <1>4, CloserTypes, ApplyTypes DEF CloserStep, Goroutines
<1>5. CASE WindowEnds \/ RemoveIdle
  BY <1>5, OtherTypes
<1>6. CASE ScannerCloses
  BY <1>6, CloseWindowTypes DEF ScannerCloses, Types, ConnTypes
<1>7. CASE UNCHANGED vars
  BY <1>7, Untouched DEF vars, Types
<1> QED
  BY <1>1, <1>2, <1>3, <1>4, <1>5, <1>6, <1>7 DEF Next

(***************************************************************************)
(* TypeOK holds in every reachable state: the queue keeps its capacity,    *)
(* the snapshots their budget, the ring its slots, and what the goroutines *)
(* hold between two mutexes is what ApplyClip expects to find.             *)
(***************************************************************************)
THEOREM HubTypesHold == Spec => []TypeOK
<1> DEFINE Lost == lost \subseteq Conns
<1>1. Types /\ Lost => TypeOK
  BY DEF Types, TypeOK, HubTypes, RingTypes, WindowTypes, ConnTypes, ThreadTypes
<1>2. Init => Lost
  BY DEF Init
<1>3. Types /\ Lost /\ [Next]_vars => Lost'
  BY OnlyPanicsLose
<1> QED
  BY <1>1, <1>2, <1>3, TypesAtStart, TypesKept, PTL DEF Spec
-----------------------------------------------------------------------------
(***************************************************************************)
(* SavedBeforeAnnounced.                                                   *)
(***************************************************************************)
\* A store that does not go back has what it had.
LEMMA SavedUntouched ==
  ASSUME Types, SavedInv, stored' \in 0 .. MaxVersion, stored' >= stored
  PROVE  /\ UNCHANGED version => SavedVersion'
         /\ UNCHANGED latest => SavedLatest'
         /\ UNCHANGED seenIDs => SavedRing'
         /\ UNCHANGED text => SavedTexts'
         /\ UNCHANGED heard => SavedHeard'
<1>1. ASSUME NEW t \in Text \union {None}, UpTo(t, stored) PROVE UpTo(t, stored')
  BY <1>1, NoneIsNoText DEF UpTo, Types, HubTypes
<1>2. UNCHANGED version => SavedVersion'
  BY DEF SavedInv, SavedVersion, Types, HubTypes
<1>3. UNCHANGED latest => SavedLatest'
  BY <1>1 DEF SavedInv, SavedLatest, Types, HubTypes
<1>4. UNCHANGED seenIDs => SavedRing'
  BY <1>1 DEF SavedInv, SavedRing, Types, RingTypes
<1>5. UNCHANGED text => SavedTexts'
  BY <1>1 DEF SavedInv, SavedTexts, Types, ThreadTypes
<1>6. UNCHANGED heard => SavedHeard'
  <2>1. \A c \in Conns : heard[c].newest \in SUBSET Text
    BY DEF Types, ConnTypes, Heard
  <2> QED
    BY <1>1, <2>1 DEF SavedInv, SavedHeard
<1> QED
  BY <1>2, <1>3, <1>4, <1>5, <1>6

\* Enqueuing a saved text announces nothing unsaved.
LEMMA EnqueueSaved ==
  ASSUME Types, SavedInv, NEW c \in Conns, NEW type, NEW t \in Text \union {None},
         UpTo(t, stored), Enqueue(c, type, t), UNCHANGED stored
  PROVE  SavedHeard'
<1>1. \A d \in Conns : \A u \in heard'[d].newest : u \in heard[d].newest \/ (u = t /\ t # None)
  BY EnqueueFacts DEF Types
<1> QED
  BY <1>1 DEF SavedInv, SavedHeard

\* A saved text in one place keeps all of them saved.
LEMMA TextSaved ==
  ASSUME Types, SavedInv, NEW x \in Goroutines \union Conns, NEW t \in Text \union {None},
         UpTo(t, stored'), text' = [text EXCEPT ![x] = t],
         stored' \in 0 .. MaxVersion, stored' >= stored
  PROVE  SavedTexts'
<1>1. ASSUME NEW u \in Text \union {None}, UpTo(u, stored) PROVE UpTo(u, stored')
  BY <1>1, NoneIsNoText DEF UpTo, Types, HubTypes
<1> QED
  BY <1>1 DEF Types, ThreadTypes, SavedInv, SavedTexts

\* The steps that touch neither a version nor a text.
LEMMA SavedQuietSteps ==
  ASSUME Types, SavedInv, UNCHANGED <<version, latest, stored, seenIDs, text, heard>>
  PROVE  SavedInv'
<1>1. stored' \in 0 .. MaxVersion /\ stored' >= stored
  BY DEF Types, HubTypes
<1> QED
  BY <1>1, SavedUntouched DEF SavedInv

\* CloseWindow saves the version it restores.
LEMMA SavedCloseWindow ==
  ASSUME Types, SavedInv, CloseWindow
  PROVE  SavedInv'
<1> DEFINE winner == SelectSnapshotWinner(candidates, None)
<1>1. CASE Restorable(winner)
  <2>1. winner \in Candidate
    BY <1>1, WinnerFacts DEF Types, WindowTypes, Restorable
  <2>2. winner.version \in 0 .. MaxVersion
    BY <2>1, CandidateFields
  <2>3. /\ version' = winner.version
        /\ latest' = [version |-> winner.version, content |-> winner.content]
        /\ stored' = IF winner.version > stored THEN winner.version ELSE stored
        /\ UNCHANGED <<seenIDs, text, heard>>
    BY <1>1 DEF CloseWindow
  <2> HIDE DEF winner
  <2>4. stored' \in 0 .. MaxVersion /\ stored' >= stored /\ winner.version <= stored'
    BY <2>2, <2>3 DEF Types, HubTypes
  <2>5. SavedVersion' /\ SavedLatest'
    BY <2>3, <2>4 DEF SavedVersion, SavedLatest, UpTo
  <2> QED
    BY <2>3, <2>4, <2>5, SavedUntouched DEF SavedInv
<1>2. CASE ~Restorable(winner)
  BY <1>2, SavedQuietSteps DEF CloseWindow
<1> QED
  BY <1>1, <1>2

\* ApplyClip saves a version before it goes anywhere else.
LEMMA SavedApply ==
  ASSUME Types, SavedInv, NEW g \in Goroutines, ApplyStep(g)
  PROVE  SavedInv'
<1>1. pc[g] \in Applying
  BY DEF ApplyStep, AckDuplicate, PassCheck, RateLimit, Reserve, Install, RememberClip,
         Broadcast, Ack, Applying
<1>2. stored \in 0 .. MaxVersion /\ text[g] \in Text \union {None} /\ UpTo(text[g], stored)
  BY DEF Types, HubTypes, ThreadTypes, SavedInv, SavedTexts
<1>3. /\ Sender(g) \in Conns
      /\ pc[g] \in Announcing => text[g] \in Text
      /\ Unchanged(g) => /\ seenIDs.entries[Clip(g).id] \in Text
                         /\ UpTo(seenIDs.entries[Clip(g).id], stored)
  BY <1>1, ApplyFacts DEF SavedInv, SavedRing
<1>4. ASSUME NEW type, NEW t \in Text \union {None}, UpTo(t, stored),
             Enqueue(Sender(g), type, t), Applied(g), UNCHANGED hubVars
      PROVE  SavedInv'
  <2>1. SavedHeard'
    BY <1>3, <1>4, EnqueueSaved DEF hubVars
  <2>2. SavedTexts'
    <3>1. /\ text' = [text EXCEPT ![g] = None] /\ stored' = stored /\ UpTo(None, stored)
          /\ stored' \in 0 .. MaxVersion /\ stored' >= stored
      BY <1>2, <1>4 DEF hubVars, Applied, UpTo
    <3> QED
      BY <3>1, TextSaved
  <2> QED
    BY <1>2, <1>4, <2>1, <2>2, SavedUntouched DEF hubVars, SavedInv
<1>5. CASE AckDuplicate(g)
  BY <1>3, <1>4, <1>5 DEF AckDuplicate
<1>6. CASE RateLimit(g)
  BY <1>4, <1>6 DEF RateLimit, UpTo
<1>7. CASE Ack(g)
  BY <1>2, <1>4, <1>7 DEF Ack
<1>8. CASE PassCheck(g)
  BY <1>8, SavedQuietSteps DEF PassCheck, hubVars, connVars
<1>9. CASE Reserve(g)
  <2> DEFINE v == NextVersion(version)
             t == [version |-> v, content |-> Clip(g).content]
  <2>1. v \in 0 .. MaxVersion
    BY <1>9, HubAssumption DEF Reserve, Types, HubTypes, NextVersion
  <2>2. stored' = (IF v > stored THEN v ELSE stored) /\ text' = [text EXCEPT ![g] = t]
    BY <1>9 DEF Reserve
  <2>3. Clip(g).content \in Contents
    BY <1>1, ApplyFacts
  <2> HIDE DEF v
  <2>4. stored' \in 0 .. MaxVersion /\ stored' >= stored /\ v <= stored'
    BY <1>2, <2>1, <2>2
  <2>5. t \in Text /\ UpTo(t, stored')
    BY <2>1, <2>3, <2>4 DEF Text, UpTo
  <2> HIDE DEF t
  <2>6. SavedTexts'
    BY <2>2, <2>4, <2>5, TextSaved
  <2> QED
    BY <1>9, <2>4, <2>6, SavedUntouched DEF Reserve, connVars, SavedInv
<1>10. CASE Install(g)
  <2>1. text[g] \in Text /\ text[g] # None
    BY <1>3, <1>10, NoneIsNoText DEF Install, Announcing
  <2>2. SavedVersion' /\ SavedLatest'
    BY <1>2, <1>10, <2>1 DEF Install, SavedVersion, SavedLatest, UpTo
  <2> QED
    BY <1>2, <1>10, <2>2, SavedUntouched DEF Install, connVars, SavedInv
<1>11. CASE RememberClip(g)
  <2>1. text[g] \in Text /\ Clip(g).id \in Ids
    BY <1>1, <1>11, ApplyFacts DEF RememberClip, Announcing
  <2>2. \A i \in DOMAIN seenIDs'.entries :
          \/ seenIDs'.entries[i] = text[g]
          \/ i \in DOMAIN seenIDs.entries /\ seenIDs'.entries[i] = seenIDs.entries[i]
    BY <1>11, <2>1, RememberFacts DEF RememberClip, Types
  <2>3. SavedRing'
    BY <1>2, <1>11, <2>2 DEF RememberClip, SavedInv, SavedRing
  <2> QED
    BY <1>2, <1>11, <2>3, SavedUntouched DEF RememberClip, connVars, SavedInv
<1>12. ASSUME NEW c \in Conns, Broadcast(g, c) PROVE SavedInv'
  <2>1. SavedHeard'
    BY <1>2, <1>12, EnqueueSaved DEF Broadcast, hubVars
  <2> QED
    BY <1>2, <1>12, <2>1, SavedUntouched DEF Broadcast, hubVars, SavedInv
<1> QED
  BY <1>5, <1>6, <1>7, <1>8, <1>9, <1>10, <1>11, <1>12 DEF ApplyStep

\* SavedInv is inductive.
LEMMA SavedKept ==
  ASSUME Types, SavedInv, [Next]_vars
  PROVE  SavedInv'
<1>1. /\ stored \in 0 .. MaxVersion /\ stored >= stored /\ UpTo(latest, stored)
      /\ latest \in Text \union {None} /\ UpTo(None, stored)
  BY DEF Types, HubTypes, SavedInv, SavedLatest, UpTo
<1>2. \A x \in Goroutines \union Conns : text[x] \in Text \union {None} /\ UpTo(text[x], stored)
  BY DEF Types, ThreadTypes, SavedInv, SavedTexts
<1>3. ASSUME NEW c \in Conns, AddLatest(c) PROVE SavedInv'
  <2>1. SavedTexts'
    BY <1>1, <1>3, TextSaved DEF AddLatest, hubVars
  <2> QED
    BY <1>1, <1>3, <2>1, SavedUntouched DEF AddLatest, hubVars, SavedInv
<1>4. ASSUME NEW c \in Conns, AddWelcome(c) PROVE SavedInv'
  <2>1. SavedTexts' /\ SavedHeard'
    BY <1>1, <1>2, <1>4, TextSaved, EnqueueSaved DEF AddWelcome, hubVars
  <2> QED
    BY <1>1, <1>4, <2>1, SavedUntouched DEF AddWelcome, hubVars, SavedInv
<1>5. CASE CloserLatest
  <2>1. SavedTexts'
    <3>1. /\ text' = [text EXCEPT !["closer"] = latest] /\ stored' = stored
          /\ "closer" \in Goroutines \union Conns
      BY <1>5 DEF CloserLatest, hubVars, Goroutines
    <3> QED
      BY <1>1, <3>1, TextSaved
  <2> QED
    BY <1>1, <1>5, <2>1, SavedUntouched DEF CloserLatest, hubVars, connVars, SavedInv
<1>6. ASSUME NEW c \in Conns, CloserWelcome(c) PROVE SavedInv'
  <2>1. SavedHeard'
    BY <1>1, <1>2, <1>6, EnqueueSaved DEF CloserWelcome, hubVars, Goroutines
  <2> QED
    BY <1>1, <1>6, <2>1, SavedUntouched DEF CloserWelcome, hubVars, SavedInv
<1>7. CASE CloserSweeps
  <2>1. SavedTexts'
    <3>1. /\ text' = [text EXCEPT !["closer"] = None] /\ stored' = stored
          /\ "closer" \in Goroutines \union Conns
      BY <1>7 DEF CloserSweeps, hubVars, Goroutines
    <3> QED
      BY <1>1, <3>1, TextSaved
  <2> QED
    BY <1>1, <1>7, <2>1, SavedUntouched DEF CloserSweeps, hubVars, SavedInv
<1>8. ASSUME NEW c \in Conns,
             Connect(c) \/ Leave(c) \/ AddOpen(c) \/ AddNothing(c) \/ SayHello(c)
      PROVE  SavedInv'
  BY <1>8, SavedQuietSteps
  DEF Connect, Leave, AddOpen, AddNothing, SayHello, hubVars, connVars, threadVars
<1>9. ASSUME NEW c \in Conns, NEW clip \in ClipsOf[c], Submit(c, clip) PROVE SavedInv'
  BY <1>9, SavedQuietSteps DEF Submit, threadVars
<1>10. CASE TakeHello \/ TakeClip \/ LoopPanics
  BY <1>10, SavedQuietSteps DEF TakeHello, TakeClip, LoopPanics, hubVars, connVars, threadVars
<1>11. CASE CloserTakes \/ CloserRecipients \/ CloserPanics
  BY <1>11, SavedQuietSteps
  DEF CloserTakes, CloserRecipients, CloserPanics, hubVars, connVars, threadVars
<1>12. CASE WindowEnds \/ RemoveIdle \/ UNCHANGED vars
  BY <1>12, SavedQuietSteps DEF WindowEnds, RemoveIdle, hubVars, connVars, threadVars, vars
<1>13. ASSUME NEW c \in Conns, AddCloses(c) PROVE SavedInv'
  BY <1>13, SavedCloseWindow DEF AddCloses
<1>14. CASE ScannerCloses
  BY <1>14, SavedCloseWindow DEF ScannerCloses
<1>15. CASE ApplyStep("loop") \/ ApplyStep("closer")
  BY <1>15, SavedApply DEF Goroutines
<1>16. ASSUME NEW c \in Conns, GetHub(c) \/ StartIfIdle(c) PROVE SavedInv'
  BY <1>16, SavedQuietSteps, GetOrCreateFacts DEF hubVars
<1> QED
  BY <1>3, <1>4, <1>5, <1>6, <1>7, <1>8, <1>9, <1>10, <1>11, <1>12, <1>13, <1>14, <1>15, <1>16
  DEF Next, ConnectionStep, LoopStep, CloserStep

(***************************************************************************)
(* No client is ever told of a version that the store does not have, in    *)
(* whatever order the user loop, the closer and the connections take their *)
(* steps.  The invariant adds the texts that are still on their way: what  *)
(* a repeated clip is acknowledged with comes from the ring, a welcome     *)
(* from a text read earlier.                                               *)
(***************************************************************************)
THEOREM AnnouncedIsSaved == Spec => []SavedBeforeAnnounced
<1>1. Init => SavedInv
  <2> SUFFICES ASSUME Init PROVE SavedInv
    OBVIOUS
  <2>1. SavedVersion /\ SavedLatest
    BY HubAssumption DEF Init, SavedVersion, SavedLatest, UpTo
  <2>2. SavedRing
    BY DEF Init, SavedRing, NewRing
  <2>3. SavedTexts /\ SavedHeard
    BY DEF Init, SavedTexts, SavedHeard, UpTo
  <2> QED
    BY <2>1, <2>2, <2>3 DEF SavedInv
<1>2. Types /\ SavedInv => SavedBeforeAnnounced
  <2> SUFFICES ASSUME Types, SavedInv PROVE SavedBeforeAnnounced
    OBVIOUS
  <2>1. \A c \in Conns : \A t \in heard[c].newest : t # None
    BY NoneIsNoText DEF Types, ConnTypes, Heard
  <2> QED
    BY <2>1 DEF SavedInv, SavedVersion, SavedHeard, UpTo, SavedBeforeAnnounced
<1> QED
  BY <1>1, <1>2, TypesAtStart, TypesKept, SavedKept, PTL DEF Spec
-----------------------------------------------------------------------------
(***************************************************************************)
(* EveryoneWelcomed.                                                       *)
(***************************************************************************)
\* Steps of a goroutine that leave the closer where it is, or within its work on the backlog.
LEMMA OwedWhileApplying ==
  ASSUME Types, WelcomeInv, UNCHANGED <<windowClosed, connections, step>>,
         \/ pc'["closer"] = pc["closer"] /\ targets'["closer"] = targets["closer"]
         \/ /\ pc["closer"] \in {"next"} \union Applying
            /\ pc'["closer"] \in {"next"} \union Applying,
         \A c \in Conns : closed[c] => closed'[c],
         \A c \in Conns : heard[c].welcomed => heard'[c].welcomed
  PROVE  WelcomeInv'
<1>1. CloserRuns'
  BY DEF WelcomeInv, CloserRuns, Applying
<1>2. Members'
  BY DEF WelcomeInv, Members
<1>3. \A c \in Conns : Pending(c) => Pending(c)'
  BY DEF Pending, Applying
<1>4. Owed'
  BY <1>3 DEF WelcomeInv, Owed
<1> QED
  BY <1>1, <1>2, <1>4 DEF WelcomeInv

\* ApplyClip keeps whoever is owed a welcome among the connections.
LEMMA WelcomeApply ==
  ASSUME Types, WelcomeInv, NEW g \in Goroutines, ApplyStep(g)
  PROVE  WelcomeInv'
<1>1. pc \in [Goroutines -> Points] /\ targets \in [Goroutines -> SUBSET Conns]
  BY DEF Types, ThreadTypes
<1>2. UNCHANGED <<windowClosed, connections, step>>
  BY DEF ApplyStep, AckDuplicate, PassCheck, RateLimit, Reserve, Install, RememberClip,
         Broadcast, Ack, windowVars, connVars
<1>3. pc[g] \in Applying /\ (g = "closer" => pc'[g] \in {"next"} \union Applying)
      /\ \A h \in Goroutines : h # g => pc'[h] = pc[h] /\ targets'[h] = targets[h]
  BY <1>1 DEF ApplyStep, AckDuplicate, PassCheck, RateLimit, Reserve, Install, RememberClip,
              Broadcast, Ack, Applied, Applying
<1>4. \/ UNCHANGED <<closed, heard>>
      \/ \E c \in Conns, t \in Text \union {None} : \E type \in {"ack", "error", "clip"} :
           Enqueue(c, type, t)
  <2>1. CASE PassCheck(g) \/ Reserve(g) \/ Install(g) \/ RememberClip(g)
    BY <2>1 DEF PassCheck, Reserve, Install, RememberClip, connVars
  <2>2. CASE AckDuplicate(g) \/ RateLimit(g) \/ Ack(g)
    BY <1>3, <2>2, ApplyFacts DEF AckDuplicate, RateLimit, Ack, Announcing
  <2>3. ASSUME NEW c \in Conns, Broadcast(g, c)
        PROVE  \E t \in Text \union {None} : Enqueue(c, "clip", t)
    BY <1>3, <2>3, ApplyFacts DEF Broadcast, Announcing
  <2> QED
    BY <2>1, <2>2, <2>3 DEF ApplyStep
<1>5. /\ \A c \in Conns : closed[c] => closed'[c]
      /\ \A c \in Conns : heard[c].welcomed => heard'[c].welcomed
  <2>1. CASE UNCHANGED <<closed, heard>>
    BY <2>1
  <2>2. CASE \E c \in Conns, t \in Text \union {None} : \E type \in {"ack", "error", "clip"} :
               Enqueue(c, type, t)
    BY <2>2, EnqueueFacts DEF Types
  <2> QED
    BY <1>4, <2>1, <2>2
<1>6. \/ pc'["closer"] = pc["closer"] /\ targets'["closer"] = targets["closer"]
      \/ /\ pc["closer"] \in {"next"} \union Applying
         /\ pc'["closer"] \in {"next"} \union Applying
  BY <1>3 DEF Goroutines
<1> QED
  BY <1>2, <1>5, <1>6, OwedWhileApplying

\* Closing the window: from now on the closer owes the welcome.
LEMMA WelcomeClose ==
  ASSUME Types, WelcomeInv, CloseWindow,
         \/ UNCHANGED step
         \/ \E c \in Conns : step[c] = "ensure" /\ step' = [step EXCEPT ![c] = "closing"]
  PROVE  WelcomeInv'
<1>1. pc'["closer"] = "next" /\ windowClosed' /\ UNCHANGED <<connections, closed, heard>>
  BY DEF CloseWindow, Types, ThreadTypes, Goroutines
<1>2. CloserRuns'
  BY <1>1 DEF CloserRuns
<1>3. \A c \in Conns : step'[c] = step[c] \/ (step'[c] = "closing" /\ step[c] = "ensure")
  BY DEF Types, ConnTypes
<1>4. Members'
  BY <1>1, <1>3 DEF WelcomeInv, Members
<1>5. Owed'
  BY <1>1, <1>4 DEF Owed, Members, Pending
<1> QED
  BY <1>2, <1>4, <1>5 DEF WelcomeInv

\* A connection that finds the window closed welcomes itself.
LEMMA WelcomeConnection ==
  ASSUME Types, WelcomeInv, NEW c \in Conns,
         \/ Connect(c) \/ Leave(c) \/ AddLatest(c) \/ AddWelcome(c) \/ AddOpen(c)
         \/ AddNothing(c) \/ SayHello(c)
  PROVE  WelcomeInv'
<1>1. UNCHANGED <<windowClosed, pc, targets>>
  BY DEF Connect, Leave, AddLatest, AddWelcome, AddOpen, AddNothing, SayHello, windowVars,
         threadVars
<1>2. CloserRuns'
  BY <1>1 DEF WelcomeInv, CloserRuns
<1>3. step \in [Conns -> Steps] /\ connections \subseteq Conns
  BY DEF Types, ConnTypes
<1>4. CASE Connect(c)
  <2>1. /\ step'[c] = "added" /\ \A d \in Conns : d # c => step'[d] = step[d]
        /\ connections' = connections \union {c} /\ UNCHANGED <<closed, heard>>
    BY <1>3, <1>4 DEF Connect
  <2>2. Members'
    BY <2>1 DEF WelcomeInv, Members
  <2>3. Owed'
    BY <1>1, <2>1 DEF WelcomeInv, Owed, Pending
  <2> QED
    BY <1>2, <2>2, <2>3 DEF WelcomeInv
<1>5. CASE Leave(c)
  <2>1. /\ step'[c] = "gone" /\ \A d \in Conns : d # c => step'[d] = step[d]
        /\ heard' = heard
        /\ \A d \in Conns : closed[d] => closed'[d]
        /\ \A d \in connections : ~closed'[d] => d \in connections'
    BY <1>3, <1>5, CancelFacts DEF Leave, Types
  <2>2. Members'
    BY <2>1 DEF WelcomeInv, Members
  <2>3. Owed'
    BY <1>1, <2>1 DEF WelcomeInv, Owed, Pending
  <2> QED
    BY <1>2, <2>2, <2>3 DEF WelcomeInv
<1>6. CASE AddWelcome(c)
  <2>1. text[c] \in Text \union {None}
    BY DEF Types, ThreadTypes
  <2>2. /\ \A d \in Conns : closed[d] => closed'[d]
        /\ \A d \in Conns : heard[d].welcomed => heard'[d].welcomed
        /\ ~closed'[c] => heard'[c].welcomed
    BY <1>6, <2>1, EnqueueFacts DEF AddWelcome, Types
  <2>3. /\ step[c] = "welcome" /\ step'[c] = "hello" /\ connections' = connections
        /\ \A d \in Conns : d # c => step'[d] = step[d]
    BY <1>3, <1>6 DEF AddWelcome
  <2>4. Members'
    BY <2>2, <2>3 DEF WelcomeInv, Members
  <2>5. Owed'
    BY <1>1, <2>2, <2>3 DEF WelcomeInv, Owed, Pending
  <2> QED
    BY <1>2, <2>4, <2>5 DEF WelcomeInv
<1>7. CASE AddLatest(c) \/ AddOpen(c) \/ AddNothing(c) \/ SayHello(c)
  <2>1. /\ UNCHANGED <<connections, closed, heard>>
        /\ \A d \in Conns : d # c => step'[d] = step[d]
        /\ \/ step[c] = "added" /\ step'[c] = "welcome"
           \/ step[c] = "added" /\ step'[c] = "ensure" /\ ~windowClosed
           \/ step[c] = "ensure" /\ step'[c] = "hello"
           \/ step[c] = "hello" /\ step'[c] = "serving"
    BY <1>3, <1>7 DEF AddLatest, AddOpen, AddNothing, SayHello
  <2>2. Members'
    BY <2>1 DEF WelcomeInv, Members
  <2>3. Owed'
    BY <1>1, <2>1 DEF WelcomeInv, Owed, Pending
  <2> QED
    BY <1>2, <2>2, <2>3 DEF WelcomeInv
<1> QED
  BY <1>4, <1>5, <1>6, <1>7

\* The closer copies the connections and welcomes each of them.
LEMMA WelcomeCloser ==
  ASSUME Types, WelcomeInv,
         \/ CloserTakes \/ CloserLatest \/ CloserRecipients
         \/ (\E c \in Conns : CloserWelcome(c)) \/ CloserSweeps \/ CloserPanics
  PROVE  WelcomeInv'
<1>1. /\ pc \in [Goroutines -> Points] /\ targets \in [Goroutines -> SUBSET Conns]
      /\ step \in [Conns -> Steps]
  BY DEF Types, ThreadTypes, ConnTypes
<1>2. CASE CloserTakes
  <2>1. pc["closer"] = "next" /\ pc'["closer"] \in {"next"} \union Applying
    BY <1>1, <1>2 DEF CloserTakes, Goroutines, Applying
  <2> QED
    BY <1>2, <2>1, OwedWhileApplying DEF CloserTakes, windowVars, connVars
<1>3. CASE CloserLatest \/ CloserRecipients
  <2>1. /\ UNCHANGED <<windowClosed, connections, closed, heard, step>>
        /\ \/ pc["closer"] = "next" /\ pc'["closer"] = "recipients"
           \/ /\ pc["closer"] = "recipients" /\ pc'["closer"] = "welcome"
              /\ targets'["closer"] = connections
    BY <1>1, <1>3 DEF CloserLatest, CloserRecipients, windowVars, connVars, Goroutines
  <2>2. \A c \in Conns : Pending(c) => Pending(c)'
    BY <2>1 DEF Pending, Applying
  <2>3. CloserRuns' /\ Members' /\ Owed'
    BY <2>1, <2>2 DEF WelcomeInv, CloserRuns, Members, Owed
  <2> QED
    BY <2>3 DEF WelcomeInv
<1>4. ASSUME NEW c \in Conns, CloserWelcome(c) PROVE WelcomeInv'
  <2>1. text["closer"] \in Text \union {None}
    BY DEF Types, ThreadTypes, Goroutines
  <2>2. /\ \A d \in Conns : closed[d] => closed'[d]
        /\ \A d \in Conns : heard[d].welcomed => heard'[d].welcomed
        /\ ~closed'[c] => heard'[c].welcomed
    BY <1>4, <2>1, EnqueueFacts DEF CloserWelcome, Types
  <2>3. /\ UNCHANGED <<windowClosed, connections, step, pc>> /\ pc["closer"] = "welcome"
        /\ targets'["closer"] = targets["closer"] \ {c}
    BY <1>1, <1>4 DEF CloserWelcome, windowVars, Goroutines
  <2>4. \A d \in Conns : d # c /\ Pending(d) => Pending(d)'
    BY <2>3 DEF Pending
  <2>5. CloserRuns' /\ Members' /\ Owed'
    BY <2>2, <2>3, <2>4 DEF WelcomeInv, CloserRuns, Members, Owed
  <2> QED
    BY <2>5 DEF WelcomeInv
<1>5. CASE CloserSweeps
  <2>1. /\ UNCHANGED <<windowClosed, connections, closed, heard>>
        /\ pc["closer"] = "welcome" /\ targets["closer"] = {} /\ pc'["closer"] = "done"
        /\ \A c \in Conns : step'[c] = step[c] \/ (step[c] = "closing" /\ step'[c] = "hello")
    BY <1>1, <1>5 DEF CloserSweeps, CloserReturns, windowVars, Goroutines
  <2>2. \A c \in Conns : ~Pending(c)
    BY <2>1 DEF Pending, Applying
  <2>3. CloserRuns' /\ Members' /\ Owed'
    BY <2>1, <2>2 DEF WelcomeInv, CloserRuns, Members, Owed
  <2> QED
    BY <2>3 DEF WelcomeInv
<1>6. CASE CloserPanics
  <2>1. /\ UNCHANGED <<windowClosed, connections, closed, heard>>
        /\ pc["closer"] = "reserve" /\ pc'["closer"] = "panicked"
        /\ \A c \in Conns : step'[c] = step[c] \/ (step[c] = "closing" /\ step'[c] = "stranded")
    BY <1>1, <1>6 DEF CloserPanics, CloserReturns, windowVars, Goroutines
  <2>2. \A c \in Conns : Pending(c)'
    BY <2>1 DEF Pending
  <2>3. CloserRuns' /\ Members' /\ Owed'
    BY <2>1, <2>2 DEF WelcomeInv, CloserRuns, Members, Owed
  <2> QED
    BY <2>3 DEF WelcomeInv
<1> QED
  BY <1>2, <1>3, <1>4, <1>5, <1>6

\* WelcomeInv is inductive.
LEMMA WelcomeKept ==
  ASSUME Types, WelcomeInv, [Next]_vars
  PROVE  WelcomeInv'
<1>1. ASSUME UNCHANGED <<windowClosed, step, heard, targets>>, pc'["closer"] = pc["closer"],
             \/ UNCHANGED <<closed, connections>>
             \/ \E C \in SUBSET Conns : CancelConnections(C)
      PROVE  WelcomeInv'
  <2>1. /\ \A d \in Conns : closed[d] => closed'[d]
        /\ \A d \in connections : ~closed'[d] => d \in connections'
    BY <1>1, CancelFacts DEF Types
  <2>2. CloserRuns' /\ Members' /\ Owed'
    BY <1>1, <2>1 DEF WelcomeInv, CloserRuns, Members, Owed, Pending
  <2> QED
    BY <2>2 DEF WelcomeInv
<1>2. ASSUME NEW c \in Conns, NEW clip \in ClipsOf[c], Submit(c, clip) PROVE WelcomeInv'
  BY <1>1, <1>2 DEF Submit, threadVars
<1>3. CASE LoopPanics
  <2>1. pc'["closer"] = pc["closer"]
    BY <1>3 DEF LoopPanics, Types, ThreadTypes, Goroutines
  <2>2. connections \in SUBSET Conns
    BY DEF Types, ConnTypes
  <2>3. \/ UNCHANGED <<closed, connections>>
        \/ \E C \in SUBSET Conns : CancelConnections(C)
    BY <1>3, <2>2 DEF LoopPanics
  <2> QED
    BY <1>1, <1>3, <2>1, <2>3 DEF LoopPanics, windowVars
<1>4. CASE TakeHello \/ TakeClip
  <2>1. pc'["closer"] = pc["closer"]
    BY <1>4 DEF TakeHello, TakeClip, threadVars, Types, ThreadTypes, Goroutines
  <2> QED
    BY <1>1, <1>4, <2>1 DEF TakeHello, TakeClip, threadVars, connVars, windowVars
<1>5. CASE WindowEnds \/ RemoveIdle \/ UNCHANGED vars
  BY <1>1, <1>5 DEF WindowEnds, RemoveIdle, threadVars, connVars, windowVars, vars
<1>6. ASSUME NEW c \in Conns, AddCloses(c) PROVE WelcomeInv'
  BY <1>6, WelcomeClose DEF AddCloses
<1>7. CASE ScannerCloses
  BY <1>7, WelcomeClose DEF ScannerCloses
<1>8. ASSUME NEW c \in Conns, GetHub(c) \/ StartIfIdle(c) PROVE WelcomeInv'
  <2>1. /\ UNCHANGED <<windowClosed, connections, closed, heard, targets>>
        /\ \A d \in Conns : d # c => step'[d] = step[d]
        /\ step'[c] \in {"found", "started"} /\ pc'["closer"] = pc["closer"]
    BY <1>8, GetOrCreateFacts DEF windowVars
  <2>2. CloserRuns' /\ Members' /\ Owed'
    BY <2>1 DEF WelcomeInv, CloserRuns, Members, Owed, Pending
  <2> QED
    BY <2>2 DEF WelcomeInv
<1> QED
  BY <1>2, <1>3, <1>4, <1>5, <1>6, <1>7, <1>8, WelcomeConnection, WelcomeCloser, WelcomeApply
  DEF Next, ConnectionStep, LoopStep, CloserStep, Goroutines

(***************************************************************************)
(* Whoever closes the window, and wherever each connection is in its       *)
(* AddConnection at that moment, no live connection is left without a      *)
(* welcome once the hub is quiet.                                          *)
(***************************************************************************)
THEOREM NobodyMissesTheWelcome == Spec => []EveryoneWelcomed
<1>1. Init => WelcomeInv
  BY DEF Init, WelcomeInv, CloserRuns, Members, Owed, Goroutines
<1>2. Types /\ WelcomeInv => EveryoneWelcomed
  BY DEF WelcomeInv, CloserRuns, Owed, Pending, EveryoneWelcomed, Quiet, Live, Applying
<1> QED
  BY <1>1, <1>2, TypesAtStart, TypesKept, WelcomeKept, PTL DEF Spec
-----------------------------------------------------------------------------
(***************************************************************************)
(* BestCandidateRestored.                                                  *)
(***************************************************************************)
LEMMA BeforeCloseKept ==
  ASSUME Types, CloserRuns, BeforeClose, [Next]_vars, ~windowClosed'
  PROVE  /\ BeforeClose' /\ ~windowClosed
         /\ pc["loop"] = "idle" /\ pc["closer"] = "idle"
<1>1. ~windowClosed
  <2>1. CASE windowClosed
    <3>1. UNCHANGED windowClosed
      BY <2>1 DEF Next, GetHub, StartIfIdle, Connect, ConnectionStep, AddLatest, AddWelcome, AddOpen, AddNothing,
           AddCloses, SayHello, Leave, Submit, LoopStep, TakeHello, TakeClip, ApplyStep,
           AckDuplicate, PassCheck, RateLimit, Reserve, Install, RememberClip, Broadcast, Ack,
           LoopPanics, CloserStep, CloserTakes, CloserLatest, CloserRecipients, CloserWelcome,
           CloserSweeps, CloserPanics, WindowEnds, ScannerCloses, RemoveIdle, CloseWindow,
           windowVars, vars
    <3> QED
      BY <2>1, <3>1
  <2> QED
    BY <2>1
<1>2. /\ version = InitialVersion /\ latest = None /\ applied = <<>>
      /\ pc["loop"] = "idle" /\ pc["closer"] = "idle"
      /\ jobs \in Seq(Job) /\ \A i \in 1 .. Len(jobs) : jobs[i].type = "hello"
  BY <1>1 DEF BeforeClose, CloserRuns, Types, HubTypes
<1>3. ~CloseWindow
  BY DEF CloseWindow
<1>4. ~ApplyStep("loop") /\ ~ApplyStep("closer") /\ ~LoopPanics /\ ~CloserStep
  BY <1>2 DEF ApplyStep, AckDuplicate, PassCheck, RateLimit, Reserve, Install, RememberClip,
       Broadcast, Ack, LoopPanics, CloserStep, CloserTakes, CloserLatest, CloserRecipients,
       CloserWelcome, CloserSweeps, CloserPanics
<1>5. ASSUME NEW c \in Conns, SayHello(c) PROVE BeforeClose'
  <2> DEFINE j == [type |-> "hello", sender |-> c]
  <2>1. j \in Job /\ j.type = "hello"
    BY DEF Job
  <2>2. jobs' = Append(jobs, j) /\ UNCHANGED <<version, latest, applied, pc>>
    BY <1>5 DEF SayHello, threadVars
  <2> HIDE DEF j
  <2>3. \A i \in 1 .. Len(jobs') : jobs'[i].type = "hello"
    BY <1>2, <2>1, <2>2, AppendProperties
  <2> QED
    BY <1>2, <2>2, <2>3 DEF BeforeClose
<1>6. ASSUME TakeHello \/ TakeClip PROVE BeforeClose'
  <2>1. jobs # <<>> /\ jobs' = Tail(jobs)
    BY <1>6 DEF TakeHello, TakeClip
  <2>2. Head(jobs).type = "hello" /\ \A i \in 1 .. Len(jobs') : jobs'[i].type = "hello"
    BY <1>2, <2>1, HeadTailProperties
  <2>3. UNCHANGED <<version, latest, applied, pc>>
    BY <1>6, <2>2 DEF TakeHello, TakeClip, threadVars
  <2> QED
    BY <1>2, <2>2, <2>3 DEF BeforeClose
<1>7. ASSUME UNCHANGED <<version, latest, applied, pc, jobs>> PROVE BeforeClose'
  BY <1>2, <1>7 DEF BeforeClose
<1>8. ASSUME NEW c \in Conns,
             \/ Connect(c) \/ Leave(c) \/ AddLatest(c) \/ AddWelcome(c) \/ AddOpen(c)
             \/ AddNothing(c)
      PROVE  BeforeClose'
  BY <1>7, <1>8 DEF Connect, Leave, AddLatest, AddWelcome, AddOpen, AddNothing, hubVars, threadVars
<1>9. ASSUME NEW c \in Conns, NEW clip \in ClipsOf[c], Submit(c, clip) PROVE BeforeClose'
  BY <1>1, <1>7, <1>9 DEF Submit, threadVars
<1>10. ASSUME WindowEnds \/ RemoveIdle \/ UNCHANGED vars PROVE BeforeClose'
  BY <1>7, <1>10 DEF WindowEnds, RemoveIdle, hubVars, threadVars, vars
<1>11. ASSUME NEW c \in Conns, GetHub(c) \/ StartIfIdle(c) PROVE BeforeClose'
  BY <1>2, <1>7, <1>11, GetOrCreateFacts DEF hubVars
<1>12. BeforeClose'
  <2>1. ~ScannerCloses /\ \A c \in Conns : ~AddCloses(c)
    BY <1>3 DEF ScannerCloses, AddCloses
  <2>2. CASE LoopStep
    BY <1>4, <1>6, <2>2 DEF LoopStep
  <2>3. ASSUME NEW c \in Conns, GetHub(c) \/ ConnectionStep(c) \/ Leave(c) PROVE BeforeClose'
    BY <1>5, <1>8, <1>11, <2>1, <2>3 DEF ConnectionStep
  <2> QED
    BY <1>4, <1>9, <1>10, <2>1, <2>2, <2>3 DEF Next
<1> QED
  BY <1>1, <1>2, <1>12

\* The election restores the best candidate.
LEMMA ElectionIsRight ==
  ASSUME Types, BeforeClose, CloseWindow
  PROVE  BestCandidateRestored'
<1> DEFINE s == candidates
           winner == SelectSnapshotWinner(candidates, None)
<1>1. /\ version = InitialVersion /\ latest = None /\ s \in Seq(Candidate)
      /\ candidates' = s /\ InitialVersion \in Nat
  BY HubAssumption DEF BeforeClose, CloseWindow, Types, WindowTypes
<1>2. \A j \in DOMAIN s : s[j] \in Candidate /\ s[j].version \in Nat
  BY <1>1, CandidateFields
<1>3. CASE winner = None /\ \A j \in DOMAIN s : s[j].version = 0
  BY <1>1, <1>3 DEF CloseWindow, Restorable, BestCandidateRestored
<1>4. ASSUME NEW i \in DOMAIN s, winner = s[i], s[i].version > 0,
             \A j \in DOMAIN s : ~Before(s[j], s[i])
      PROVE  BestCandidateRestored'
  <2>1. \A j \in DOMAIN s : s[j].version <= s[i].version
    BY <1>2, <1>4 DEF Before
  <2>2. winner # None
    BY <1>2, <1>4, CandidateFields
  <2>3. CASE s[i].version >= InitialVersion
    <3>1. Restorable(winner)
      BY <1>1, <1>2, <1>4, <2>2, <2>3 DEF Restorable
    <3>2. /\ version' = s[i].version
          /\ latest' = [version |-> s[i].version, content |-> s[i].content]
      BY <1>4, <3>1 DEF CloseWindow
    <3>3. latest' # None
      BY <1>2, <3>2, CandidateFields, NoneIsNoText DEF Text
    <3> QED
      BY <1>1, <1>2, <1>4, <2>1, <2>3, <3>2, <3>3 DEF BestCandidateRestored
  <2>4. CASE s[i].version < InitialVersion
    <3>1. ~Restorable(winner)
      BY <1>1, <1>2, <1>4, <2>4 DEF Restorable
    <3>2. version' = version /\ latest' = None
      BY <1>1, <3>1 DEF CloseWindow
    <3> QED
      BY <1>1, <1>2, <2>1, <2>4, <3>2 DEF BestCandidateRestored
  <2> QED
    BY <1>1, <1>2, <2>3, <2>4
<1> QED
  BY <1>1, <1>3, <1>4, WinnerFacts

\* Once the window is closed the candidates stand, and the hub changes only by applying clips.
LEMMA RestoredKept ==
  ASSUME Types, CloserRuns, BeforeClose, BestCandidateRestored, [Next]_vars
  PROVE  BestCandidateRestored'
<1>1. CASE CloseWindow
  BY <1>1, ElectionIsRight
<1>2. CASE ~windowClosed'
  BY <1>2 DEF BestCandidateRestored
<1>3. ASSUME ~CloseWindow, windowClosed'
      PROVE  /\ windowClosed
             /\ \/ UNCHANGED <<version, latest, applied, candidates>>
                \/ \E g \in Goroutines : Install(g)
  <2>1. ASSUME NEW c \in Conns, GetHub(c) \/ ConnectionStep(c) \/ Leave(c)
        PROVE  UNCHANGED <<windowClosed, version, latest, applied, candidates>>
    BY <1>3, <2>1 DEF GetHub, ConnectionStep, StartIfIdle, Connect, AddLatest, AddWelcome,
                      AddOpen, AddNothing, AddCloses, SayHello, Leave, windowVars, hubVars
  <2>2. ASSUME NEW c \in Conns, NEW clip \in ClipsOf[c], Submit(c, clip)
        PROVE  UNCHANGED <<windowClosed, version, latest, applied, candidates>>
    BY <2>2 DEF Submit
  <2>3. ASSUME NEW g \in Goroutines, ApplyStep(g)
        PROVE  \/ UNCHANGED <<windowClosed, version, latest, applied, candidates>>
               \/ Install(g) /\ UNCHANGED windowClosed
    <3>1. CASE Install(g)
      BY <3>1 DEF Install, windowVars
    <3> QED
      BY <2>3, <3>1 DEF ApplyStep, AckDuplicate, PassCheck, RateLimit, Reserve, RememberClip,
                        Broadcast, Ack, windowVars, hubVars
  <2>4. CASE TakeHello
    <3>1. UNCHANGED <<windowClosed, version, latest, applied>>
      BY <2>4 DEF TakeHello
    <3>2. UNCHANGED candidates
      BY <1>3, <2>4, <3>1 DEF TakeHello, AcceptSnapshot
    <3> QED
      BY <1>3, <3>1, <3>2
  <2>5. ASSUME \/ TakeClip \/ LoopPanics \/ CloserTakes \/ CloserLatest \/ CloserRecipients
               \/ (\E c \in Conns : CloserWelcome(c)) \/ CloserSweeps \/ CloserPanics
        PROVE  UNCHANGED <<windowClosed, version, latest, applied, candidates>>
    BY <2>5 DEF TakeClip, LoopPanics, CloserTakes, CloserLatest, CloserRecipients, CloserWelcome,
                CloserSweeps, CloserPanics, windowVars, hubVars
  <2>6. ASSUME WindowEnds \/ RemoveIdle \/ UNCHANGED vars
        PROVE  UNCHANGED <<windowClosed, version, latest, applied, candidates>>
    BY <2>6 DEF WindowEnds, RemoveIdle, windowVars, hubVars, vars
  <2>7. ~ScannerCloses
    BY <1>3 DEF ScannerCloses
  <2>8. "loop" \in Goroutines /\ "closer" \in Goroutines
    BY DEF Goroutines
  <2> QED
    BY <1>3, <2>1, <2>2, <2>3, <2>4, <2>5, <2>6, <2>7, <2>8 DEF Next, LoopStep, CloserStep
<1>4. ASSUME NEW g \in Goroutines, Install(g) PROVE applied' # <<>>
  <2>1. applied' = Append(applied, [clip |-> Clip(g), version |-> text[g].version])
        /\ applied \in Seq([clip : ClipSet, version : 0 .. MaxVersion])
    BY <1>4 DEF Install, Types, HubTypes
  <2> QED
    BY <2>1
<1> QED
  BY <1>1, <1>2, <1>3, <1>4 DEF BestCandidateRestored

(***************************************************************************)
(* The window restores the best of the accepted snapshots, by version,     *)
(* time and client, in whatever order and interleaving the hellos arrived, *)
(* and never a version below the one the hub was created with.             *)
(***************************************************************************)
THEOREM WindowRestoresTheBest == Spec => []BestCandidateRestored
<1> DEFINE Inv == Types /\ WelcomeInv /\ BeforeClose /\ BestCandidateRestored
<1>1. Init => Inv
  <2>1. Init => WelcomeInv
    BY DEF Init, WelcomeInv, CloserRuns, Members, Owed, Goroutines
  <2>2. Init => BeforeClose /\ BestCandidateRestored
    BY DEF Init, BeforeClose, BestCandidateRestored, Goroutines
  <2> QED
    BY <2>1, <2>2, TypesAtStart
<1>2. Inv /\ [Next]_vars => Inv'
  <2> SUFFICES ASSUME Inv, [Next]_vars PROVE Inv'
    OBVIOUS
  <2>1. BeforeClose'
    BY BeforeCloseKept DEF WelcomeInv, BeforeClose
  <2> QED
    BY <2>1, TypesKept, WelcomeKept, RestoredKept DEF WelcomeInv
<1> QED
  BY <1>1, <1>2, PTL DEF Spec
-----------------------------------------------------------------------------
(***************************************************************************)
(* GaplessVersions, for a hub created after the recovery window.           *)
(***************************************************************************)
LEMMA NothingWaitsKept ==
  ASSUME Types, NothingWaits, [Next]_vars
  PROVE  NothingWaits'
<1>1. /\ step \in [Conns -> Steps] /\ pc \in [Goroutines -> Points] /\ windowOver
      /\ recoveryQueue = <<>> /\ backlog = <<>> /\ candidates = <<>>
      /\ pc["closer"] \notin Applying /\ ~ApplyStep("closer") /\ ~CloserPanics /\ ~CloserTakes
  BY DEF Types, ConnTypes, ThreadTypes, NothingWaits, ApplyStep, AckDuplicate, PassCheck,
         RateLimit, Reserve, Install, RememberClip, Broadcast, Ack, Applying, CloserPanics,
         CloserTakes
<1>2. ASSUME UNCHANGED windowVars, UNCHANGED backlog, pc'["closer"] \notin Applying,
             ~windowClosed => UNCHANGED jobs /\ UNCHANGED step
      PROVE  NothingWaits'
  BY <1>2 DEF windowVars, NothingWaits
<1>3. ASSUME NEW c \in Conns,
             Connect(c) \/ AddLatest(c) \/ AddWelcome(c) \/ AddOpen(c) \/ AddNothing(c)
             \/ SayHello(c) \/ Leave(c)
      PROVE  NothingWaits'
  <2>1. UNCHANGED windowVars /\ UNCHANGED backlog /\ pc' = pc
    BY <1>3 DEF Connect, AddLatest, AddWelcome, AddOpen, AddNothing, SayHello, Leave, threadVars
  <2>2. ASSUME ~windowClosed
        PROVE  /\ jobs' = <<>>
               /\ \A d \in Conns : step'[d] \notin {"welcome", "closing", "hello", "serving"}
    <3>1. jobs = <<>> /\ \A d \in Conns : step[d] \notin {"welcome", "closing", "hello", "serving"}
      BY <2>2 DEF NothingWaits
    <3>2. UNCHANGED jobs /\ \/ Connect(c) \/ AddOpen(c) \/ Leave(c)
      BY <1>1, <1>3, <2>2, <3>1 DEF Connect, AddLatest, AddWelcome, AddOpen, AddNothing, SayHello,
                                    Leave, hubVars
    <3>3. \A d \in Conns : step'[d] = step[d] \/ step'[d] \in {"added", "ensure", "gone"}
      BY <1>1, <3>2 DEF Connect, AddOpen, Leave
    <3> QED
      BY <3>1, <3>2, <3>3
  <2> QED
    BY <1>1, <2>1, <2>2 DEF windowVars, NothingWaits
<1>4. ASSUME CloseWindow PROVE NothingWaits'
  <2>1. /\ windowClosed' /\ windowOver' /\ backlog' = <<>> /\ recoveryQueue' = <<>>
        /\ candidates' = <<>> /\ pc'["closer"] = "next"
    BY <1>1, <1>4 DEF CloseWindow, Goroutines
  <2> QED
    BY <2>1 DEF NothingWaits, Applying
<1>5. ASSUME NEW c \in Conns, NEW clip \in ClipsOf[c], Submit(c, clip) PROVE NothingWaits'
  <2>1. windowClosed
    BY <1>5 DEF Submit, NothingWaits
  <2>2. UNCHANGED windowVars /\ UNCHANGED backlog /\ pc' = pc
    BY <1>5, <2>1 DEF Submit, windowVars, threadVars
  <2> QED
    BY <1>1, <1>2, <2>1, <2>2
<1>6. CASE TakeHello
  <2>1. windowClosed
    BY <1>6 DEF TakeHello, NothingWaits
  <2>2. UNCHANGED windowVars /\ UNCHANGED backlog /\ pc' = pc
    BY <1>6, <2>1 DEF TakeHello, AcceptSnapshot, windowVars, threadVars
  <2> QED
    BY <1>1, <1>2, <2>1, <2>2
<1>7. CASE TakeClip
  <2>1. windowClosed
    BY <1>7 DEF TakeClip, NothingWaits
  <2>2. pc'["closer"] = pc["closer"]
    BY <1>1, <1>7 DEF TakeClip, Goroutines
  <2> QED
    BY <1>1, <1>2, <1>7, <2>1, <2>2 DEF TakeClip
<1>8. CASE ApplyStep("loop") \/ LoopPanics
  <2>1. pc'["closer"] = pc["closer"]
    BY <1>1, <1>8 DEF ApplyStep, AckDuplicate, PassCheck, RateLimit, Reserve, Install,
                      RememberClip, Broadcast, Ack, Applied, LoopPanics, Goroutines
  <2>2. UNCHANGED windowVars /\ UNCHANGED backlog /\ UNCHANGED jobs /\ UNCHANGED step
    BY <1>8 DEF ApplyStep, AckDuplicate, PassCheck, RateLimit, Reserve, Install,
                RememberClip, Broadcast, Ack, LoopPanics, hubVars, connVars
  <2> QED
    BY <1>1, <1>2, <2>1, <2>2
<1>9. ASSUME CloserLatest \/ CloserRecipients \/ (\E c \in Conns : CloserWelcome(c))
             \/ CloserSweeps
      PROVE  NothingWaits'
  <2>1. pc'["closer"] \in {"recipients", "welcome", "done"}
    BY <1>1, <1>9 DEF CloserLatest, CloserRecipients, CloserWelcome, CloserSweeps, Goroutines
  <2>2. UNCHANGED windowVars /\ UNCHANGED backlog /\ UNCHANGED jobs
    BY <1>9 DEF CloserLatest, CloserRecipients, CloserWelcome, CloserSweeps, hubVars
  <2>3. ~windowClosed => UNCHANGED step
    <3>1. CASE CloserSweeps
      <4>1. ~windowClosed => \A c \in Conns : step'[c] = step[c]
        BY <3>1 DEF CloserSweeps, CloserReturns, NothingWaits
      <4>2. step' = [c \in Conns |-> step'[c]] /\ step = [c \in Conns |-> step[c]]
        BY <1>1, <3>1 DEF CloserSweeps, CloserReturns
      <4> QED
        BY <4>1, <4>2
    <3> QED
      BY <1>9, <3>1 DEF CloserLatest, CloserRecipients, CloserWelcome, connVars
  <2> QED
    BY <1>2, <2>1, <2>2, <2>3 DEF Applying
<1>10. ASSUME WindowEnds \/ RemoveIdle \/ UNCHANGED vars PROVE NothingWaits'
  BY <1>1, <1>2, <1>10 DEF WindowEnds, RemoveIdle, hubVars, connVars, threadVars, windowVars, vars
<1>11. ASSUME NEW c \in Conns, GetHub(c) \/ StartIfIdle(c) PROVE NothingWaits'
  <2>1. /\ UNCHANGED <<windowVars, backlog, jobs>> /\ pc'["closer"] = pc["closer"]
        /\ \A d \in Conns : d # c => step'[d] = step[d]
        /\ step'[c] \in {"found", "started"}
    BY <1>11, GetOrCreateFacts DEF hubVars
  <2> QED
    BY <1>1, <2>1 DEF windowVars, NothingWaits
<1> QED
  BY <1>1, <1>3, <1>4, <1>5, <1>6, <1>7, <1>8, <1>9, <1>10, <1>11
  DEF Next, ConnectionStep, AddCloses, LoopStep, CloserStep, ScannerCloses

\* Numbered is inductive while nothing waits for the closer.
LEMMA NumberedKept ==
  ASSUME Types, NothingWaits, Numbered, [Next]_vars
  PROVE  Numbered'
<1>1. /\ pc \in [Goroutines -> Points] /\ version \in Nat /\ InitialVersion \in Nat
      /\ text \in [Goroutines \union Conns -> Text \union {None}]
      /\ applied \in Seq([clip : ClipSet, version : 0 .. MaxVersion])
      /\ ~ApplyStep("closer")
  BY HubAssumption
  DEF Types, ThreadTypes, HubTypes, NothingWaits, ApplyStep, AckDuplicate, PassCheck,
      RateLimit, Reserve, Install, RememberClip, Broadcast, Ack, Applying
<1>2. ASSUME UNCHANGED <<version, applied>>, text'["loop"] = text["loop"],
             pc'["loop"] = "install" => pc["loop"] = "install"
      PROVE  Numbered'
  BY <1>2 DEF Numbered, GaplessVersions
<1>3. CASE Install("loop")
  <2> DEFINE a == [clip |-> Clip("loop"), version |-> text["loop"].version]
             A == [clip : ClipSet, version : 0 .. MaxVersion]
  <2>1. /\ version' = version + 1 /\ applied' = Append(applied, a) /\ pc'["loop"] = "remember"
        /\ a.version = version + 1
    BY <1>1, <1>3 DEF Install, Numbered, Goroutines
  <2>2. a \in A
    <3>1. text["loop"] \in Text /\ Clip("loop") \in ClipSet
      BY <1>3, ApplyFacts DEF Install, Applying, Announcing, Goroutines
    <3>2. text["loop"].version \in 0 .. MaxVersion
      BY <3>1, NoneIsNoText
    <3> QED
      BY <3>1, <3>2
  <2> HIDE DEF a, A
  <2>3. /\ Len(applied) \in Nat /\ Len(applied') = Len(applied) + 1
        /\ DOMAIN applied' = 1 .. Len(applied) + 1
        /\ \A i \in 1 .. Len(applied) : applied'[i] = applied[i]
        /\ applied'[Len(applied) + 1] = a
    <3>1. applied \in Seq(A)
      BY <1>1 DEF A
    <3> QED
      BY <2>1, <2>2, <3>1, AppendProperties
  <2>4. \A i \in DOMAIN applied' : applied'[i].version = InitialVersion + i
    <3> SUFFICES ASSUME NEW i \in 1 .. Len(applied) + 1
                 PROVE  applied'[i].version = InitialVersion + i
      BY <2>3
    <3>1. CASE i = Len(applied) + 1
      <4>1. applied'[i].version = version + 1
        BY <2>1, <2>3, <3>1
      <4>2. version = InitialVersion + Len(applied)
        BY DEF Numbered
      <4> QED
        BY <1>1, <2>3, <3>1, <4>1, <4>2
    <3>2. CASE i \in 1 .. Len(applied)
      <4>1. i \in DOMAIN applied /\ applied'[i] = applied[i]
        BY <1>1, <2>3, <3>2
      <4> QED
        BY <4>1 DEF Numbered, GaplessVersions
    <3> QED
      BY <2>3, <3>1, <3>2
  <2> QED
    BY <1>1, <2>1, <2>3, <2>4 DEF Numbered, GaplessVersions
<1>4. CASE Reserve("loop")
  <2>1. /\ text'["loop"].version = version + 1 /\ UNCHANGED <<version, applied>>
    BY <1>1, <1>4 DEF Reserve, NextVersion, Goroutines
  <2> QED
    BY <2>1 DEF Numbered, GaplessVersions
<1>5. CASE AckDuplicate("loop") \/ PassCheck("loop") \/ RateLimit("loop") \/ RememberClip("loop")
           \/ (\E c \in Conns : Broadcast("loop", c)) \/ Ack("loop")
  <2>1. UNCHANGED <<version, applied>> /\ pc'["loop"] # "install"
    BY <1>1, <1>5 DEF AckDuplicate, PassCheck, RateLimit, RememberClip, Broadcast, Ack, Applied,
                      hubVars, Goroutines
  <2> QED
    BY <2>1 DEF Numbered, GaplessVersions
<1>6. ASSUME NEW c \in Conns, GetHub(c) \/ ConnectionStep(c) \/ Leave(c), ~AddCloses(c)
      PROVE  Numbered'
  <2>1. /\ UNCHANGED <<version, applied>> /\ text'["loop"] = text["loop"]
        /\ pc'["loop"] = pc["loop"] \/ pc'["loop"] = "idle"
    BY <1>1, <1>6, HubAssumption DEF GetHub, StartIfIdle, Connect, ConnectionStep, AddLatest, AddWelcome, AddOpen,
       AddNothing, SayHello, Leave, threadVars, hubVars, Goroutines
  <2> QED
    BY <1>2, <2>1
<1>7. ASSUME NEW c \in Conns, NEW clip \in ClipsOf[c], Submit(c, clip) PROVE Numbered'
  BY <1>2, <1>7 DEF Submit, threadVars
<1>8. CASE TakeHello \/ TakeClip \/ LoopPanics
  <2>1. /\ UNCHANGED <<version, applied, text>> /\ pc'["loop"] # "install"
    BY <1>1, <1>8 DEF TakeHello, TakeClip, LoopPanics, threadVars, hubVars, Goroutines
  <2> QED
    BY <1>2, <2>1
<1>9. ASSUME CloserTakes \/ CloserLatest \/ CloserRecipients
             \/ (\E c \in Conns : CloserWelcome(c)) \/ CloserSweeps \/ CloserPanics
      PROVE  Numbered'
  <2>1. /\ UNCHANGED <<version, applied>> /\ text'["loop"] = text["loop"]
        /\ pc'["loop"] = pc["loop"]
    BY <1>1, <1>9 DEF CloserTakes, CloserLatest, CloserRecipients, CloserWelcome, CloserSweeps,
                      CloserPanics, hubVars, Goroutines
  <2> QED
    BY <1>2, <2>1
<1>10. ASSUME WindowEnds \/ RemoveIdle \/ UNCHANGED vars PROVE Numbered'
  BY <1>2, <1>10 DEF WindowEnds, RemoveIdle, hubVars, threadVars, vars
<1>11. ASSUME CloseWindow PROVE Numbered'
  <2>1. SelectSnapshotWinner(candidates, None) = None
    BY DEF NothingWaits, SelectSnapshotWinner, Eligible
  <2>2. UNCHANGED <<version, applied, text>> /\ pc'["loop"] = pc["loop"]
    BY <1>1, <1>11, <2>1 DEF CloseWindow, Restorable, Goroutines
  <2> QED
    BY <1>2, <2>2
<1> QED
  BY <1>1, <1>3, <1>4, <1>5, <1>6, <1>7, <1>8, <1>9, <1>10, <1>11
  DEF Next, ConnectionStep, AddCloses, LoopStep, ApplyStep, CloserStep, ScannerCloses

(***************************************************************************)
(* A hub created after the recovery window numbers the clips it applies    *)
(* one after the other from the stored version: it has one applier, since  *)
(* nothing can wait for its closer.                                        *)
(***************************************************************************)
THEOREM LateHubIsGapless == WindowOverAtStart => (Spec => []GaplessVersions)
<1> SUFFICES ASSUME WindowOverAtStart PROVE Spec => []GaplessVersions
  OBVIOUS
<1>1. Init => NothingWaits /\ Numbered
  BY HubAssumption DEF Init, NothingWaits, Numbered, GaplessVersions, Goroutines, Applying
<1>2. Numbered => GaplessVersions
  BY DEF Numbered
<1> QED
  BY <1>1, <1>2, TypesAtStart, TypesKept, NothingWaitsKept, NumberedKept, PTL DEF Spec
=============================================================================
