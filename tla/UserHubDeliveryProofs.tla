------------------------ MODULE UserHubDeliveryProofs ------------------------
(***************************************************************************)
(* What reaches the clients: a hub created after the recovery window       *)
(* converges, gives a repeat no second version and implements SerialHub,   *)
(* and every hub answers every clip of a live connection once.             *)
(***************************************************************************)
EXTENDS UserHubProofs

(***************************************************************************)
(* Every text anybody holds or was told is one that was applied, and so    *)
(* two of one version are the same text.                                   *)
(***************************************************************************)
IsApplied(t, s) ==
  \E i \in DOMAIN s : t = [version |-> s[i].version, content |-> s[i].clip.content]

LatestApplied ==
  /\ latest = None <=> applied = <<>>
  /\ latest # None => IsApplied(latest, applied) /\ latest.version = version
RingApplied == \A id \in DOMAIN seenIDs.entries : IsApplied(seenIDs.entries[id], applied)
TextsApplied ==
  /\ \A x \in {"closer"} \union Conns : text[x] # None => IsApplied(text[x], applied)
  /\ pc["loop"] \in {"remember", "broadcast"} => text["loop"] = latest /\ latest # None
  /\ pc["loop"] = "install" => text["loop"].content = Clip("loop").content
HeardApplied ==
  \A c \in Conns : \A t \in heard[c].newest :
    /\ IsApplied(t, applied)
    /\ \A u \in heard[c].newest : u.version = t.version

AppliedInv == LatestApplied /\ RingApplied /\ TextsApplied /\ HeardApplied

(***************************************************************************)
(* A connection past the append of AddConnection was told the latest text, *)
(* or somebody is on the way to tell it: the loop that installed it, its   *)
(* own AddConnection, or the closer.                                       *)
(***************************************************************************)
Current(c) == \E t \in heard[c].newest : t.version = version

OnTheWay(c) ==
  \/ pc["loop"] = "remember"
  \/ pc["loop"] = "broadcast" /\ (c \in targets["loop"] \/ c = Sender("loop"))
  \/ step[c] = "welcome" /\ text[c] = latest
  \/ pc["closer"] = "next"
  \/ pc["closer"] = "recipients" /\ text["closer"] = latest
  \/ pc["closer"] = "welcome" /\ c \in targets["closer"] /\ text["closer"] = latest

\* The steps of a connection that has yet to look at the window, and of one that is no more.
Away == {"out", "found", "started", "added", "gone"}

Told ==
  \A c \in Conns :
    latest # None /\ ~closed[c] /\ step[c] \notin Away => Current(c) \/ OnTheWay(c)

LateInv == WelcomeInv /\ BeforeClose /\ NothingWaits /\ Numbered /\ AppliedInv /\ Told
-----------------------------------------------------------------------------
AppliedClip == [clip : ClipSet, version : 0 .. MaxVersion]

\* What was applied stays applied.
LEMMA AppliedStays ==
  ASSUME NEW s \in Seq(AppliedClip), NEW a \in AppliedClip, NEW t, IsApplied(t, s)
  PROVE  IsApplied(t, Append(s, a))
<1>1. PICK i \in DOMAIN s : t = [version |-> s[i].version, content |-> s[i].clip.content]
  BY DEF IsApplied
<1>2. i \in DOMAIN Append(s, a) /\ Append(s, a)[i] = s[i]
  BY AppendProperties
<1> QED
  BY <1>1, <1>2 DEF IsApplied

\* A version names one applied text, and none is above the hub's.
LEMMA AppliedFacts ==
  ASSUME Types, Numbered, NEW t, IsApplied(t, applied)
  PROVE  /\ t \in Text /\ t # None /\ t.version \in Nat /\ t.version <= version
         /\ \A u : IsApplied(u, applied) /\ u.version = t.version => u = t
<1>1. applied \in Seq(AppliedClip) /\ InitialVersion \in Nat /\ version \in Nat
  BY HubAssumption DEF Types, HubTypes, AppliedClip
<1>2. \A i \in DOMAIN applied : /\ applied[i] \in AppliedClip /\ i \in Nat /\ i <= Len(applied)
                                /\ applied[i].version = InitialVersion + i
  BY <1>1 DEF Numbered, GaplessVersions
<1>3. PICK i \in DOMAIN applied :
        t = [version |-> applied[i].version, content |-> applied[i].clip.content]
  BY DEF IsApplied
<1>4. applied[i].version \in 0 .. MaxVersion /\ applied[i].clip.content \in Contents
  BY <1>2 DEF AppliedClip, ClipSet
<1>5. t \in Text /\ t.version = InitialVersion + i
  BY <1>2, <1>3, <1>4 DEF Text
<1>6. t.version <= version
  <2>1. version = InitialVersion + Len(applied) /\ Len(applied) \in Nat
    BY <1>1 DEF Numbered
  <2> QED
    BY <1>1, <1>2, <1>5, <2>1
<1>7. ASSUME NEW u, IsApplied(u, applied), u.version = t.version PROVE u = t
  <2>1. PICK j \in DOMAIN applied :
          u = [version |-> applied[j].version, content |-> applied[j].clip.content]
    BY <1>7 DEF IsApplied
  <2>2. u.version = InitialVersion + j
    BY <1>2, <2>1
  <2>3. i = j
    BY <1>1, <1>2, <1>5, <1>7, <2>2
  <2> QED
    BY <1>3, <2>1, <2>3
<1> QED
  BY <1>1, <1>2, <1>5, <1>6, <1>7, NoneIsNoText

\* What a connection has heard after a message.
LEMMA EnqueueShape ==
  ASSUME ConnTypes, NEW c \in Conns, NEW type, NEW t, Enqueue(c, type, t)
  PROVE  /\ \A d \in Conns : d # c => heard'[d].newest = heard[d].newest
         /\ \/ heard'[c].newest = heard[c].newest /\ closed'[c]
            \/ heard'[c].newest = Newest(heard[c].newest, t)
<1>1. heard \in [Conns -> Heard] /\ closed \in [Conns -> BOOLEAN]
  BY DEF ConnTypes
<1>2. Hear(heard[c], type, t).newest = Newest(heard[c].newest, t)
  BY DEF Hear
<1> DEFINE h == Hear(heard[c], type, t)
<1>3. \/ heard' = heard /\ closed[c] /\ closed' = closed
      \/ heard' = [heard EXCEPT ![c] = h]
      \/ heard' = heard /\ closed' = [closed EXCEPT ![c] = TRUE]
  BY DEF Enqueue
<1>4. CASE heard' = [heard EXCEPT ![c] = h]
  <2> HIDE DEF h
  <2>1. heard'[c] = h /\ \A d \in Conns : d # c => heard'[d] = heard[d]
    BY <1>1, <1>4
  <2> QED
    BY <1>2, <2>1 DEF h
<1>5. CASE heard' = heard /\ closed'[c]
  BY <1>5
<1> QED
  BY <1>1, <1>3, <1>4, <1>5

\* Enqueuing an applied text: one version is the newest, and who is current stays current.
LEMMA EnqueueApplied ==
  ASSUME Types, Numbered, HeardApplied, NEW c \in Conns, NEW type, NEW t,
         t = None \/ IsApplied(t, applied), Enqueue(c, type, t), UNCHANGED <<version, applied>>
  PROVE  /\ HeardApplied'
         /\ \A d \in Conns : Current(d) => Current(d)'
         /\ t # None /\ t.version = version /\ ~closed'[c] => Current(c)'
<1> DEFINE old == heard[c].newest
           new == Newest(old, t)
<1>1. /\ \A d \in Conns : d # c => heard'[d].newest = heard[d].newest
      /\ \/ heard'[c].newest = old /\ closed'[c]
         \/ heard'[c].newest = new
  BY EnqueueShape DEF Types
<1>2. \A u \in old : /\ IsApplied(u, applied) /\ \A w \in old : w.version = u.version
                     /\ u.version \in Nat /\ u.version <= version
  BY AppliedFacts DEF HeardApplied
<1>3. t # None => t.version \in Nat /\ t.version <= version
  BY AppliedFacts
<1>4. version \in Nat
  BY DEF Types, HubTypes
<1>5. /\ \A u \in new : IsApplied(u, applied) /\ \A w \in new : w.version = u.version
      /\ (\E u \in old : u.version = version) => \E u \in new : u.version = version
      /\ t # None /\ t.version = version => \E u \in new : u.version = version
  <2>1. CASE t = None \/ \E u \in old : u.version > t.version
    <3>1. new = old
      BY <2>1 DEF Newest
    <3>2. ~(t # None /\ t.version = version)
      BY <1>2, <1>3, <1>4, <2>1
    <3> QED
      BY <1>2, <3>1, <3>2
  <2>2. CASE ~(t = None \/ \E u \in old : u.version > t.version)
    <3>1. new = {u \in old : u.version = t.version} \union {t} /\ t # None
      BY <2>2, Zenon DEF Newest
    <3> HIDE DEF new
    <3>2. \A u \in new : IsApplied(u, applied) /\ \A w \in new : w.version = u.version
      BY <1>2, <3>1
    <3>3. (\E u \in old : u.version = version) => t.version = version
      BY <1>2, <1>3, <1>4, <2>2, <3>1
    <3> QED
      BY <3>1, <3>2, <3>3
  <2> QED
    BY <2>1, <2>2
<1> HIDE DEF new
<1>6. HeardApplied'
  <2> SUFFICES ASSUME NEW d \in Conns, NEW u \in heard'[d].newest
               PROVE  /\ IsApplied(u, applied)
                      /\ \A w \in heard'[d].newest : w.version = u.version
    BY DEF HeardApplied
  <2>1. CASE d # c
    BY <1>1, <2>1 DEF HeardApplied
  <2>2. CASE d = c
    BY <1>1, <1>2, <1>5, <2>2
  <2> QED
    BY <2>1, <2>2
<1>7. \A d \in Conns : Current(d) => Current(d)'
  BY <1>1, <1>5 DEF Current
<1>8. t # None /\ t.version = version /\ ~closed'[c] => Current(c)'
  BY <1>1, <1>5 DEF Current
<1> QED
  BY <1>6, <1>7, <1>8

\* What a step leaves alone is as applied as before.
LEMMA AppliedUntouched ==
  ASSUME AppliedInv, UNCHANGED applied
  PROVE  /\ UNCHANGED <<latest, version>> => LatestApplied'
         /\ UNCHANGED seenIDs => RingApplied'
         /\ /\ \A x \in {"closer"} \union Conns :
                 text'[x] = text[x] \/ text'[x] = None \/ text'[x] = latest
            /\ text'["loop"] = text["loop"] /\ latest' = latest
            /\ pc'["loop"] \in {"install", "remember", "broadcast"} =>
                 pc'["loop"] = pc["loop"] /\ work'["loop"] = work["loop"]
            => TextsApplied'
         /\ UNCHANGED heard => HeardApplied'
<1>1. UNCHANGED <<latest, version>> => LatestApplied'
  BY DEF AppliedInv, LatestApplied
<1>2. UNCHANGED seenIDs => RingApplied'
  BY DEF AppliedInv, RingApplied
<1>3. ASSUME /\ \A x \in {"closer"} \union Conns :
                  text'[x] = text[x] \/ text'[x] = None \/ text'[x] = latest
             /\ text'["loop"] = text["loop"] /\ latest' = latest
             /\ pc'["loop"] \in {"install", "remember", "broadcast"} =>
                  pc'["loop"] = pc["loop"] /\ work'["loop"] = work["loop"]
      PROVE  TextsApplied'
  BY <1>3 DEF AppliedInv, TextsApplied, LatestApplied, Clip
<1>4. UNCHANGED heard => HeardApplied'
  BY DEF AppliedInv, HeardApplied
<1> QED
  BY <1>1, <1>2, <1>3, <1>4

\* The user loop's ApplyClip.
LEMMA AppliedByLoop ==
  ASSUME Types, Numbered, Numbered', AppliedInv, ApplyStep("loop")
  PROVE  AppliedInv'
<1>1. /\ pc \in [Goroutines -> Points] /\ work \in [Goroutines -> Queued \union {None}]
      /\ text \in [Goroutines \union Conns -> Text \union {None}]
      /\ applied \in Seq(AppliedClip) /\ "loop" \in Goroutines
      /\ pc["loop"] \in Applying
  BY DEF Types, ThreadTypes, HubTypes, AppliedClip, Goroutines, ApplyStep, AckDuplicate, PassCheck,
         RateLimit, Reserve, Install, RememberClip, Broadcast, Ack, Applying
<1>2. "loop" \notin {"closer"} \union Conns
  BY HubAssumption
<1>3. Sender("loop") \in Conns /\ Clip("loop") \in ClipSet /\ Clip("loop").id \in Ids
  BY <1>1, ApplyFacts
<1>4. ASSUME NEW type, NEW t, t = None \/ IsApplied(t, applied), Enqueue(Sender("loop"), type, t),
             Applied("loop"), UNCHANGED hubVars
      PROVE  AppliedInv'
  <2>1. HeardApplied'
    BY <1>3, <1>4, EnqueueApplied DEF AppliedInv, hubVars
  <2>2. /\ pc'["loop"] = "idle" /\ \A x \in {"closer"} \union Conns : text'[x] = text[x]
        /\ UNCHANGED <<latest, version, seenIDs, applied>>
    BY <1>1, <1>2, <1>4 DEF Applied, hubVars, Goroutines
  <2>3. TextsApplied'
    BY <2>2 DEF AppliedInv, TextsApplied
  <2> QED
    BY <2>1, <2>2, <2>3, AppliedUntouched DEF AppliedInv
<1>5. CASE AckDuplicate("loop")
  BY <1>1, <1>4, <1>5, ApplyFacts DEF AckDuplicate, AppliedInv, RingApplied
<1>6. CASE RateLimit("loop")
  BY <1>4, <1>6 DEF RateLimit
<1>7. CASE Ack("loop")
  BY <1>4, <1>7 DEF Ack, AppliedInv, TextsApplied, LatestApplied
<1>8. CASE PassCheck("loop")
  <2>1. pc'["loop"] = "reserve" /\ UNCHANGED <<latest, version, seenIDs, applied, text, heard>>
    BY <1>1, <1>8 DEF PassCheck, hubVars, connVars
  <2> QED
    BY <2>1, AppliedUntouched DEF AppliedInv
<1>9. CASE Reserve("loop")
  <2>1. /\ pc'["loop"] = "install" /\ UNCHANGED <<latest, version, seenIDs, applied, heard, work>>
        /\ text'["loop"].content = Clip("loop").content
        /\ \A x \in {"closer"} \union Conns : text'[x] = text[x]
    BY <1>1, <1>2, <1>9 DEF Reserve, connVars, Goroutines
  <2>2. TextsApplied'
    BY <2>1 DEF AppliedInv, TextsApplied, Clip
  <2> QED
    BY <2>1, <2>2, AppliedUntouched DEF AppliedInv
<1>10. CASE Install("loop")
  <2> DEFINE a == [clip |-> Clip("loop"), version |-> text["loop"].version]
             t == text["loop"]
  <2>1. /\ pc'["loop"] = "remember" /\ UNCHANGED <<seenIDs, heard, work, text>>
        /\ latest' = t /\ version' = t.version /\ applied' = Append(applied, a)
        /\ t \in Text /\ t # None
    BY <1>1, <1>10, ApplyFacts, NoneIsNoText DEF Install, connVars, Applying, Announcing
  <2>2. a \in AppliedClip /\ t = [version |-> t.version, content |-> t.content]
    BY <1>3, <2>1, NoneIsNoText DEF AppliedClip, Text
  <2>3. t.content = Clip("loop").content
    BY <1>10 DEF Install, AppliedInv, TextsApplied
  <2>4. IsApplied(t, applied') /\ applied' # <<>>
    <3>1. /\ Len(applied) + 1 \in DOMAIN applied' /\ applied'[Len(applied) + 1] = a
          /\ applied' # <<>>
      BY <1>1, <2>1, <2>2, AppendProperties
    <3>2. t = [version |-> a.version, content |-> a.clip.content]
      BY <2>2, <2>3
    <3> HIDE DEF a, t
    <3> QED
      BY <3>1, <3>2 DEF IsApplied
  <2> HIDE DEF a
  <2>5. \A u : IsApplied(u, applied) => IsApplied(u, applied')
    BY <1>1, <2>1, <2>2, AppliedStays
  <2>6. LatestApplied'
    BY <2>1, <2>4 DEF LatestApplied
  <2>7. TextsApplied'
    BY <2>1, <2>5 DEF AppliedInv, TextsApplied
  <2>8. RingApplied' /\ HeardApplied'
    BY <2>1, <2>5 DEF AppliedInv, RingApplied, HeardApplied
  <2> QED
    BY <2>6, <2>7, <2>8 DEF AppliedInv
<1>11. CASE RememberClip("loop")
  <2>1. /\ pc["loop"] = "remember" /\ pc'["loop"] = "broadcast"
        /\ UNCHANGED <<latest, version, applied, heard, work, text>>
    BY <1>1, <1>11 DEF RememberClip, connVars
  <2>2. text["loop"] \in Text /\ IsApplied(text["loop"], applied)
    BY <1>1, <2>1, ApplyFacts DEF Announcing, AppliedInv, TextsApplied, LatestApplied
  <2>3. \A i \in DOMAIN seenIDs'.entries :
          \/ seenIDs'.entries[i] = text["loop"]
          \/ i \in DOMAIN seenIDs.entries /\ seenIDs'.entries[i] = seenIDs.entries[i]
    BY <1>3, <1>11, <2>2, RememberFacts DEF RememberClip, Types
  <2>4. RingApplied'
    BY <2>1, <2>2, <2>3 DEF AppliedInv, RingApplied
  <2>5. TextsApplied'
    BY <2>1 DEF AppliedInv, TextsApplied
  <2> QED
    BY <2>1, <2>4, <2>5, AppliedUntouched DEF AppliedInv
<1>12. ASSUME NEW c \in Conns, Broadcast("loop", c) PROVE AppliedInv'
  <2>1. IsApplied(text["loop"], applied)
    BY <1>12 DEF Broadcast, AppliedInv, TextsApplied, LatestApplied
  <2>2. HeardApplied'
    BY <1>12, <2>1, EnqueueApplied DEF Broadcast, AppliedInv, hubVars
  <2>3. UNCHANGED <<latest, version, seenIDs, applied, work, text, pc>>
    BY <1>12 DEF Broadcast, hubVars
  <2> QED
    BY <2>2, <2>3, AppliedUntouched DEF AppliedInv
<1> QED
  BY <1>5, <1>6, <1>7, <1>8, <1>9, <1>10, <1>11, <1>12 DEF ApplyStep

\* AppliedInv is inductive while nothing waits for the closer.
LEMMA AppliedKept ==
  ASSUME Types, WelcomeInv, BeforeClose, NothingWaits, Numbered, Numbered', AppliedInv, [Next]_vars
  PROVE  AppliedInv'
<1>1. /\ pc \in [Goroutines -> Points] /\ work \in [Goroutines -> Queued \union {None}]
      /\ text \in [Goroutines \union Conns -> Text \union {None}]
      /\ "loop" \in Goroutines /\ "closer" \in Goroutines
      /\ "loop" \notin {"closer"} \union Conns
      /\ ~ApplyStep("closer")
  BY HubAssumption
  DEF Types, ThreadTypes, Goroutines, NothingWaits, ApplyStep, AckDuplicate, PassCheck,
      RateLimit, Reserve, Install, RememberClip, Broadcast, Ack, Applying
<1>2. ASSUME NEW c \in Conns,
             \/ Connect(c) \/ Leave(c) \/ AddLatest(c) \/ AddOpen(c) \/ AddNothing(c)
             \/ SayHello(c)
      PROVE  AppliedInv'
  <2>1. /\ UNCHANGED <<latest, version, seenIDs, applied, work, pc, heard>>
        /\ text'["loop"] = text["loop"]
        /\ \A x \in {"closer"} \union Conns : text'[x] = text[x] \/ text'[x] = latest
    BY <1>1, <1>2 DEF Connect, Leave, AddLatest, AddOpen, AddNothing, SayHello, hubVars, threadVars
  <2> QED
    BY <2>1, AppliedUntouched DEF AppliedInv
<1>3. ASSUME NEW c \in Conns, AddWelcome(c) PROVE AppliedInv'
  <2>1. text[c] = None \/ IsApplied(text[c], applied)
    BY DEF AppliedInv, TextsApplied
  <2>2. HeardApplied'
    BY <1>3, <2>1, EnqueueApplied DEF AddWelcome, AppliedInv, hubVars
  <2>3. /\ UNCHANGED <<latest, version, seenIDs, applied, work, pc>>
        /\ text'["loop"] = text["loop"]
        /\ \A x \in {"closer"} \union Conns : text'[x] = text[x] \/ text'[x] = None
    BY <1>1, <1>3 DEF AddWelcome, hubVars
  <2> QED
    BY <2>2, <2>3, AppliedUntouched DEF AppliedInv
<1>4. ASSUME NEW c \in Conns, NEW clip \in ClipsOf[c], Submit(c, clip) PROVE AppliedInv'
  BY <1>4, AppliedUntouched DEF Submit, threadVars, AppliedInv
<1>5. CASE TakeHello \/ TakeClip \/ LoopPanics
  <2>1. /\ UNCHANGED <<latest, version, seenIDs, applied, text, heard>>
        /\ pc'["loop"] \in {"idle", "check", "dead"}
    BY <1>1, <1>5 DEF TakeHello, TakeClip, LoopPanics, hubVars, connVars, threadVars
  <2> QED
    BY <2>1, AppliedUntouched DEF AppliedInv
<1>6. ASSUME CloserTakes \/ CloserLatest \/ CloserRecipients \/ CloserSweeps \/ CloserPanics
      PROVE  AppliedInv'
  <2>1. /\ UNCHANGED <<latest, version, seenIDs, applied, heard>>
        /\ pc'["loop"] = pc["loop"] /\ work'["loop"] = work["loop"]
        /\ text'["loop"] = text["loop"]
        /\ \A x \in {"closer"} \union Conns :
             text'[x] = text[x] \/ text'[x] = None \/ text'[x] = latest
    BY <1>1, <1>6 DEF CloserTakes, CloserLatest, CloserRecipients, CloserSweeps, CloserPanics,
                      hubVars, connVars
  <2> QED
    BY <2>1, AppliedUntouched DEF AppliedInv
<1>7. ASSUME NEW c \in Conns, CloserWelcome(c) PROVE AppliedInv'
  <2>1. text["closer"] = None \/ IsApplied(text["closer"], applied)
    BY DEF AppliedInv, TextsApplied
  <2>2. HeardApplied'
    BY <1>7, <2>1, EnqueueApplied DEF CloserWelcome, AppliedInv, hubVars
  <2>3. UNCHANGED <<latest, version, seenIDs, applied, work, text, pc>>
    BY <1>7 DEF CloserWelcome, hubVars
  <2> QED
    BY <2>2, <2>3, AppliedUntouched DEF AppliedInv
<1>8. ASSUME CloseWindow PROVE AppliedInv'
  <2>1. SelectSnapshotWinner(candidates, None) = None
    BY DEF NothingWaits, SelectSnapshotWinner, Eligible
  <2>2. /\ UNCHANGED <<latest, version, seenIDs, applied, work, text, heard>>
        /\ pc'["loop"] = pc["loop"]
    BY <1>1, <1>8, <2>1 DEF CloseWindow, Restorable
  <2> QED
    BY <2>2, AppliedUntouched DEF AppliedInv
<1>9. ASSUME WindowEnds \/ RemoveIdle \/ UNCHANGED vars PROVE AppliedInv'
  BY <1>9, AppliedUntouched
  DEF WindowEnds, RemoveIdle, hubVars, connVars, threadVars, vars, AppliedInv
<1>10. CASE ApplyStep("loop")
  BY <1>10, AppliedByLoop
<1>11. ASSUME NEW c \in Conns, GetHub(c) \/ StartIfIdle(c) PROVE AppliedInv'
  <2>1. /\ UNCHANGED <<latest, version, seenIDs, applied, work, text, heard>>
        /\ pc' = pc \/ pc'["loop"] = "idle"
    BY <1>11, GetOrCreateFacts DEF hubVars
  <2> QED
    BY <2>1, AppliedUntouched DEF AppliedInv
<1> QED
  BY <1>1, <1>2, <1>3, <1>4, <1>5, <1>6, <1>7, <1>8, <1>9, <1>10, <1>11
  DEF Next, ConnectionStep, AddCloses, LoopStep, CloserStep, ScannerCloses

\* Steps that tell nobody and install nothing, and end nobody's duty.
LEMMA ToldUntouched ==
  ASSUME Told, UNCHANGED <<latest, version, heard>>,
         \A c \in Conns : closed[c] => closed'[c],
         \A c \in Conns : step'[c] \notin Away /\ latest # None =>
                            \/ step[c] \notin Away
                            \/ step'[c] = "welcome" /\ text'[c] = latest,
         \A c \in Conns : latest # None /\ ~closed'[c] /\ step'[c] \notin Away =>
                            (OnTheWay(c) => OnTheWay(c)')
  PROVE  Told'
<1> SUFFICES ASSUME NEW c \in Conns, latest' # None, ~closed'[c],
                    step'[c] \notin Away
             PROVE  Current(c)' \/ OnTheWay(c)'
  BY DEF Told
<1>1. CASE step'[c] = "welcome" /\ text'[c] = latest
  BY <1>1 DEF OnTheWay
<1>2. CASE step[c] \notin Away
  <2>1. Current(c) \/ OnTheWay(c)
    BY <1>2 DEF Told
  <2>2. Current(c) => Current(c)'
    BY DEF Current
  <2> QED
    BY <2>1, <2>2
<1> QED
  BY <1>1, <1>2

\* The user loop's ApplyClip tells everybody, or leaves it to who is on the way.
LEMMA ToldByLoop ==
  ASSUME Types, Members, Numbered, AppliedInv, Told, ApplyStep("loop")
  PROVE  Told'
<1>1. /\ pc \in [Goroutines -> Points] /\ targets \in [Goroutines -> SUBSET Conns]
      /\ text \in [Goroutines \union Conns -> Text \union {None}]
      /\ "loop" \in Goroutines /\ "closer" \in Goroutines
      /\ "loop" \notin {"closer"} \union Conns /\ pc["loop"] \in Applying
  BY HubAssumption
  DEF Types, ThreadTypes, Goroutines, ApplyStep, AckDuplicate, PassCheck,
      RateLimit, Reserve, Install, RememberClip, Broadcast, Ack, Applying
<1>2. Sender("loop") \in Conns
  BY <1>1, ApplyFacts
<1>3. pc'["closer"] = pc["closer"] /\ targets'["closer"] = targets["closer"] /\ step' = step
  BY <1>1 DEF ApplyStep, AckDuplicate, PassCheck, RateLimit, Reserve, Install, RememberClip,
              Broadcast, Ack, Applied, connVars
<1>4. \A x \in {"closer"} \union Conns : text'[x] = text[x]
  BY <1>1 DEF ApplyStep, AckDuplicate, PassCheck, RateLimit, Reserve, Install, RememberClip,
              Broadcast, Ack, Applied, Goroutines
<1>5. CASE PassCheck("loop") \/ Reserve("loop")
  <2>1. /\ UNCHANGED <<latest, version, heard, closed>>
        /\ pc["loop"] \notin {"remember", "broadcast"}
    BY <1>5 DEF PassCheck, Reserve, hubVars, connVars
  <2>2. \A c \in Conns : OnTheWay(c) => OnTheWay(c)'
    BY <1>3, <1>4, <2>1 DEF OnTheWay
  <2> QED
    BY <1>3, <2>1, <2>2, ToldUntouched
<1>6. CASE Install("loop")
  <2>1. pc'["loop"] = "remember"
    BY <1>1, <1>6 DEF Install
  <2> QED
    BY <2>1 DEF Told, OnTheWay
<1>7. CASE RememberClip("loop")
  <2>1. /\ UNCHANGED <<latest, version, heard, closed, connections, work>>
        /\ pc'["loop"] = "broadcast" /\ targets'["loop"] = connections \ {Sender("loop")}
    BY <1>1, <1>7 DEF RememberClip, Recipients, connVars
  <2>2. ASSUME NEW c \in Conns, ~closed'[c], step'[c] \notin Away PROVE OnTheWay(c)'
    <3>1. c \in connections
      BY <1>3, <2>1, <2>2 DEF Members, Away
    <3> QED
      BY <2>1, <3>1 DEF OnTheWay, Sender
  <2> QED
    BY <2>2 DEF Told
<1>8. ASSUME NEW type, NEW d \in Conns, NEW t, t = None \/ IsApplied(t, applied),
             Enqueue(d, type, t), UNCHANGED <<version, applied, latest>>,
             pc["loop"] \in {"remember", "broadcast"} => t = latest,
             \A c \in Conns : c # d /\ OnTheWay(c) => OnTheWay(c)',
             t # latest => (OnTheWay(d) => OnTheWay(d)')
      PROVE  Told'
  <2>1. /\ \A c \in Conns : Current(c) => Current(c)'
        /\ t # None /\ t.version = version /\ ~closed'[d] => Current(d)'
    BY <1>8, EnqueueApplied DEF AppliedInv
  <2>2. \A c \in Conns : closed[c] => closed'[c]
    <3>1. t \in Text \union {None}
      BY <1>8, AppliedFacts
    <3> QED
      BY <1>8, <3>1, EnqueueFacts DEF Types
  <2> SUFFICES ASSUME NEW c \in Conns, latest # None, ~closed'[c],
                      step[c] \notin Away
               PROVE  Current(c)' \/ OnTheWay(c)'
    BY <1>3, <1>8 DEF Told
  <2>3. Current(c) \/ OnTheWay(c)
    BY <2>2 DEF Told
  <2>4. latest.version = version
    BY DEF AppliedInv, LatestApplied
  <2> QED
    BY <1>8, <2>1, <2>3, <2>4
<1>9. CASE AckDuplicate("loop") \/ RateLimit("loop")
  <2>1. /\ pc["loop"] \notin {"remember", "broadcast"} /\ UNCHANGED <<version, applied, latest>>
    BY <1>9 DEF AckDuplicate, RateLimit, hubVars
  <2>2. \A c \in Conns : OnTheWay(c) => OnTheWay(c)'
    BY <1>3, <1>4, <2>1 DEF OnTheWay
  <2>3. \E type, t : (t = None \/ IsApplied(t, applied)) /\ Enqueue(Sender("loop"), type, t)
    <3>1. CASE AckDuplicate("loop")
      <4>1. IsApplied(seenIDs.entries[Clip("loop").id], applied)
        BY <1>1, <3>1, ApplyFacts DEF AckDuplicate, AppliedInv, RingApplied
      <4> QED
        BY <3>1, <4>1 DEF AckDuplicate
    <3>2. CASE RateLimit("loop")
      BY <3>2 DEF RateLimit
    <3> QED
      BY <1>9, <3>1, <3>2
  <2> QED
    BY <1>2, <1>8, <2>1, <2>2, <2>3
<1>10. CASE Ack("loop")
  <2>1. /\ pc["loop"] = "broadcast" /\ targets["loop"] = {} /\ UNCHANGED <<version, applied, latest>>
        /\ Enqueue(Sender("loop"), "ack", text["loop"])
    BY <1>10 DEF Ack, hubVars
  <2>2. text["loop"] = latest /\ IsApplied(text["loop"], applied)
    BY <2>1 DEF AppliedInv, TextsApplied, LatestApplied
  <2>3. \A c \in Conns : c # Sender("loop") /\ OnTheWay(c) => OnTheWay(c)'
    BY <1>3, <1>4, <2>1 DEF OnTheWay
  <2> QED
    BY <1>2, <1>8, <2>1, <2>2, <2>3
<1>11. ASSUME NEW d \in Conns, Broadcast("loop", d) PROVE Told'
  <2>1. /\ pc["loop"] = "broadcast" /\ UNCHANGED <<version, applied, latest, pc, work>>
        /\ Enqueue(d, "clip", text["loop"]) /\ targets'["loop"] = targets["loop"] \ {d}
    BY <1>1, <1>11 DEF Broadcast, hubVars
  <2>2. text["loop"] = latest /\ IsApplied(text["loop"], applied)
    BY <2>1 DEF AppliedInv, TextsApplied, LatestApplied
  <2>3. \A c \in Conns : c # d /\ OnTheWay(c) => OnTheWay(c)'
    BY <1>3, <1>4, <2>1 DEF OnTheWay, Sender
  <2> QED
    BY <1>8, <2>1, <2>2, <2>3
<1> QED
  BY <1>5, <1>6, <1>7, <1>9, <1>10, <1>11 DEF ApplyStep

\* A welcome, from AddConnection or from the closer.
LEMMA ToldByWelcome ==
  ASSUME Types, Numbered, AppliedInv, Told, NEW d \in Conns, NEW t,
         t = None \/ IsApplied(t, applied), Enqueue(d, "welcome", t),
         UNCHANGED <<version, applied, latest>>,
         \A c \in Conns : step'[c] \notin Away =>
                            step[c] \notin Away,
         \A c \in Conns : c # d /\ OnTheWay(c) => OnTheWay(c)',
         t # latest => (OnTheWay(d) => OnTheWay(d)')
  PROVE  Told'
<1>1. /\ \A c \in Conns : Current(c) => Current(c)'
      /\ t # None /\ t.version = version /\ ~closed'[d] => Current(d)'
  BY EnqueueApplied DEF AppliedInv
<1>2. \A c \in Conns : closed[c] => closed'[c]
  <2>1. t \in Text \union {None}
    BY AppliedFacts
  <2> QED
    BY <2>1, EnqueueFacts DEF Types
<1> SUFFICES ASSUME NEW c \in Conns, latest # None, ~closed'[c],
                    step'[c] \notin Away
             PROVE  Current(c)' \/ OnTheWay(c)'
  BY DEF Told
<1>3. Current(c) \/ OnTheWay(c)
  BY <1>2 DEF Told
<1>4. latest.version = version
  BY DEF AppliedInv, LatestApplied
<1> QED
  BY <1>1, <1>3, <1>4

\* A connection that joins reads the latest text after it is among the connections.
LEMMA ToldByConnection ==
  ASSUME Types, BeforeClose, Numbered, AppliedInv, Told, NEW c \in Conns,
         \/ Connect(c) \/ Leave(c) \/ AddLatest(c) \/ AddWelcome(c) \/ AddOpen(c)
         \/ AddNothing(c) \/ SayHello(c)
  PROVE  Told'
<1>1. /\ step \in [Conns -> Steps] /\ text \in [Goroutines \union Conns -> Text \union {None}]
      /\ Goroutines \intersect Conns = {} /\ "closer" \in Goroutines
  BY HubAssumption DEF Types, ConnTypes, ThreadTypes, Goroutines
<1>2. CASE AddWelcome(c)
  <2>1. /\ step[c] = "welcome" /\ step'[c] = "hello" /\ \A d \in Conns : d # c => step'[d] = step[d]
        /\ \A x \in Goroutines \union Conns : x # c => text'[x] = text[x]
        /\ UNCHANGED <<version, applied, latest, pc, work, targets>>
        /\ Enqueue(c, "welcome", text[c]) /\ text'["closer"] = text["closer"]
    BY <1>1, <1>2 DEF AddWelcome, hubVars
  <2>2. text[c] = None \/ IsApplied(text[c], applied)
    BY DEF AppliedInv, TextsApplied
  <2>3. \A d \in Conns : d # c /\ OnTheWay(d) => OnTheWay(d)'
    BY <2>1 DEF OnTheWay, Sender
  <2>4. text[c] # latest => (OnTheWay(c) => OnTheWay(c)')
    BY <2>1 DEF OnTheWay, Sender
  <2> QED
    BY <2>1, <2>2, <2>3, <2>4, ToldByWelcome DEF Away
<1>3. CASE AddLatest(c)
  <2>1. /\ step'[c] = "welcome" /\ \A d \in Conns : d # c => step'[d] = step[d]
        /\ text'[c] = latest /\ \A x \in Goroutines \union Conns : x # c => text'[x] = text[x]
        /\ UNCHANGED <<version, latest, pc, work, targets, heard, closed>>
        /\ text'["closer"] = text["closer"]
    BY <1>1, <1>3 DEF AddLatest, hubVars
  <2>2. \A d \in Conns : OnTheWay(d) => OnTheWay(d)'
    BY <2>1 DEF OnTheWay, Sender
  <2> QED
    BY <2>1, <2>2, ToldUntouched DEF Away
<1>4. CASE Connect(c) \/ Leave(c) \/ AddNothing(c) \/ SayHello(c)
  <2>1. /\ UNCHANGED <<version, latest, pc, work, targets, heard, text>>
        /\ \A d \in Conns : d # c => step'[d] = step[d]
        /\ step'[c] \in {"added", "gone"} \/ step[c] \in {"ensure", "hello"}
    BY <1>1, <1>4 DEF Connect, Leave, AddNothing, SayHello, hubVars, threadVars
  <2>2. \A d \in Conns : closed[d] => closed'[d]
    BY <1>4, CancelFacts DEF Connect, Leave, AddNothing, SayHello, Types
  <2>3. \A d \in Conns : step'[d] \notin Away =>
                           /\ step[d] \notin Away
                           /\ OnTheWay(d) => OnTheWay(d)'
    BY <2>1 DEF OnTheWay, Sender, Away
  <2> QED
    BY <2>1, <2>2, <2>3, ToldUntouched
<1>5. CASE AddOpen(c)
  BY <1>5 DEF AddOpen, BeforeClose, hubVars, Told
<1> QED
  BY <1>2, <1>3, <1>4, <1>5

\* The closer of a late hub has only welcomes to send.
LEMMA ToldByCloser ==
  ASSUME Types, Members, Numbered, AppliedInv, Told,
         \/ CloserLatest \/ CloserRecipients \/ (\E c \in Conns : CloserWelcome(c)) \/ CloserSweeps
  PROVE  Told'
<1>1. /\ pc \in [Goroutines -> Points] /\ targets \in [Goroutines -> SUBSET Conns]
      /\ text \in [Goroutines \union Conns -> Text \union {None}]
      /\ "loop" \in Goroutines /\ "closer" \in Goroutines /\ "closer" \notin Conns
      /\ step \in [Conns -> Steps]
  BY HubAssumption DEF Types, ConnTypes, ThreadTypes, Goroutines
<1>2. CASE CloserLatest \/ CloserRecipients
  <2>1. /\ UNCHANGED <<version, latest, heard, closed, step, connections, work>>
        /\ pc'["loop"] = pc["loop"] /\ targets'["loop"] = targets["loop"]
        /\ \A c \in Conns : text'[c] = text[c]
        /\ \/ pc'["closer"] = "recipients" /\ text'["closer"] = latest
           \/ /\ pc["closer"] = "recipients" /\ pc'["closer"] = "welcome"
              /\ targets'["closer"] = connections /\ text'["closer"] = text["closer"]
    BY <1>1, <1>2 DEF CloserLatest, CloserRecipients, hubVars, connVars
  <2>2. ASSUME NEW c \in Conns, ~closed[c], step[c] \notin Away, OnTheWay(c)
        PROVE  OnTheWay(c)'
    <3>1. c \in connections
      BY <2>2 DEF Members, Away
    <3> QED
      BY <2>1, <2>2, <3>1 DEF OnTheWay, Sender
  <2> QED
    BY <2>1, <2>2, ToldUntouched
<1>3. ASSUME NEW d \in Conns, CloserWelcome(d) PROVE Told'
  <2>1. /\ UNCHANGED <<version, applied, latest, step, work, text, pc>>
        /\ Enqueue(d, "welcome", text["closer"])
        /\ targets'["closer"] = targets["closer"] \ {d} /\ targets'["loop"] = targets["loop"]
        /\ pc["closer"] = "welcome"
    BY <1>1, <1>3 DEF CloserWelcome, hubVars
  <2>2. text["closer"] = None \/ IsApplied(text["closer"], applied)
    BY DEF AppliedInv, TextsApplied
  <2>3. \A c \in Conns : c # d /\ OnTheWay(c) => OnTheWay(c)'
    BY <2>1 DEF OnTheWay, Sender
  <2>4. text["closer"] # latest => (OnTheWay(d) => OnTheWay(d)')
    BY <2>1 DEF OnTheWay, Sender
  <2> QED
    BY <2>1, <2>2, <2>3, <2>4, ToldByWelcome
<1>4. CASE CloserSweeps
  <2>1. /\ UNCHANGED <<version, latest, heard, closed, work, targets>>
        /\ pc'["loop"] = pc["loop"] /\ pc["closer"] = "welcome" /\ targets["closer"] = {}
        /\ \A c \in Conns : /\ text'[c] = text[c]
                            /\ step'[c] = step[c] \/ step[c] = "closing"
    BY <1>1, <1>4 DEF CloserSweeps, CloserReturns, hubVars
  <2>2. \A c \in Conns : OnTheWay(c) => OnTheWay(c)'
    BY <2>1 DEF OnTheWay, Sender
  <2> QED
    BY <2>1, <2>2, ToldUntouched DEF Away
<1> QED
  BY <1>2, <1>3, <1>4

\* Told is inductive while nothing waits for the closer.
LEMMA ToldKept ==
  ASSUME Types, WelcomeInv, BeforeClose, NothingWaits, Numbered, AppliedInv, Told, [Next]_vars
  PROVE  Told'
<1>1. /\ pc \in [Goroutines -> Points] /\ "loop" \in Goroutines /\ "closer" \in Goroutines
      /\ ~ApplyStep("closer") /\ ~CloserTakes /\ ~CloserPanics /\ Members
  BY DEF Types, ThreadTypes, Goroutines, NothingWaits, ApplyStep, AckDuplicate, PassCheck,
         RateLimit, Reserve, Install, RememberClip, Broadcast, Ack, Applying, CloserTakes,
         CloserPanics, WelcomeInv
<1>2. ASSUME UNCHANGED <<version, latest, heard, step, text, targets>>, pc'["closer"] = pc["closer"],
             pc["loop"] \in {"remember", "broadcast"} =>
               pc'["loop"] = pc["loop"] /\ work'["loop"] = work["loop"],
             \/ UNCHANGED closed
             \/ \E C \in SUBSET Conns : CancelConnections(C)
      PROVE  Told'
  <2>1. \A c \in Conns : closed[c] => closed'[c]
    BY <1>2, CancelFacts DEF Types
  <2>2. \A c \in Conns : OnTheWay(c) => OnTheWay(c)'
    BY <1>2 DEF OnTheWay, Sender
  <2> QED
    BY <1>2, <2>1, <2>2, ToldUntouched
<1>3. ASSUME NEW c \in Conns, NEW clip \in ClipsOf[c], Submit(c, clip) PROVE Told'
  <2>1. UNCHANGED closed \/ \E C \in SUBSET Conns : CancelConnections(C)
    BY <1>3 DEF Submit
  <2> QED
    BY <1>2, <1>3, <2>1 DEF Submit, threadVars
<1>4. CASE TakeHello \/ TakeClip \/ LoopPanics
  <2>1. UNCHANGED closed \/ \E C \in SUBSET Conns : CancelConnections(C)
    BY <1>4 DEF TakeHello, TakeClip, LoopPanics, connVars, Types, ConnTypes
  <2>2. /\ UNCHANGED <<version, latest, heard, step, text, targets>> /\ pc'["closer"] = pc["closer"]
        /\ pc["loop"] \notin {"remember", "broadcast"}
    BY <1>1, <1>4 DEF TakeHello, TakeClip, LoopPanics, connVars, threadVars, hubVars
  <2> QED
    BY <1>2, <2>1, <2>2
<1>5. ASSUME WindowEnds \/ RemoveIdle \/ UNCHANGED vars PROVE Told'
  BY <1>2, <1>5 DEF WindowEnds, RemoveIdle, hubVars, connVars, threadVars, vars
<1>6. ASSUME CloseWindow PROVE Told'
  <2>1. SelectSnapshotWinner(candidates, None) = None
    BY DEF NothingWaits, SelectSnapshotWinner, Eligible
  <2>2. latest' = None
    BY <1>6, <2>1 DEF CloseWindow, Restorable, BeforeClose
  <2> QED
    BY <2>2 DEF Told
<1>7. ASSUME NEW c \in Conns, GetHub(c) \/ StartIfIdle(c) PROVE Told'
  <2>1. /\ UNCHANGED <<version, latest, heard, closed, text, targets, work>>
        /\ pc'["closer"] = pc["closer"]
        /\ pc' = pc \/ (pc["loop"] = "dead" /\ pc'["loop"] = "idle")
        /\ \A d \in Conns : step'[d] \notin Away => step'[d] = step[d]
    BY <1>7, GetOrCreateFacts DEF hubVars, Away
  <2>2. \A d \in Conns : step'[d] \notin Away => (OnTheWay(d) => OnTheWay(d)')
    BY <2>1 DEF OnTheWay, Sender
  <2> QED
    BY <2>1, <2>2, ToldUntouched
<1> QED
  BY <1>1, <1>3, <1>4, <1>5, <1>6, <1>7, ToldByConnection, ToldByCloser, ToldByLoop
  DEF Next, ConnectionStep, AddCloses, LoopStep, CloserStep, ScannerCloses

\* LateInv holds in a new hub,
LEMMA LateAtStart ==
  ASSUME WindowOverAtStart, Init
  PROVE  LateInv
<1>1. WelcomeInv /\ BeforeClose
  BY DEF Init, WelcomeInv, CloserRuns, Members, Owed, Goroutines, BeforeClose
<1>2. NothingWaits /\ Numbered
  BY HubAssumption DEF Init, NothingWaits, Numbered, GaplessVersions, Goroutines, Applying
<1>3. LatestApplied /\ HeardApplied /\ Told
  BY DEF Init, LatestApplied, HeardApplied, Told, Away
<1>4. RingApplied
  BY DEF Init, RingApplied, NewRing
<1>5. TextsApplied
  BY DEF Init, TextsApplied, Goroutines
<1> QED
  BY <1>1, <1>2, <1>3, <1>4, <1>5 DEF LateInv, AppliedInv

\* and every step keeps it.
LEMMA LateKept ==
  ASSUME Types, LateInv, [Next]_vars
  PROVE  LateInv'
<1>1. WelcomeInv' /\ NothingWaits' /\ Numbered'
  BY WelcomeKept, NothingWaitsKept, NumberedKept DEF LateInv
<1>2. BeforeClose'
  BY BeforeCloseKept DEF LateInv, WelcomeInv, BeforeClose
<1>3. AppliedInv' /\ Told'
  BY <1>1, AppliedKept, ToldKept DEF LateInv
<1> QED
  BY <1>1, <1>2, <1>3 DEF LateInv

(***************************************************************************)
(* In a hub created after the recovery window every live connection ends   *)
(* with the latest text and no other, however connections join while clips *)
(* are applied: whoever joins between two mutexes of ApplyClip is told by  *)
(* the broadcast or by its own welcome.                                    *)
(***************************************************************************)
THEOREM LateHubConverges == WindowOverAtStart => (Spec => []Converged)
<1> SUFFICES ASSUME WindowOverAtStart PROVE Spec => []Converged
  OBVIOUS
<1>1. Init => LateInv
  BY LateAtStart
<1>2. Types /\ LateInv /\ [Next]_vars => LateInv'
  BY LateKept
<1>3. Types /\ LateInv => Converged
  <2> SUFFICES ASSUME Types, LateInv, Quiet, latest # None, NEW c \in Conns, Live(c)
               PROVE  heard[c].newest = {latest}
    BY DEF Converged
  <2>1. Current(c)
    BY DEF LateInv, Told, OnTheWay, Quiet, Live, Away
  <2>2. PICK t \in heard[c].newest : t.version = version
    BY <2>1 DEF Current
  <2>3. IsApplied(latest, applied) /\ latest.version = version /\ Numbered
    BY DEF LateInv, AppliedInv, LatestApplied
  <2>4. \A u \in heard[c].newest : IsApplied(u, applied) /\ u.version = version
    BY <2>2 DEF LateInv, AppliedInv, HeardApplied
  <2>5. \A u \in heard[c].newest : u = latest
    BY <2>3, <2>4, AppliedFacts
  <2> QED
    BY <2>2, <2>5
<1> QED
  BY <1>1, <1>2, <1>3, TypesAtStart, TypesKept, PTL DEF Spec
-----------------------------------------------------------------------------
(***************************************************************************)
(* EveryClipAnswered, before the hub is quiet: a clip of a live connection *)
(* was answered, or it is in exactly one place, unless one died with the   *)
(* user loop.                                                              *)
(***************************************************************************)
Count(s, P) == Cardinality({i \in DOMAIN s : s[i] \in P})

JobsOf(c) == {j \in Job : j.type = "clip" /\ j.sender = c}
QueuedOf(c) == {q \in Queued : q.sender = c}
Busy(g, c) == IF pc[g] \in Applying /\ Sender(g) = c THEN 1 ELSE 0

Balanced(c) ==
  sent[c] = heard[c].answers + Count(jobs, JobsOf(c)) + Count(recoveryQueue, QueuedOf(c))
              + Count(backlog, QueuedOf(c)) + Busy("loop", c) + Busy("closer", c)

OnePlace ==
  /\ IF windowClosed THEN recoveryQueue = <<>> ELSE backlog = <<>>
  /\ pc["closer"] \in {"recipients", "welcome", "done"} => backlog = <<>>
  /\ pc["closer"] # "panicked" =>
       \A c \in Conns : ~closed[c] /\ c \notin lost => Balanced(c)

\* Counting in a queue: empty, after Append, after Tail.
LEMMA CountEmpty == \A P : Count(<<>>, P) = 0
<1>1. \A P : {i \in DOMAIN <<>> : <<>>[i] \in P} = {}
  OBVIOUS
<1> QED
  BY <1>1, FS_EmptySet DEF Count

LEMMA CountFinite ==
  ASSUME NEW S, NEW s \in Seq(S), NEW P
  PROVE  /\ IsFiniteSet({i \in DOMAIN s : s[i] \in P})
         /\ Count(s, P) \in Nat
<1> DEFINE I == {i \in DOMAIN s : s[i] \in P}
<1>1. IsFiniteSet(1 .. Len(s)) /\ I \in SUBSET (1 .. Len(s))
  BY FS_Interval
<1> HIDE DEF I
<1>2. IsFiniteSet(I)
  BY <1>1, FS_Subset
<1>3. Cardinality(I) \in Nat
  BY <1>2, FS_CardinalityType
<1> QED
  BY <1>2, <1>3 DEF I, Count

LEMMA CountAppend ==
  ASSUME NEW S, NEW s \in Seq(S), NEW e \in S, NEW P
  PROVE  Count(Append(s, e), P) = Count(s, P) + (IF e \in P THEN 1 ELSE 0)
<1> DEFINE I == {i \in DOMAIN s : s[i] \in P}
           J == {i \in DOMAIN Append(s, e) : Append(s, e)[i] \in P}
           n == Len(s) + 1
<1>1. /\ DOMAIN Append(s, e) = 1 .. n /\ DOMAIN s = 1 .. Len(s) /\ Len(s) \in Nat
      /\ \A i \in 1 .. Len(s) : Append(s, e)[i] = s[i]
      /\ Append(s, e)[n] = e
  BY AppendProperties
<1>2. J = IF e \in P THEN I \union {n} ELSE I
  BY <1>1
<1>3. n \notin I /\ IsFiniteSet(I) /\ Cardinality(I) \in Nat
  <2>1. n \notin I
    BY <1>1
  <2>2. IsFiniteSet(I) /\ Cardinality(I) \in Nat
    BY CountFinite DEF Count
  <2> QED
    BY <2>1, <2>2
<1>4. Count(Append(s, e), P) = Cardinality(J) /\ Count(s, P) = Cardinality(I)
  BY DEF Count
<1> HIDE DEF I, J, n
<1>5. Cardinality(I \union {n}) = Cardinality(I) + 1
  BY <1>3, FS_AddElement
<1> QED
  BY <1>2, <1>3, <1>4, <1>5

LEMMA CountTail ==
  ASSUME NEW S, NEW s \in Seq(S), s # <<>>, NEW P
  PROVE  Count(s, P) = Count(Tail(s), P) + (IF Head(s) \in P THEN 1 ELSE 0)
<1> DEFINE I == {i \in DOMAIN s : s[i] \in P}
           J == {i \in DOMAIN Tail(s) : Tail(s)[i] \in P}
           f == [j \in J |-> j + 1]
<1>1. /\ Tail(s) \in Seq(S) /\ Len(s) \in Nat /\ Len(s) >= 1
      /\ DOMAIN s = 1 .. Len(s) /\ DOMAIN Tail(s) = 1 .. Len(s) - 1
      /\ \A i \in 1 .. Len(s) - 1 : Tail(s)[i] = s[i + 1]
      /\ Head(s) = s[1]
  BY HeadTailProperties
<1>2. IsFiniteSet(J) /\ IsFiniteSet(I) /\ Cardinality(J) \in Nat /\ Cardinality(I) \in Nat
  BY <1>1, CountFinite DEF Count
<1>3. f \in [J -> I \ {1}]
  BY <1>1
<1>4. f \in Bijection(J, I \ {1})
  <2>1. IsInjective(f)
    BY <1>1 DEF IsInjective
  <2>2. ASSUME NEW i \in I \ {1} PROVE \E j \in J : f[j] = i
    <3>1. i - 1 \in J /\ (i - 1) + 1 = i
      BY <1>1, <2>2
    <3>2. f[i - 1] = i
      BY <3>1
    <3> QED
      BY <3>1, <3>2
  <2> HIDE DEF f
  <2> QED
    BY <1>3, <2>1, <2>2 DEF Bijection, Injection, Surjection
<1>5. Cardinality(I \ {1}) = Cardinality(J)
  <2> HIDE DEF f, I, J
  <2> QED
    BY <1>2, <1>4, FS_Bijection DEF ExistsBijection
<1>6. Cardinality(I \ {1}) = IF 1 \in I THEN Cardinality(I) - 1 ELSE Cardinality(I)
  BY <1>2, FS_RemoveElement
<1>7. 1 \in I <=> Head(s) \in P
  BY <1>1
<1>8. Count(s, P) = Cardinality(I) /\ Count(Tail(s), P) = Cardinality(J)
  BY DEF Count
<1> HIDE DEF I, J
<1> QED
  BY <1>2, <1>5, <1>6, <1>7, <1>8

\* Which answers a message adds.
LEMMA EnqueueAnswers ==
  ASSUME ConnTypes, NEW c \in Conns, NEW type, NEW t, Enqueue(c, type, t)
  PROVE  \A d \in Conns : ~closed'[d] =>
           /\ ~closed[d]
           /\ heard'[d].answers =
                heard[d].answers + (IF d = c /\ type \in {"ack", "error"} THEN 1 ELSE 0)
<1>1. heard \in [Conns -> Heard] /\ closed \in [Conns -> BOOLEAN]
      /\ \A d \in Conns : heard[d].answers \in Nat
  BY DEF ConnTypes, Heard
<1> DEFINE h == Hear(heard[c], type, t)
<1>2. h.answers = heard[c].answers + (IF type \in {"ack", "error"} THEN 1 ELSE 0)
  BY DEF Hear
<1>3. \/ heard' = heard /\ closed[c] /\ closed' = closed
      \/ heard' = [heard EXCEPT ![c] = h] /\ closed' = closed
      \/ heard' = heard /\ closed' = [closed EXCEPT ![c] = TRUE]
  BY DEF Enqueue
<1> HIDE DEF h
<1>4. CASE heard' = heard /\ closed[c] /\ closed' = closed
  BY <1>1, <1>4
<1>5. CASE heard' = [heard EXCEPT ![c] = h] /\ closed' = closed
  BY <1>1, <1>2, <1>5
<1>6. CASE heard' = heard /\ closed' = [closed EXCEPT ![c] = TRUE]
  BY <1>1, <1>6
<1> QED
  BY <1>3, <1>4, <1>5, <1>6

\* The terms of the balance are natural numbers.
LEMMA BalanceTypes ==
  ASSUME Types, NEW c \in Conns
  PROVE  /\ sent[c] \in Nat /\ heard[c].answers \in Nat
         /\ Count(jobs, JobsOf(c)) \in Nat /\ Count(recoveryQueue, QueuedOf(c)) \in Nat
         /\ Count(backlog, QueuedOf(c)) \in Nat
         /\ \A g \in Goroutines : Busy(g, c) \in 0 .. 1
<1>1. sent[c] \in Nat /\ heard[c].answers \in Nat
  BY DEF Types, ConnTypes, Heard
<1>2. jobs \in Seq(Job) /\ recoveryQueue \in Seq(Queued) /\ backlog \in Seq(Queued)
  BY DEF Types, HubTypes, WindowTypes, ThreadTypes
<1>3. /\ Count(jobs, JobsOf(c)) \in Nat /\ Count(recoveryQueue, QueuedOf(c)) \in Nat
      /\ Count(backlog, QueuedOf(c)) \in Nat
  BY <1>2, CountFinite
<1>4. \A g \in Goroutines : Busy(g, c) \in 0 .. 1
  BY DEF Busy
<1> QED
  BY <1>1, <1>3, <1>4

\* Steps that neither move a clip nor answer one.
LEMMA PlaceUntouched ==
  ASSUME OnePlace, UNCHANGED <<sent, jobs, recoveryQueue, backlog, windowClosed>>,
         \A c \in Conns : ~closed'[c] => ~closed[c] /\ heard'[c].answers = heard[c].answers,
         \A g \in Goroutines : /\ pc'[g] \in Applying <=> pc[g] \in Applying
                               /\ pc[g] \in Applying => work'[g] = work[g],
         lost \subseteq lost',
         pc["closer"] = "panicked" => pc'["closer"] = "panicked",
         pc'["closer"] \in {"recipients", "welcome", "done"} => backlog = <<>>
  PROVE  OnePlace'
<1>1. ASSUME NEW c \in Conns, ~closed'[c], Balanced(c) PROVE Balanced(c)'
  <2>1. \A g \in Goroutines : Busy(g, c)' = Busy(g, c)
    BY DEF Busy, Sender
  <2> QED
    BY <1>1, <2>1 DEF Balanced, Goroutines
<1> QED
  BY <1>1 DEF OnePlace

\* ApplyClip answers the clip it works on.
LEMMA PlaceApply ==
  ASSUME Types, OnePlace, lost \subseteq lost', NEW g \in Goroutines, ApplyStep(g)
  PROVE  OnePlace'
<1>1. /\ pc \in [Goroutines -> Points] /\ work \in [Goroutines -> Queued \union {None}]
      /\ pc[g] \in Applying /\ Sender(g) \in Conns /\ ConnTypes
  <2>1. pc[g] \in Applying
    BY DEF ApplyStep, AckDuplicate, PassCheck, RateLimit, Reserve, Install, RememberClip,
           Broadcast, Ack, Applying
  <2> QED
    BY <2>1, ApplyFacts DEF Types, ThreadTypes
<1>2. UNCHANGED <<sent, jobs, recoveryQueue, backlog, windowClosed>>
  BY DEF ApplyStep, AckDuplicate, PassCheck, RateLimit, Reserve, Install, RememberClip,
         Broadcast, Ack, windowVars, hubVars, connVars
<1>3. CASE PassCheck(g) \/ Reserve(g) \/ Install(g) \/ RememberClip(g)
  <2>1. /\ UNCHANGED <<closed, heard, work>> /\ pc'[g] \in Applying
        /\ \A h \in Goroutines : h # g => pc'[h] = pc[h]
    BY <1>1, <1>3 DEF PassCheck, Reserve, Install, RememberClip, connVars, Applying
  <2>2. /\ pc["closer"] = "panicked" => pc'["closer"] = "panicked"
        /\ pc'["closer"] \in {"recipients", "welcome", "done"} => backlog = <<>>
    BY <1>1, <2>1 DEF OnePlace, Goroutines, Applying
  <2> QED
    BY <1>1, <1>2, <2>1, <2>2, PlaceUntouched
<1>4. ASSUME NEW c \in Conns, Broadcast(g, c) PROVE OnePlace'
  <2>1. UNCHANGED <<work, pc>> /\ Enqueue(c, "clip", text[g])
    BY <1>4 DEF Broadcast
  <2>2. \A d \in Conns : ~closed'[d] => ~closed[d] /\ heard'[d].answers = heard[d].answers
    BY <1>1, <2>1, EnqueueAnswers, BalanceTypes
  <2>3. pc'["closer"] \in {"recipients", "welcome", "done"} => backlog = <<>>
    BY <2>1 DEF OnePlace
  <2> QED
    BY <1>2, <2>1, <2>2, <2>3, PlaceUntouched
<1>5. ASSUME NEW type \in {"ack", "error"}, NEW t, Enqueue(Sender(g), type, t), Applied(g)
      PROVE  OnePlace'
  <2>1. /\ pc'[g] \in {"idle", "next"} /\ \A h \in Goroutines : h # g => pc'[h] = pc[h]
        /\ \A h \in Goroutines : h # g => work'[h] = work[h]
    BY <1>1, <1>5 DEF Applied
  <2>2. \A d \in Conns : ~closed'[d] =>
          /\ ~closed[d]
          /\ heard'[d].answers = heard[d].answers + (IF d = Sender(g) THEN 1 ELSE 0)
    BY <1>1, <1>5, EnqueueAnswers
  <2>3. ASSUME NEW d \in Conns, ~closed'[d], Balanced(d) PROVE Balanced(d)'
    <3>1. Busy(g, d) = (IF d = Sender(g) THEN 1 ELSE 0) /\ Busy(g, d)' = 0
      BY <1>1, <2>1 DEF Busy, Applying
    <3>2. \A h \in Goroutines : h # g => Busy(h, d)' = Busy(h, d)
      BY <2>1 DEF Busy, Sender
    <3>3. g = "loop" \/ g = "closer"
      BY DEF Goroutines
    <3>4. heard'[d].answers = heard[d].answers + Busy(g, d)
      BY <2>2, <2>3, <3>1
    <3> QED
      BY <1>2, <2>3, <3>1, <3>2, <3>3, <3>4, BalanceTypes DEF Balanced, Goroutines
  <2>4. /\ pc'["closer"] # "panicked" => pc["closer"] # "panicked"
        /\ pc'["closer"] \in {"recipients", "welcome", "done"} => backlog = <<>>
    BY <1>1, <2>1 DEF OnePlace, Goroutines, Applying
  <2> QED
    BY <1>2, <2>2, <2>3, <2>4 DEF OnePlace
<1>6. CASE AckDuplicate(g) \/ RateLimit(g) \/ Ack(g)
  BY <1>5, <1>6 DEF AckDuplicate, RateLimit, Ack
<1> QED
  BY <1>3, <1>4, <1>6 DEF ApplyStep

\* A submitted clip enters one queue, or its connection closes.
LEMMA PlaceSubmit ==
  ASSUME Types, OnePlace, lost \subseteq lost', NEW c \in Conns, NEW clip \in ClipsOf[c], Submit(c, clip)
  PROVE  OnePlace'
<1>1. /\ UNCHANGED <<windowClosed, backlog, pc, work, heard>>
      /\ sent \in [Conns -> Nat] /\ sent' = [sent EXCEPT ![c] = @ + 1]
      /\ jobs \in Seq(Job) /\ recoveryQueue \in Seq(Queued)
  BY DEF Submit, threadVars, Types, HubTypes, WindowTypes, ConnTypes
<1>2. clip \in ClipSet
  BY HubAssumption DEF ClipSet
<1>3. \A d \in Conns : closed[d] => closed'[d]
  <2>1. UNCHANGED closed \/ CancelConnections({c})
    BY DEF Submit
  <2> QED
    BY <2>1, CancelFacts DEF Types
<1>4. \A d \in Conns : Busy("loop", d)' = Busy("loop", d) /\ Busy("closer", d)' = Busy("closer", d)
  BY <1>1 DEF Busy, Sender
<1>5. CASE windowClosed
  <2> DEFINE j == [type |-> "clip", sender |-> c, clip |-> clip]
  <2>1. jobs' = Append(jobs, j) /\ UNCHANGED <<recoveryQueue, closed>>
    BY <1>5 DEF Submit
  <2>2. j \in Job /\ \A d \in Conns : j \in JobsOf(d) <=> d = c
    BY <1>2 DEF Job, JobsOf
  <2> HIDE DEF j
  <2>3. \A d \in Conns : Count(jobs', JobsOf(d)) = Count(jobs, JobsOf(d)) + (IF d = c THEN 1 ELSE 0)
    BY <1>1, <2>1, <2>2, CountAppend
  <2>4. ASSUME NEW d \in Conns, Balanced(d) PROVE Balanced(d)'
    <3>1. /\ sent[d] \in Nat /\ heard[d].answers \in Nat
          /\ Count(jobs, JobsOf(d)) \in Nat /\ Count(recoveryQueue, QueuedOf(d)) \in Nat
          /\ Count(backlog, QueuedOf(d)) \in Nat
          /\ Busy("loop", d) \in Nat /\ Busy("closer", d) \in Nat
      BY BalanceTypes DEF Goroutines
    <3>2. sent'[d] = sent[d] + (IF d = c THEN 1 ELSE 0)
      BY <1>1, <3>1
    <3>3. heard'[d].answers = heard[d].answers
      BY <1>1
    <3>4. CASE d = c
      <4>1. sent'[d] = sent[d] + 1 /\ Count(jobs, JobsOf(d))' = Count(jobs, JobsOf(d)) + 1
        BY <2>3, <3>2, <3>4
      <4>2. /\ Count(recoveryQueue, QueuedOf(d))' = Count(recoveryQueue, QueuedOf(d))
            /\ Count(backlog, QueuedOf(d))' = Count(backlog, QueuedOf(d))
        BY <1>1, <2>1
      <4>3. Busy("loop", d)' = Busy("loop", d) /\ Busy("closer", d)' = Busy("closer", d)
        BY <1>4
      <4> QED
        BY <2>4, <3>1, <3>3, <4>1, <4>2, <4>3 DEF Balanced
    <3>5. CASE d # c
      BY <1>1, <1>4, <2>1, <2>3, <2>4, <3>1, <3>2, <3>3, <3>5 DEF Balanced
    <3> QED
      BY <3>4, <3>5
  <2> QED
    BY <1>1, <2>1, <2>4 DEF OnePlace
<1>6. CASE ~windowClosed /\ QueueFull
  <2>1. CancelConnections({c}) /\ UNCHANGED <<jobs, recoveryQueue>> /\ ~closed[c]
    BY <1>6 DEF Submit
  <2>2. closed'[c]
    BY <2>1 DEF CancelConnections
  <2>3. ASSUME NEW d \in Conns, ~closed'[d], Balanced(d) PROVE Balanced(d)'
    <3>1. sent'[d] = sent[d]
      BY <1>1, <2>2, <2>3
    <3> QED
      BY <1>1, <1>4, <2>1, <2>3, <3>1 DEF Balanced
  <2> QED
    BY <1>1, <1>3, <2>1, <2>3 DEF OnePlace
<1>7. CASE ~windowClosed /\ ~QueueFull
  <2> DEFINE q == [sender |-> c, clip |-> clip]
  <2>1. recoveryQueue' = Append(recoveryQueue, q) /\ UNCHANGED <<jobs, closed>>
    BY <1>7 DEF Submit
  <2>2. q \in Queued /\ \A d \in Conns : q \in QueuedOf(d) <=> d = c
    BY <1>2 DEF Queued, QueuedOf
  <2> HIDE DEF q
  <2>3. \A d \in Conns : Count(recoveryQueue', QueuedOf(d)) =
                           Count(recoveryQueue, QueuedOf(d)) + (IF d = c THEN 1 ELSE 0)
    BY <1>1, <2>1, <2>2, CountAppend
  <2>4. ASSUME NEW d \in Conns, Balanced(d) PROVE Balanced(d)'
    <3>1. /\ sent[d] \in Nat /\ heard[d].answers \in Nat
          /\ Count(jobs, JobsOf(d)) \in Nat /\ Count(recoveryQueue, QueuedOf(d)) \in Nat
          /\ Count(backlog, QueuedOf(d)) \in Nat
          /\ Busy("loop", d) \in Nat /\ Busy("closer", d) \in Nat
      BY BalanceTypes DEF Goroutines
    <3>2. sent'[d] = sent[d] + (IF d = c THEN 1 ELSE 0)
      BY <1>1, <3>1
    <3>3. heard'[d].answers = heard[d].answers
      BY <1>1
    <3>4. CASE d = c
      <4>1. /\ sent'[d] = sent[d] + 1
            /\ Count(recoveryQueue, QueuedOf(d))' = Count(recoveryQueue, QueuedOf(d)) + 1
        BY <2>3, <3>2, <3>4
      <4>2. /\ Count(jobs, JobsOf(d))' = Count(jobs, JobsOf(d))
            /\ Count(backlog, QueuedOf(d))' = Count(backlog, QueuedOf(d))
        BY <1>1, <2>1
      <4>3. Busy("loop", d)' = Busy("loop", d) /\ Busy("closer", d)' = Busy("closer", d)
        BY <1>4
      <4>4. \A a, b, q1, k, l, m \in Nat :
              a + b + (q1 + 1) + k + l + m = (a + b + q1 + k + l + m) + 1
        OBVIOUS
      <4>5. sent[d] + 1 = heard[d].answers + Count(jobs, JobsOf(d))
                            + (Count(recoveryQueue, QueuedOf(d)) + 1)
                            + Count(backlog, QueuedOf(d)) + Busy("loop", d) + Busy("closer", d)
        BY <2>4, <3>1, <4>4 DEF Balanced
      <4> QED
        BY <3>3, <4>1, <4>2, <4>3, <4>5 DEF Balanced
    <3>5. CASE d # c
      BY <1>1, <1>4, <2>1, <2>3, <2>4, <3>1, <3>2, <3>3, <3>5 DEF Balanced
    <3> QED
      BY <3>4, <3>5
  <2> QED
    BY <1>1, <1>7, <2>1, <2>4 DEF OnePlace
<1> QED
  BY <1>5, <1>6, <1>7

\* The user loop takes a job: a hello is no clip, and a clip is then what the loop works on.
LEMMA PlaceTake ==
  ASSUME Types, OnePlace, lost \subseteq lost', TakeHello \/ TakeClip
  PROVE  OnePlace'
<1>1. /\ jobs \in Seq(Job) /\ jobs # <<>> /\ jobs' = Tail(jobs) /\ pc["loop"] = "idle"
      /\ UNCHANGED <<windowClosed, recoveryQueue, backlog, closed, heard, sent>>
      /\ pc \in [Goroutines -> Points] /\ work \in [Goroutines -> Queued \union {None}]
  BY DEF TakeHello, TakeClip, Types, HubTypes, ThreadTypes, threadVars, connVars, windowVars
<1>2. Head(jobs) \in Job
  BY <1>1, HeadTailProperties
<1>3. \A c \in Conns : /\ Count(jobs, JobsOf(c)) =
                            Count(jobs', JobsOf(c)) + (IF Head(jobs) \in JobsOf(c) THEN 1 ELSE 0)
                       /\ Count(jobs', JobsOf(c)) \in Nat
  <2>1. jobs' \in Seq(Job)
    BY <1>1, HeadTailProperties
  <2> QED
    BY <1>1, <2>1, CountTail, CountFinite
<1>4. CASE TakeHello
  <2>1. \A c \in Conns : Head(jobs) \notin JobsOf(c)
    BY <1>4 DEF TakeHello, JobsOf
  <2>2. UNCHANGED <<pc, work>>
    BY <1>4 DEF TakeHello, threadVars
  <2>3. ASSUME NEW c \in Conns, Balanced(c) PROVE Balanced(c)'
    <3>1. Count(jobs', JobsOf(c)) = Count(jobs, JobsOf(c))
      BY <1>3, <2>1
    <3> QED
      BY <1>1, <2>2, <2>3, <3>1 DEF Balanced, Busy, Sender
  <2> QED
    BY <1>1, <2>2, <2>3 DEF OnePlace
<1>5. CASE TakeClip
  <2>1. /\ pc'["loop"] = "check" /\ pc'["closer"] = pc["closer"]
        /\ work'["closer"] = work["closer"]
        /\ work'["loop"] = [sender |-> Head(jobs).sender, clip |-> Head(jobs).clip]
    BY <1>1, <1>5 DEF TakeClip, Goroutines
  <2>2. ASSUME NEW c \in Conns, Balanced(c) PROVE Balanced(c)'
    <3>1. Head(jobs) \in JobsOf(c) <=> Head(jobs).sender = c
      BY <1>2, <1>5 DEF TakeClip, JobsOf
    <3>2. Busy("loop", c) = 0 /\ Busy("loop", c)' = (IF Head(jobs) \in JobsOf(c) THEN 1 ELSE 0)
      BY <1>1, <2>1, <3>1 DEF Busy, Sender, Applying
    <3>3. Busy("closer", c)' = Busy("closer", c)
      BY <2>1 DEF Busy, Sender
    <3>4. Count(jobs, JobsOf(c)) = Count(jobs', JobsOf(c)) + Busy("loop", c)'
      BY <1>3, <3>2
    <3>5. Busy("loop", c)' \in 0 .. 1
      BY <3>2
    <3> QED
      <4>1. /\ sent[c] \in Nat /\ heard[c].answers \in Nat
            /\ Count(recoveryQueue, QueuedOf(c)) \in Nat /\ Count(backlog, QueuedOf(c)) \in Nat
            /\ Busy("closer", c) \in Nat
        BY BalanceTypes DEF Goroutines
      <4>2. /\ sent'[c] = sent[c] /\ heard'[c].answers = heard[c].answers
            /\ Count(recoveryQueue, QueuedOf(c))' = Count(recoveryQueue, QueuedOf(c))
            /\ Count(backlog, QueuedOf(c))' = Count(backlog, QueuedOf(c))
        BY <1>1
      <4>3. Count(jobs', JobsOf(c)) \in Nat
        BY <1>3
      <4> QED
        BY <2>2, <3>2, <3>3, <3>4, <3>5, <4>1, <4>2, <4>3 DEF Balanced
  <2> QED
    BY <1>1, <2>1, <2>2 DEF OnePlace
<1> QED
  BY <1>4, <1>5

\* The closer takes the recovery queue, and then its clips one by one.
LEMMA PlaceClose ==
  ASSUME Types, CloserRuns, OnePlace, lost \subseteq lost', CloseWindow
  PROVE  OnePlace'
<1>1. /\ ~windowClosed /\ windowClosed' /\ backlog = <<>> /\ backlog' = recoveryQueue
      /\ recoveryQueue' = <<>> /\ UNCHANGED <<jobs, closed, heard, sent, work>>
      /\ pc'["loop"] = pc["loop"] /\ pc'["closer"] = "next" /\ pc["closer"] = "idle"
  BY DEF CloseWindow, OnePlace, CloserRuns, Types, ThreadTypes, Goroutines
<1>2. ASSUME NEW c \in Conns, Balanced(c) PROVE Balanced(c)'
  <2>1. Busy("loop", c)' = Busy("loop", c) /\ Busy("closer", c)' = 0 /\ Busy("closer", c) = 0
    BY <1>1, <1>2 DEF Busy, Sender, Applying
  <2>2. Count(backlog, QueuedOf(c)) = 0 /\ Count(recoveryQueue', QueuedOf(c)) = 0
    BY <1>1, CountEmpty
  <2> QED
    BY <1>1, <1>2, <2>1, <2>2, BalanceTypes DEF Balanced, Goroutines
<1> QED
  BY <1>1, <1>2 DEF OnePlace

\* A hello is no clip.
LEMMA PlaceHello ==
  ASSUME Types, OnePlace, lost \subseteq lost', NEW c \in Conns, SayHello(c)
  PROVE  OnePlace'
<1> DEFINE j == [type |-> "hello", sender |-> c]
<1>1. /\ jobs \in Seq(Job) /\ jobs' = Append(jobs, j)
      /\ UNCHANGED <<windowClosed, recoveryQueue, backlog, closed, heard, sent, pc, work>>
  BY DEF SayHello, Types, HubTypes, threadVars, windowVars
<1>2. j \in Job /\ \A d \in Conns : j \notin JobsOf(d)
  BY DEF Job, JobsOf
<1> HIDE DEF j
<1>3. \A d \in Conns : Count(jobs', JobsOf(d)) = Count(jobs, JobsOf(d)) + 0
  BY <1>1, <1>2, CountAppend
<1>4. ASSUME NEW d \in Conns, Balanced(d) PROVE Balanced(d)'
  <2>1. Count(jobs, JobsOf(d))' = Count(jobs, JobsOf(d))
    BY <1>3, BalanceTypes
  <2>2. Busy("loop", d)' = Busy("loop", d) /\ Busy("closer", d)' = Busy("closer", d)
    BY <1>1 DEF Busy, Sender
  <2> QED
    BY <1>1, <1>4, <2>1, <2>2 DEF Balanced
<1> QED
  BY <1>1, <1>4 DEF OnePlace

\* The other steps of a connection move no clip.
LEMMA PlaceConnection ==
  ASSUME Types, OnePlace, lost \subseteq lost', NEW c \in Conns,
         \/ Connect(c) \/ AddLatest(c) \/ AddWelcome(c) \/ AddOpen(c) \/ AddNothing(c)
         \/ Leave(c)
  PROVE  OnePlace'
<1>1. UNCHANGED <<sent, jobs, recoveryQueue, backlog, windowClosed, pc, work>>
  BY DEF Connect, AddLatest, AddWelcome, AddOpen, AddNothing, Leave, hubVars, windowVars,
         threadVars
<1>2. \A d \in Conns : ~closed'[d] => ~closed[d] /\ heard'[d].answers = heard[d].answers
  <2>1. CASE AddWelcome(c)
    BY <2>1, EnqueueAnswers, BalanceTypes DEF AddWelcome, Types
  <2>2. CASE Leave(c)
    BY <2>2, CancelFacts DEF Leave, Types
  <2>3. CASE Connect(c) \/ AddLatest(c) \/ AddOpen(c) \/ AddNothing(c)
    BY <2>3 DEF Connect, AddLatest, AddOpen, AddNothing
  <2> QED
    BY <2>1, <2>2, <2>3
<1>3. pc'["closer"] \in {"recipients", "welcome", "done"} => backlog = <<>>
  BY <1>1 DEF OnePlace
<1> QED
  BY <1>1, <1>2, <1>3, PlaceUntouched

\* The closer applies a clip of its backlog, or drops one whose sender is closed.
LEMMA PlaceBacklog ==
  ASSUME Types, OnePlace, lost \subseteq lost', CloserTakes
  PROVE  OnePlace'
<1>1. /\ backlog \in Seq(Queued) /\ backlog # <<>> /\ backlog' = Tail(backlog)
      /\ pc["closer"] = "next"
      /\ UNCHANGED <<windowClosed, recoveryQueue, jobs, closed, heard, sent>>
      /\ pc \in [Goroutines -> Points] /\ work \in [Goroutines -> Queued \union {None}]
  BY DEF CloserTakes, Types, ThreadTypes, hubVars, connVars, windowVars
<1> DEFINE q == Head(backlog)
<1>2. q \in Queued /\ \A c \in Conns : q \in QueuedOf(c) <=> q.sender = c
  BY <1>1, HeadTailProperties DEF QueuedOf
<1>3. /\ pc'["loop"] = pc["loop"] /\ work'["loop"] = work["loop"]
      /\ IF closed[q.sender] THEN UNCHANGED <<pc, work>>
                             ELSE pc'["closer"] = "check" /\ work'["closer"] = q
  BY <1>1 DEF CloserTakes, Goroutines
<1>4. \A c \in Conns : /\ Count(backlog, QueuedOf(c)) =
                            Count(backlog', QueuedOf(c)) + (IF q \in QueuedOf(c) THEN 1 ELSE 0)
                       /\ Count(backlog', QueuedOf(c)) \in Nat
  <2>1. backlog' \in Seq(Queued)
    BY <1>1, HeadTailProperties
  <2> QED
    BY <1>1, <2>1, CountTail, CountFinite
<1>5. windowClosed
  BY <1>1 DEF OnePlace
<1> HIDE DEF q
<1>6. ASSUME NEW c \in Conns, ~closed[c], Balanced(c) PROVE Balanced(c)'
  <2>1. Busy("closer", c) = 0 /\ Busy("loop", c)' = Busy("loop", c)
    BY <1>1, <1>3 DEF Busy, Sender, Applying
  <2>2. Busy("closer", c)' = (IF q \in QueuedOf(c) THEN 1 ELSE 0)
    <3>1. CASE closed[q.sender]
      BY <1>1, <1>2, <1>3, <1>6, <3>1 DEF Busy, Sender, Applying
    <3>2. CASE ~closed[q.sender]
      BY <1>2, <1>3, <3>2 DEF Busy, Sender, Applying
    <3> QED
      BY <3>1, <3>2
  <2>3. /\ Count(backlog, QueuedOf(c)) = Count(backlog', QueuedOf(c)) + Busy("closer", c)'
        /\ Busy("closer", c)' \in 0 .. 1 /\ Count(backlog', QueuedOf(c)) \in Nat
    BY <1>4, <2>2
  <2>4. /\ sent[c] \in Nat /\ heard[c].answers \in Nat /\ Count(jobs, JobsOf(c)) \in Nat
        /\ Count(recoveryQueue, QueuedOf(c)) \in Nat /\ Busy("loop", c) \in Nat
    BY BalanceTypes DEF Goroutines
  <2>5. /\ sent'[c] = sent[c] /\ heard'[c].answers = heard[c].answers
        /\ Count(jobs, JobsOf(c))' = Count(jobs, JobsOf(c))
        /\ Count(recoveryQueue, QueuedOf(c))' = Count(recoveryQueue, QueuedOf(c))
    BY <1>1
  <2> QED
    BY <1>6, <2>1, <2>3, <2>4, <2>5 DEF Balanced
<1>7. pc'["closer"] \in {"next", "check"}
  BY <1>1, <1>3
<1> QED
  BY <1>1, <1>3, <1>5, <1>6, <1>7 DEF OnePlace

\* What the closer does once its backlog is empty, and a goroutine that dies.
LEMMA PlaceCloser ==
  ASSUME Types, OnePlace, lost \subseteq lost',
         \/ CloserLatest \/ CloserRecipients \/ (\E c \in Conns : CloserWelcome(c))
         \/ CloserSweeps \/ LoopPanics \/ CloserPanics
  PROVE  OnePlace'
<1>1. /\ UNCHANGED <<sent, jobs, recoveryQueue, backlog, windowClosed>>
      /\ pc \in [Goroutines -> Points]
  BY DEF CloserLatest, CloserRecipients, CloserWelcome, CloserSweeps, LoopPanics, CloserPanics,
         hubVars, windowVars, connVars, Types, ThreadTypes
<1>2. CASE CloserPanics
  <2>1. pc'["closer"] = "panicked"
    BY <1>1, <1>2 DEF CloserPanics, Goroutines
  <2> QED
    BY <1>1, <2>1 DEF OnePlace
<1>5. CASE LoopPanics
  <2>1. /\ pc'["closer"] = pc["closer"] /\ pc'["loop"] = "dead" /\ pc["loop"] = "reserve"
        /\ work'["closer"] = work["closer"] /\ heard' = heard
        /\ lost' = lost \union {Sender("loop")}
    BY <1>1, <1>5 DEF LoopPanics, Goroutines, Types, ThreadTypes
  <2>2. \A c \in Conns : ~closed'[c] => ~closed[c]
    <3>1. CASE CancelConnections(connections)
      BY <3>1, CancelFacts DEF Types, ConnTypes
    <3>2. CASE UNCHANGED closed
      BY <3>2
    <3> QED
      BY <1>5, <3>1, <3>2 DEF LoopPanics
  <2>3. ASSUME NEW c \in Conns, c \notin lost', Balanced(c) PROVE Balanced(c)'
    <3>1. Busy("loop", c) = 0 /\ Busy("loop", c)' = 0
      BY <2>1, <2>3 DEF Busy, Applying
    <3>2. Busy("closer", c)' = Busy("closer", c)
      BY <2>1 DEF Busy, Sender
    <3> QED
      BY <1>1, <2>1, <2>3, <3>1, <3>2 DEF Balanced
  <2> QED
    BY <1>1, <2>1, <2>2, <2>3 DEF OnePlace
<1>3. CASE CloserLatest \/ CloserRecipients \/ CloserSweeps
  <2>1. /\ UNCHANGED <<work, closed, heard>> /\ pc'["loop"] = pc["loop"]
        /\ pc["closer"] \in {"next", "recipients", "welcome"}
        /\ pc'["closer"] \in {"recipients", "welcome", "done"}
    BY <1>1, <1>3 DEF CloserLatest, CloserRecipients, CloserSweeps, connVars, Goroutines
  <2>2. backlog = <<>>
    BY <1>3 DEF CloserLatest, CloserRecipients, CloserSweeps, OnePlace
  <2>3. \A g \in Goroutines : pc'[g] \in Applying <=> pc[g] \in Applying
    BY <2>1 DEF Applying, Goroutines
  <2> QED
    BY <1>1, <2>1, <2>2, <2>3, PlaceUntouched
<1>4. ASSUME NEW c \in Conns, CloserWelcome(c) PROVE OnePlace'
  <2>1. UNCHANGED <<pc, work>> /\ Enqueue(c, "welcome", text["closer"])
    BY <1>4 DEF CloserWelcome
  <2>2. \A d \in Conns : ~closed'[d] => ~closed[d] /\ heard'[d].answers = heard[d].answers
    BY <2>1, EnqueueAnswers, BalanceTypes DEF Types
  <2>3. pc'["closer"] \in {"recipients", "welcome", "done"} => backlog = <<>>
    BY <2>1 DEF OnePlace
  <2> QED
    BY <1>1, <2>1, <2>2, <2>3, PlaceUntouched
<1> QED
  BY <1>2, <1>3, <1>4, <1>5

\* OnePlace is inductive.
LEMMA PlaceKept ==
  ASSUME Types, CloserRuns, OnePlace, [Next]_vars
  PROVE  OnePlace'
<1> lost \subseteq lost'
  BY OnlyPanicsLose
<1>1. ASSUME NEW c \in Conns, GetHub(c) \/ ConnectionStep(c) \/ Leave(c) PROVE OnePlace'
  <2>1. CASE AddCloses(c)
    BY <2>1, PlaceClose DEF AddCloses
  <2>2. CASE GetHub(c) \/ StartIfIdle(c)
    <3>1. /\ UNCHANGED <<sent, jobs, recoveryQueue, backlog, windowClosed, closed, heard, work>>
          /\ pc'["closer"] = pc["closer"] /\ (pc' = pc \/ (pc["loop"] = "dead" /\ pc'["loop"] = "idle"))
      BY <2>2, GetOrCreateFacts DEF hubVars, windowVars
    <3>2. \A g \in Goroutines : pc'[g] \in Applying <=> pc[g] \in Applying
      BY <3>1 DEF Goroutines, Applying
    <3>3. pc'["closer"] \in {"recipients", "welcome", "done"} => backlog = <<>>
      BY <3>1 DEF OnePlace
    <3> QED
      BY <3>1, <3>2, <3>3, PlaceUntouched
  <2> QED
    BY <1>1, <2>1, <2>2, PlaceConnection, PlaceHello DEF ConnectionStep
<1>2. ASSUME NEW c \in Conns, NEW clip \in ClipsOf[c], Submit(c, clip) PROVE OnePlace'
  BY <1>2, PlaceSubmit
<1>3. CASE LoopStep
  BY <1>3, PlaceTake, PlaceApply, PlaceCloser DEF LoopStep, Goroutines
<1>4. CASE CloserStep
  BY <1>4, PlaceBacklog, PlaceCloser, PlaceApply DEF CloserStep, Goroutines
<1>5. CASE ScannerCloses
  BY <1>5, PlaceClose DEF ScannerCloses
<1>6. CASE WindowEnds \/ RemoveIdle \/ UNCHANGED vars
  <2>1. UNCHANGED <<sent, jobs, recoveryQueue, backlog, windowClosed, pc, work, closed, heard>>
    BY <1>6 DEF WindowEnds, RemoveIdle, vars, hubVars, windowVars, connVars, threadVars
  <2>2. pc'["closer"] \in {"recipients", "welcome", "done"} => backlog = <<>>
    BY <2>1 DEF OnePlace
  <2> QED
    BY <2>1, <2>2, PlaceUntouched
<1> QED
  BY <1>1, <1>2, <1>3, <1>4, <1>5, <1>6 DEF Next

(***************************************************************************)
(* When the hub is quiet every clip of a live connection was answered      *)
(* exactly once, whether it waited for the window or came after it,        *)
(* whichever goroutine applied it and whatever the two did meanwhile: the  *)
(* hand-over of the recovery queue loses nothing and repeats nothing.      *)
(***************************************************************************)
THEOREM ClipsAreAnswered == Spec => []EveryClipAnswered
<1>1. Init => WelcomeInv /\ OnePlace
  <2> SUFFICES ASSUME Init PROVE WelcomeInv /\ OnePlace
    OBVIOUS
  <2>1. WelcomeInv
    BY DEF Init, WelcomeInv, CloserRuns, Members, Owed, Goroutines
  <2>2. ASSUME NEW c \in Conns PROVE Balanced(c)
    <3>1. sent[c] = 0 /\ heard[c].answers = 0 /\ Busy("loop", c) = 0 /\ Busy("closer", c) = 0
      BY DEF Init, Busy, Applying, Goroutines
    <3>2. jobs = <<>> /\ recoveryQueue = <<>> /\ backlog = <<>>
      BY DEF Init
    <3> QED
      BY <3>1, <3>2, CountEmpty DEF Balanced
  <2>3. ~windowClosed /\ backlog = <<>>
    BY DEF Init
  <2> QED
    BY <2>1, <2>2, <2>3 DEF OnePlace
<1>2. Types /\ WelcomeInv /\ OnePlace => EveryClipAnswered
  <2> SUFFICES ASSUME Types, WelcomeInv, OnePlace, Quiet, NEW c \in Conns, Live(c), c \notin lost
               PROVE  heard[c].answers = sent[c]
    BY DEF EveryClipAnswered
  <2>1. /\ pc["loop"] = "idle" /\ pc["closer"] = "done" /\ jobs = <<>> /\ ~closed[c]
    BY DEF Quiet, Live
  <2>2. windowClosed
    BY <2>1 DEF WelcomeInv, CloserRuns
  <2>3. recoveryQueue = <<>> /\ backlog = <<>> /\ Balanced(c)
    BY <2>1, <2>2 DEF OnePlace
  <2>4. /\ Count(jobs, JobsOf(c)) = 0 /\ Count(recoveryQueue, QueuedOf(c)) = 0
        /\ Count(backlog, QueuedOf(c)) = 0
    BY <2>1, <2>3, CountEmpty
  <2>5. Busy("loop", c) = 0 /\ Busy("closer", c) = 0
    BY <2>1 DEF Busy, Applying
  <2>6. sent[c] \in Nat /\ heard[c].answers \in Nat
    BY BalanceTypes
  <2> QED
    BY <2>3, <2>4, <2>5, <2>6 DEF Balanced
<1>3. WelcomeInv => CloserRuns
  BY DEF WelcomeInv
<1>4. Types /\ WelcomeInv /\ OnePlace /\ [Next]_vars => WelcomeInv' /\ OnePlace'
  BY <1>3, WelcomeKept, PlaceKept
<1> QED
  BY <1>1, <1>2, <1>4, TypesAtStart, TypesKept, PTL DEF Spec
-----------------------------------------------------------------------------
(***************************************************************************)
(* RepeatKeepsVersion.  The ring, against the first n of the clips that    *)
(* were applied: slot by slot, backwards from the one written last; every  *)
(* entry is the text of the last use of its id; and an id is there while   *)
(* it was used within RingCapacity clips and no older use of it was        *)
(* overwritten since.                                                      *)
(***************************************************************************)
Slot(next, d) == IF d < next THEN next - 1 - d ELSE (next + RingCapacity) - 1 - d

Id(s, i) == s[i].clip.id
TextOf(a) == [version |-> a.version, content |-> a.clip.content]

InOrder(ring, s, n) ==
  \A d \in 0 .. RingCapacity - 1 :
    ring.order[Slot(ring.next, d)] = IF d < n THEN Id(s, n - d) ELSE NoId

LastUses(ring, s, n) ==
  \A id \in DOMAIN ring.entries :
    \E i \in 1 .. n : /\ Id(s, i) = id /\ ring.entries[id] = TextOf(s[i])
                      /\ \A k \in i + 1 .. n : Id(s, k) # id

Untroubled(s, i, n) ==
  \A k \in i + 1 .. n : /\ Id(s, k) # Id(s, i)
                        /\ k > RingCapacity => Id(s, k - RingCapacity) # Id(s, i)

Remembers(ring, s, n) ==
  \A i \in 1 .. n :
    n - i < RingCapacity /\ Untroubled(s, i, n) => Id(s, i) \in DOMAIN ring.entries

RingHolds(ring, s, n) == InOrder(ring, s, n) /\ LastUses(ring, s, n) /\ Remembers(ring, s, n)

\* The slots, seen from the one that is written next.
LEMMA SlotFacts ==
  ASSUME NEW next \in Slots, NEW then, then = (next + 1) % RingCapacity
  PROVE  /\ then \in Slots
         /\ Slot(then, 0) = next /\ Slot(next, RingCapacity - 1) = next
         /\ \A d \in 0 .. RingCapacity - 1 : Slot(next, d) \in Slots
         /\ \A d \in 1 .. RingCapacity - 1 : Slot(then, d) = Slot(next, d - 1)
         /\ \A d \in 0 .. RingCapacity - 2 : Slot(next, d) # next
<1>1. next \in Nat /\ RingCapacity \in Nat /\ next < RingCapacity /\ RingCapacity > 0
  BY RingAssumption DEF Slots
<1>2. then = IF next + 1 = RingCapacity THEN 0 ELSE next + 1
  BY <1>1
<1> QED
  BY <1>1, <1>2 DEF Slots, Slot

\* A clip that is applied and not yet remembered changes nothing.
LEMMA RingHoldsAppend ==
  ASSUME NEW S, NEW s \in Seq(S), NEW a \in S, NEW ring, RingHolds(ring, s, Len(s))
  PROVE  RingHolds(ring, Append(s, a), Len(s))
<1> DEFINE n == Len(s)
           u == Append(s, a)
<1>1. n \in Nat /\ \A i \in 1 .. n : u[i] = s[i]
  BY AppendProperties
<1>2. \A i \in 1 .. n : Id(u, i) = Id(s, i) /\ TextOf(u[i]) = TextOf(s[i])
  BY <1>1 DEF Id
<1>3. RingCapacity \in Nat
  BY RingAssumption
<1> HIDE DEF n, u
<1>4. InOrder(ring, s, n) /\ LastUses(ring, s, n) /\ Remembers(ring, s, n)
  BY DEF RingHolds, n
<1>5. InOrder(ring, u, n)
  BY <1>1, <1>2, <1>3, <1>4 DEF InOrder
<1>6. LastUses(ring, u, n)
  BY <1>1, <1>2, <1>4 DEF LastUses
<1>7. Remembers(ring, u, n)
  BY <1>1, <1>2, <1>3, <1>4 DEF Remembers, Untroubled
<1> QED
  BY <1>5, <1>6, <1>7 DEF RingHolds, n, u

\* Remember moves the ring on by one clip.
LEMMA RingHoldsRemember ==
  ASSUME RingTypes, NEW s, NEW n \in Nat, NEW id \in Ids, NEW t \in Text,
         RingHolds(seenIDs, s, n), Id(s, n + 1) = id, TextOf(s[n + 1]) = t,
         \A i \in 1 .. n : Id(s, i) \in Ids,
         seenIDs' = Remember(seenIDs, id, t)
  PROVE  RingHolds(seenIDs', s, n + 1)
<1> DEFINE next == seenIDs.next
           evicted == seenIDs.order[next]
           kept == DOMAIN seenIDs.entries \ ({evicted} \ {id})
<1>1. /\ seenIDs'.entries = [i \in kept \union {id} |-> IF i = id THEN t ELSE seenIDs.entries[i]]
      /\ seenIDs'.order = [seenIDs.order EXCEPT ![next] = id]
      /\ seenIDs'.next = (next + 1) % RingCapacity
  BY DEF Remember
<1>2. next \in Slots /\ seenIDs.order \in [Slots -> Ids \union {NoId}]
  BY DEF RingTypes
<1>3. RingCapacity \in Nat \ {0} /\ NoId \notin Ids
  BY RingAssumption, HubAssumption
<1>4. InOrder(seenIDs, s, n) /\ LastUses(seenIDs, s, n) /\ Remembers(seenIDs, s, n)
  BY DEF RingHolds
<1>5. evicted = IF RingCapacity - 1 < n THEN Id(s, n - (RingCapacity - 1)) ELSE NoId
  <2>1. Slot(next, RingCapacity - 1) = next
    BY <1>2, SlotFacts
  <2>2. RingCapacity - 1 \in 0 .. RingCapacity - 1
    BY <1>3
  <2> QED
    BY <1>4, <2>1, <2>2 DEF InOrder
<1>6. InOrder(seenIDs', s, n + 1)
  <2> DEFINE then == seenIDs'.next
  <2>1. /\ Slot(then, 0) = next
        /\ \A d \in 1 .. RingCapacity - 1 : Slot(then, d) = Slot(next, d - 1)
        /\ \A d \in 0 .. RingCapacity - 2 : Slot(next, d) \in Slots /\ Slot(next, d) # next
    BY <1>1, <1>2, <1>3, SlotFacts
  <2> HIDE DEF then
  <2> SUFFICES ASSUME NEW d \in 0 .. RingCapacity - 1
               PROVE  seenIDs'.order[Slot(then, d)] =
                        IF d < n + 1 THEN Id(s, n + 1 - d) ELSE NoId
    BY DEF InOrder, then
  <2>2. CASE d = 0
    <3>1. seenIDs'.order[Slot(then, d)] = id
      BY <1>1, <1>2, <2>1, <2>2
    <3>2. n + 1 - d = n + 1
      BY <2>2
    <3> QED
      BY <2>2, <3>1, <3>2
  <2>3. CASE d # 0
    <3>1. d - 1 \in 0 .. RingCapacity - 2 /\ d - 1 \in 0 .. RingCapacity - 1
          /\ d \in 1 .. RingCapacity - 1
      BY <1>3, <2>3
    <3>2. seenIDs'.order[Slot(then, d)] = seenIDs.order[Slot(next, d - 1)]
      BY <1>1, <1>2, <2>1, <3>1
    <3>3. seenIDs.order[Slot(next, d - 1)] = IF d - 1 < n THEN Id(s, n - (d - 1)) ELSE NoId
      BY <1>4, <3>1 DEF InOrder
    <3>4. n - (d - 1) = n + 1 - d /\ (d - 1 < n <=> d < n + 1)
      BY <3>1
    <3> QED
      BY <3>2, <3>3, <3>4
  <2> QED
    BY <2>2, <2>3
<1>7. DOMAIN seenIDs'.entries = kept \union {id}
  BY <1>1
<1>8. LastUses(seenIDs', s, n + 1)
  <2> SUFFICES ASSUME NEW x \in kept \union {id}
               PROVE  \E i \in 1 .. n + 1 :
                        /\ Id(s, i) = x /\ seenIDs'.entries[x] = TextOf(s[i])
                        /\ \A k \in i + 1 .. n + 1 : Id(s, k) # x
    BY <1>7 DEF LastUses
  <2>1. CASE x = id
    <3>1. seenIDs'.entries[x] = TextOf(s[n + 1]) /\ n + 1 \in 1 .. n + 1
      BY <1>1, <2>1
    <3>2. (n + 1) + 1 .. n + 1 = {}
      OBVIOUS
    <3> QED
      BY <2>1, <3>1, <3>2
  <2>2. CASE x # id
    <3>1. x \in DOMAIN seenIDs.entries /\ seenIDs'.entries[x] = seenIDs.entries[x]
      BY <1>1, <2>2
    <3>2. PICK i \in 1 .. n : /\ Id(s, i) = x /\ seenIDs.entries[x] = TextOf(s[i])
                              /\ \A k \in i + 1 .. n : Id(s, k) # x
      BY <1>4, <3>1 DEF LastUses
    <3>3. i \in 1 .. n + 1 /\ \A k \in i + 1 .. n + 1 : k \in i + 1 .. n \/ k = n + 1
      OBVIOUS
    <3> QED
      BY <2>2, <3>1, <3>2, <3>3
  <2> QED
    BY <2>1, <2>2
<1>9. Remembers(seenIDs', s, n + 1)
  <2> SUFFICES ASSUME NEW i \in 1 .. n + 1, n + 1 - i < RingCapacity, Untroubled(s, i, n + 1)
               PROVE  Id(s, i) \in kept \union {id}
    BY <1>7 DEF Remembers
  <2>1. CASE i = n + 1
    BY <2>1
  <2>2. CASE i # n + 1
    <3>1. i \in 1 .. n /\ n - i < RingCapacity /\ n + 1 \in i + 1 .. n + 1
          /\ i + 1 .. n \subseteq i + 1 .. n + 1
      BY <1>3, <2>2
    <3>2. Untroubled(s, i, n)
      BY <3>1 DEF Untroubled
    <3>3. Id(s, i) \in DOMAIN seenIDs.entries
      BY <1>4, <3>1, <3>2 DEF Remembers
    <3>4. Id(s, i) # evicted
      <4>1. CASE RingCapacity - 1 < n
        <5>1. n + 1 > RingCapacity /\ (n + 1) - RingCapacity = n - (RingCapacity - 1)
          BY <1>3, <4>1
        <5>2. Id(s, (n + 1) - RingCapacity) # Id(s, i)
          BY <3>1, <5>1 DEF Untroubled
        <5> QED
          BY <1>5, <4>1, <5>1, <5>2
      <4>2. CASE ~(RingCapacity - 1 < n)
        BY <1>3, <1>5, <3>1, <4>2
      <4> QED
        BY <4>1, <4>2
    <3> QED
      BY <3>3, <3>4
  <2> QED
    BY <2>1, <2>2
<1> QED
  BY <1>6, <1>8, <1>9 DEF RingHolds

(***************************************************************************)
(* The ring of a hub with one applier holds the clips that its loop has    *)
(* remembered: all that were applied, but for the one it has just          *)
(* installed.  What the loop has in hand is new to the ring until then.    *)
(***************************************************************************)
Remembered == IF pc["loop"] = "remember" THEN Len(applied) - 1 ELSE Len(applied)

InHand ==
  /\ pc["loop"] \in {"idle", "dead"} => work["loop"] = None
  /\ pc["loop"] \in {"reserve", "install"} => ~Unchanged("loop")
  /\ pc["loop"] \in {"remember", "broadcast"} =>
       /\ applied # <<>> /\ applied[Len(applied)].clip = Clip("loop")
       /\ text["loop"] = TextOf(applied[Len(applied)])

RingInv == RingHolds(seenIDs, applied, Remembered) /\ InHand /\ RepeatKeepsVersion

\* While nothing waits for the closer, nobody but the user loop touches what it works with; a
\* dead one may be started again.
LEMMA LoopLeftAlone ==
  ASSUME Types, NothingWaits, [Next]_vars, ~LoopStep
  PROVE  /\ UNCHANGED <<version, latest, seenIDs, applied>>
         /\ pc'["loop"] = pc["loop"] \/ (pc["loop"] = "dead" /\ pc'["loop"] = "idle")
         /\ work'["loop"] = work["loop"] /\ text'["loop"] = text["loop"]
<1> DEFINE Same == /\ UNCHANGED <<version, latest, seenIDs, applied>>
                   /\ pc'["loop"] = pc["loop"] \/ (pc["loop"] = "dead" /\ pc'["loop"] = "idle")
                   /\ work'["loop"] = work["loop"] /\ text'["loop"] = text["loop"]
<1>1. /\ pc \in [Goroutines -> Points] /\ work \in [Goroutines -> Queued \union {None}]
      /\ text \in [Goroutines \union Conns -> Text \union {None}]
      /\ "loop" \in Goroutines /\ "loop" \notin {"closer"} \union Conns
      /\ ~ApplyStep("closer")
  BY HubAssumption
  DEF Types, ThreadTypes, Goroutines, NothingWaits, ApplyStep, AckDuplicate, PassCheck,
      RateLimit, Reserve, Install, RememberClip, Broadcast, Ack, Applying
<1>2. ASSUME NEW c \in Conns, GetHub(c) \/ ConnectionStep(c) \/ Leave(c), ~AddCloses(c)
      PROVE  Same
  BY <1>1, <1>2 DEF GetHub, StartIfIdle, Connect, ConnectionStep, AddLatest, AddWelcome, AddOpen,
                    AddNothing, SayHello, Leave, threadVars, hubVars
<1>3. ASSUME NEW c \in Conns, NEW clip \in ClipsOf[c], Submit(c, clip) PROVE Same
  BY <1>3 DEF Submit, threadVars
<1>4. ASSUME \/ CloserTakes \/ CloserLatest \/ CloserRecipients
             \/ (\E c \in Conns : CloserWelcome(c)) \/ CloserSweeps \/ CloserPanics
      PROVE  Same
  BY <1>1, <1>4 DEF CloserTakes, CloserLatest, CloserRecipients, CloserWelcome, CloserSweeps,
                    CloserPanics, hubVars
<1>5. ASSUME WindowEnds \/ RemoveIdle \/ UNCHANGED vars PROVE Same
  BY <1>5 DEF WindowEnds, RemoveIdle, hubVars, threadVars, vars
<1>6. ASSUME CloseWindow PROVE Same
  <2>1. SelectSnapshotWinner(candidates, None) = None
    BY DEF NothingWaits, SelectSnapshotWinner, Eligible
  <2> QED
    BY <1>1, <1>6, <2>1 DEF CloseWindow, Restorable
<1> QED
  BY <1>1, <1>2, <1>3, <1>4, <1>5, <1>6
  DEF Next, ConnectionStep, AddCloses, CloserStep, ScannerCloses

\* A clip the loop found to be new has no use that RepeatKeepsVersion would point at.
LEMMA NewClipIsNoRepeat ==
  ASSUME Types, RingInv, pc["loop"] = "install", NEW i \in DOMAIN applied,
         Len(applied) - i < RingCapacity, applied[i].clip = Clip("loop")
  PROVE  \E k \in i + 1 .. Len(applied) :
           \/ UsedAt(k, applied[i].clip.id)
           \/ k > RingCapacity /\ UsedAt(k - RingCapacity, applied[i].clip.id)
<1> DEFINE n == Len(applied)
<1>1. n \in Nat /\ i \in 1 .. n
  BY DEF Types, HubTypes
<1>2. ~Unchanged("loop") /\ LastUses(seenIDs, applied, n) /\ Remembers(seenIDs, applied, n)
  BY DEF RingInv, InHand, RingHolds, Remembered
<1> HIDE DEF n
<1>3. SUFFICES ASSUME Untroubled(applied, i, n) PROVE FALSE
  BY DEF Untroubled, UsedAt, Id, n
<1> DEFINE id == Id(applied, i)
<1>4. id \in DOMAIN seenIDs.entries /\ id = Clip("loop").id
  BY <1>1, <1>2, <1>3 DEF Remembers, n, Id
<1>5. PICK j \in 1 .. n : /\ Id(applied, j) = id /\ seenIDs.entries[id] = TextOf(applied[j])
                          /\ \A k \in j + 1 .. n : Id(applied, k) # id
  BY <1>2, <1>4 DEF LastUses
<1>6. j = i
  <2>1. ~(j < i)
    BY <1>1, <1>5
  <2>2. ~(i < j)
    BY <1>1, <1>3, <1>5 DEF Untroubled
  <2> QED
    BY <1>1, <1>5, <2>1, <2>2
<1>7. seenIDs.entries[id].content = Clip("loop").content
  BY <1>5, <1>6 DEF TextOf
<1> QED
  BY <1>2, <1>4, <1>7 DEF Unchanged, IsUnchangedDuplicate

\* RingInv where the ring and what was applied stay as they are.
LEMMA RingUntouched ==
  ASSUME RingInv, UNCHANGED <<seenIDs, applied>>,
         pc["loop"] = "remember" <=> pc'["loop"] = "remember", InHand'
  PROVE  RingInv'
<1>1. Remembered' = Remembered
  BY DEF Remembered
<1>2. RepeatKeepsVersion'
  BY DEF RingInv, RepeatKeepsVersion, UsedAt
<1> QED
  BY <1>1, <1>2 DEF RingInv

\* The loop installs a clip: one version more, and the ring is one clip behind.
LEMMA RingInstall ==
  ASSUME Types, TextsApplied, RingInv, Install("loop")
  PROVE  RingInv'
<1> DEFINE n == Len(applied)
           a == [clip |-> Clip("loop"), version |-> text["loop"].version]
<1>1. /\ pc["loop"] = "install" /\ pc'["loop"] = "remember" /\ applied' = Append(applied, a)
      /\ UNCHANGED <<seenIDs, work, text>> /\ applied \in Seq(AppliedClip)
  BY DEF Install, Types, HubTypes, ThreadTypes, Goroutines, AppliedClip
<1>2. /\ text["loop"] \in Text /\ Clip("loop") \in ClipSet
      /\ text["loop"].content = Clip("loop").content
  BY <1>1, ApplyFacts DEF TextsApplied, Goroutines, Applying, Announcing
<1>3. a \in AppliedClip /\ TextOf(a) = text["loop"]
  BY <1>2, NoneIsNoText DEF AppliedClip, TextOf, Text
<1>4. a.clip = Clip("loop")
  OBVIOUS
<1> HIDE DEF a
<1>5. /\ n \in Nat /\ Len(applied') = n + 1 /\ DOMAIN applied' = 1 .. n + 1
      /\ DOMAIN applied = 1 .. n
      /\ applied'[n + 1] = a /\ \A i \in 1 .. n : applied'[i] = applied[i]
  BY <1>1, <1>3, AppendProperties
<1>6. RingHolds(seenIDs, applied, n)
  BY <1>1 DEF RingInv, Remembered
<1>7. RingHolds(seenIDs', applied', Remembered')
  <2>1. Remembered' = n
    BY <1>1, <1>5 DEF Remembered
  <2>2. RingHolds(seenIDs, Append(applied, a), n)
    BY <1>1, <1>3, <1>6, RingHoldsAppend
  <2> QED
    BY <1>1, <2>1, <2>2
<1>8. InHand'
  <2>1. applied' # <<>> /\ applied'[Len(applied')] = a
    BY <1>5
  <2>2. Clip("loop")' = Clip("loop")
    BY <1>1 DEF Clip
  <2> QED
    BY <1>1, <1>3, <1>4, <2>1, <2>2 DEF InHand
<1> HIDE DEF n
<1>9. RepeatKeepsVersion'
  <2> SUFFICES ASSUME NEW i \in DOMAIN applied', NEW j \in DOMAIN applied',
                      i < j, j - i <= RingCapacity, applied'[i].clip = applied'[j].clip
               PROVE  \E k \in i + 1 .. j - 1 :
                        \/ applied'[k].clip.id = applied'[i].clip.id
                        \/ /\ k > RingCapacity
                           /\ applied'[k - RingCapacity].clip.id = applied'[i].clip.id
    BY DEF RepeatKeepsVersion, UsedAt
  <2>1. RingCapacity \in Nat \ {0} /\ i \in 1 .. n /\ j \in 1 .. n + 1
    BY <1>5, RingAssumption
  <2>2. SUFFICES \E k \in i + 1 .. j - 1 :
                   \/ UsedAt(k, applied[i].clip.id)
                   \/ k > RingCapacity /\ UsedAt(k - RingCapacity, applied[i].clip.id)
    <3>1. \A k \in i + 1 .. j - 1 : /\ applied'[k] = applied[k]
                                    /\ k > RingCapacity => applied'[k - RingCapacity] =
                                                             applied[k - RingCapacity]
      BY <1>5, <2>1
    <3>2. applied'[i] = applied[i]
      BY <1>5, <2>1
    <3> QED
      BY <3>1, <3>2 DEF UsedAt
  <2>3. CASE j \in 1 .. n
    <3>1. i \in DOMAIN applied /\ j \in DOMAIN applied /\ applied[i].clip = applied[j].clip
      BY <1>5, <2>1, <2>3
    <3> QED
      BY <3>1 DEF RingInv, RepeatKeepsVersion
  <2>4. CASE j = n + 1
    <3>1. i \in DOMAIN applied /\ n - i < RingCapacity /\ applied[i].clip = Clip("loop")
      BY <1>4, <1>5, <2>1, <2>4
    <3>2. j - 1 = n
      BY <1>5, <2>4
    <3>3. \E k \in i + 1 .. n :
            \/ UsedAt(k, applied[i].clip.id)
            \/ k > RingCapacity /\ UsedAt(k - RingCapacity, applied[i].clip.id)
      BY <1>1, <3>1, NewClipIsNoRepeat DEF n
    <3> QED
      BY <3>2, <3>3
  <2> QED
    BY <1>5, <2>1, <2>3, <2>4
<1> QED
  BY <1>7, <1>8, <1>9 DEF RingInv

\* The loop remembers the clip it installed.
LEMMA RingRemember ==
  ASSUME Types, RingInv, RememberClip("loop")
  PROVE  RingInv'
<1> DEFINE n == Len(applied) - 1
<1>1. /\ pc["loop"] = "remember" /\ pc'["loop"] = "broadcast"
      /\ UNCHANGED <<applied, work, text>>
      /\ seenIDs' = Remember(seenIDs, Clip("loop").id, text["loop"])
  BY DEF RememberClip, Types, ThreadTypes, Goroutines
<1>2. /\ applied # <<>> /\ applied[Len(applied)].clip = Clip("loop")
      /\ text["loop"] = TextOf(applied[Len(applied)])
  BY <1>1 DEF RingInv, InHand
<1>3. applied \in Seq(AppliedClip) /\ n \in Nat /\ n + 1 = Len(applied)
  BY <1>2, EmptySeq DEF Types, HubTypes, AppliedClip
<1>4. Clip("loop").id \in Ids /\ text["loop"] \in Text
  BY <1>1, ApplyFacts DEF Goroutines, Applying, Announcing
<1>5. RingHolds(seenIDs, applied, n)
  BY <1>1 DEF RingInv, Remembered
<1>6. \A i \in 1 .. n : Id(applied, i) \in Ids
  <2>1. \A i \in 1 .. n : applied[i] \in AppliedClip
    BY <1>3
  <2> QED
    BY <2>1 DEF Id, AppliedClip, ClipSet
<1> HIDE DEF n
<1>7. Id(applied, n + 1) = Clip("loop").id /\ TextOf(applied[n + 1]) = text["loop"]
  BY <1>2, <1>3 DEF Id
<1>8. RingHolds(seenIDs', applied, n + 1)
  BY <1>1, <1>3, <1>4, <1>5, <1>6, <1>7, RingHoldsRemember DEF Types
<1>9. Remembered' = n + 1
  BY <1>1, <1>3 DEF Remembered
<1>10. InHand'
  BY <1>1, <1>2 DEF InHand, Clip
<1>11. RepeatKeepsVersion'
  BY <1>1 DEF RingInv, RepeatKeepsVersion, UsedAt
<1> QED
  BY <1>1, <1>8, <1>9, <1>10, <1>11 DEF RingInv

\* RingInv is inductive while nothing waits for the closer.
LEMMA RingKept ==
  ASSUME Types, NothingWaits, TextsApplied, RingInv, [Next]_vars
  PROVE  RingInv'
<1>1. /\ pc \in [Goroutines -> Points] /\ work \in [Goroutines -> Queued \union {None}]
      /\ "loop" \in Goroutines
  BY DEF Types, ThreadTypes, Goroutines
<1>2. CASE ~LoopStep
  <2>1. /\ UNCHANGED <<seenIDs, applied>>
        /\ pc'["loop"] = pc["loop"] \/ (pc["loop"] = "dead" /\ pc'["loop"] = "idle")
        /\ work'["loop"] = work["loop"] /\ text'["loop"] = text["loop"]
    BY <1>2, LoopLeftAlone
  <2>2. InHand'
    BY <2>1 DEF RingInv, InHand, Unchanged, Clip
  <2> QED
    BY <2>1, <2>2, RingUntouched
<1>3. CASE TakeHello \/ TakeClip \/ LoopPanics
  <2>1. /\ UNCHANGED <<seenIDs, applied>> /\ pc["loop"] # "remember"
        /\ pc'["loop"] \in {"idle", "check", "dead"}
        /\ pc'["loop"] = "idle" => pc["loop"] = "idle" /\ work' = work
        /\ pc'["loop"] = "dead" => work'["loop"] = None
    BY <1>1, <1>3 DEF TakeHello, TakeClip, LoopPanics, hubVars, threadVars
  <2>2. InHand'
    BY <2>1 DEF RingInv, InHand
  <2> QED
    BY <2>1, <2>2, RingUntouched
<1>4. CASE AckDuplicate("loop") \/ RateLimit("loop") \/ Ack("loop")
  <2>1. /\ UNCHANGED <<seenIDs, applied>> /\ pc["loop"] # "remember"
        /\ pc'["loop"] = "idle" /\ work'["loop"] = None
    BY <1>1, <1>4 DEF AckDuplicate, RateLimit, Ack, Applied, hubVars
  <2>2. InHand'
    BY <2>1 DEF InHand
  <2> QED
    BY <2>1, <2>2, RingUntouched
<1>5. CASE PassCheck("loop") \/ Reserve("loop")
  <2>1. /\ UNCHANGED <<seenIDs, applied, work>> /\ pc["loop"] # "remember"
        /\ pc'["loop"] \in {"reserve", "install"}
    BY <1>1, <1>5 DEF PassCheck, Reserve, hubVars
  <2>2. ~Unchanged("loop")
    BY <1>5 DEF PassCheck, Reserve, RingInv, InHand
  <2>3. InHand'
    BY <2>1, <2>2 DEF InHand, Unchanged, Clip
  <2> QED
    BY <2>1, <2>3, RingUntouched
<1>6. CASE Install("loop")
  BY <1>6, RingInstall
<1>7. CASE RememberClip("loop")
  BY <1>7, RingRemember
<1>8. ASSUME NEW c \in Conns, Broadcast("loop", c) PROVE RingInv'
  <2>1. UNCHANGED <<seenIDs, applied, work, pc, text>>
    BY <1>8 DEF Broadcast, hubVars
  <2>2. InHand'
    BY <2>1 DEF RingInv, InHand, Unchanged, Clip
  <2> QED
    BY <2>1, <2>2, RingUntouched
<1> QED
  BY <1>2, <1>3, <1>4, <1>5, <1>6, <1>7, <1>8 DEF LoopStep, ApplyStep

\* The ring of a new hub holds nothing.
LEMMA RingAtStart ==
  ASSUME Init
  PROVE  RingInv
<1>1. applied = <<>> /\ Len(applied) = 0 /\ DOMAIN applied = {} /\ seenIDs = NewRing
      /\ pc["loop"] = "idle" /\ work["loop"] = None
  BY DEF Init, Goroutines
<1>2. /\ seenIDs.order = [i \in Slots |-> NoId] /\ seenIDs.next = 0
      /\ DOMAIN seenIDs.entries = {}
  BY <1>1 DEF NewRing
<1>3. InOrder(seenIDs, applied, 0)
  <2>1. 0 \in Slots
    BY RingAssumption DEF Slots
  <2>2. \A d \in 0 .. RingCapacity - 1 : Slot(0, d) \in Slots
    BY <2>1, SlotFacts
  <2> QED
    BY <1>2, <2>2 DEF InOrder
<1>4. LastUses(seenIDs, applied, 0) /\ Remembers(seenIDs, applied, 0)
  BY <1>2 DEF LastUses, Remembers
<1>5. InHand
  BY <1>1 DEF InHand
<1>6. RepeatKeepsVersion
  BY <1>1 DEF RepeatKeepsVersion
<1> QED
  BY <1>1, <1>3, <1>4, <1>5, <1>6 DEF RingInv, RingHolds, Remembered

(***************************************************************************)
(* A hub created after the recovery window does not give a repeated clip a *)
(* second version as long as the ring can hold it: for a ring of any size, *)
(* with ids used again and again, the only clip forgotten early is one     *)
(* whose id still owned an older slot that was overwritten meanwhile.      *)
(***************************************************************************)
THEOREM LateHubKeepsRepeats == WindowOverAtStart => (Spec => []RepeatKeepsVersion)
<1> SUFFICES ASSUME WindowOverAtStart PROVE Spec => []RepeatKeepsVersion
  OBVIOUS
<1>1. Init => LateInv /\ RingInv
  BY LateAtStart, RingAtStart
<1>2. Types /\ LateInv /\ RingInv /\ [Next]_vars => LateInv' /\ RingInv'
  <2>1. LateInv => NothingWaits /\ TextsApplied
    BY DEF LateInv, AppliedInv
  <2> QED
    BY <2>1, LateKept, RingKept
<1>3. RingInv => RepeatKeepsVersion
  BY DEF RingInv
<1> QED
  BY <1>1, <1>2, <1>3, TypesAtStart, TypesKept, PTL DEF Spec

(***************************************************************************)
(* A hub created after the recovery window gives no two texts one version: *)
(* what the closer and the loop do to each other in a hub that is there    *)
(* when the window closes takes both of them.                              *)
(***************************************************************************)
THEOREM LateHubOneText == WindowOverAtStart => (Spec => []OneTextPerVersion)
<1> SUFFICES ASSUME WindowOverAtStart PROVE Spec => []OneTextPerVersion
  OBVIOUS
<1>1. Types /\ GaplessVersions => OneTextPerVersion
  <2> SUFFICES ASSUME Types, GaplessVersions, NEW i \in DOMAIN applied, NEW j \in DOMAIN applied,
                      applied[i].version = applied[j].version
               PROVE  applied[i].clip.content = applied[j].clip.content
    BY DEF OneTextPerVersion
  <2>1. i \in Nat /\ j \in Nat /\ InitialVersion \in Nat
    BY HubAssumption DEF Types, HubTypes
  <2> QED
    BY <2>1 DEF GaplessVersions
<1>2. Spec => []GaplessVersions
  BY LateHubIsGapless
<1>3. Spec => []Types
  BY TypesAtStart, TypesKept, PTL DEF Spec
<1> QED
  BY <1>1, <1>2, <1>3, PTL
-----------------------------------------------------------------------------
(***************************************************************************)
(* ImplementsSerial.  What the variables of SerialHub stand for, and the   *)
(* step of it that each step of the hub is.                                *)
(***************************************************************************)
Heeds(c) ==
  [newest |-> heard[c].newest, answers |-> heard[c].answers, reply |-> heard[c].reply]
SerialTold == [c \in Conns |-> Heeds(c)]
SerialOpen == {c \in Conns : ~closed[c]}
SerialDone == pc["loop"] \in {"remember", "broadcast"}

\* A message of the hub is a message of the serial hub, and one to a full queue cuts off.
LEMMA EnqueueTells ==
  ASSUME ConnTypes, NEW c \in Conns, NEW type, NEW t, Enqueue(c, type, t)
  PROVE  /\ type \in {"ack", "error"} => Serial!Tell(c, t, TRUE)
         /\ type \notin {"ack", "error"} => Serial!Tell(c, t, FALSE)
<1>1. heard \in [Conns -> Heard] /\ closed \in [Conns -> BOOLEAN]
  BY DEF ConnTypes
<1>2. Serial!Newest(heard[c].newest, t) = Newest(heard[c].newest, t)
  BY DEF Serial!Newest, Newest
<1> DEFINE isAnswer == type \in {"ack", "error"}
           h == Hear(heard[c], type, t)
           told == [newest  |-> Newest(heard[c].newest, t),
                    answers |-> heard[c].answers + (IF isAnswer THEN 1 ELSE 0),
                    reply   |-> IF isAnswer THEN t ELSE heard[c].reply]
<1>3. CASE ~closed[c] /\ heard' = [heard EXCEPT ![c] = h] /\ closed' = closed
  <2>1. SerialTold' = [SerialTold EXCEPT ![c] = told]
    <3>1. h.newest = told.newest /\ h.answers = told.answers /\ h.reply = told.reply
      BY DEF Hear
    <3>2. told = [newest |-> told.newest, answers |-> told.answers, reply |-> told.reply]
      OBVIOUS
    <3> HIDE DEF h, told
    <3>3. heard'[c] = h /\ \A d \in Conns : d # c => heard'[d] = heard[d]
      BY <1>1, <1>3
    <3>4. Heeds(c)' = told /\ \A d \in Conns : d # c => Heeds(d)' = Heeds(d)
      BY <3>1, <3>2, <3>3 DEF Heeds
    <3> QED
      BY <3>4 DEF SerialTold
  <2>2. c \in SerialOpen /\ SerialOpen' = SerialOpen
    BY <1>3 DEF SerialOpen
  <2> QED
    BY <1>2, <2>1, <2>2 DEF Serial!Tell, SerialTold, SerialOpen, Heeds
<1>4. CASE /\ heard' = heard
           /\ \/ closed' = closed /\ closed[c]
              \/ closed' = [closed EXCEPT ![c] = TRUE]
  <2>1. SerialOpen' = SerialOpen \ {c}
    BY <1>1, <1>4 DEF SerialOpen
  <2>2. SerialTold' = SerialTold
    BY <1>4 DEF SerialTold, Heeds
  <2> QED
    BY <2>1, <2>2 DEF Serial!Tell, SerialTold, SerialOpen, Heeds
<1> QED
  BY <1>3, <1>4 DEF Enqueue

\* A step the serial hub does not see.
LEMMA SerialUnseen ==
  ASSUME UNCHANGED <<jobs, applied, heard, closed>>, work'["loop"] = work["loop"],
         SerialDone' = SerialDone
  PROVE  UNCHANGED Serial!vars
BY DEF Serial!vars, SerialDone

\* A welcome or a broadcast of an applied text, or of none.
LEMMA SerialAnnounce ==
  ASSUME ConnTypes, NEW c \in Conns, NEW type, NEW t, Enqueue(c, type, t),
         type \notin {"ack", "error"}, t = None \/ IsApplied(t, applied),
         UNCHANGED <<jobs, applied>>, work'["loop"] = work["loop"], SerialDone' = SerialDone
  PROVE  Serial!Next
<1>1. Serial!Tell(c, t, FALSE)
  BY EnqueueTells
<1>2. t = None \/ \E i \in DOMAIN applied : t = Serial!TextOf(applied[i])
  BY DEF IsApplied, Serial!TextOf
<1>3. Serial!Announce(c)
  BY <1>1, <1>2 DEF Serial!Announce, SerialDone
<1> QED
  BY <1>3 DEF Serial!Next

\* Connections that are cancelled hear no more.
LEMMA SerialCancel ==
  ASSUME ConnTypes, NEW C \in SUBSET Conns, CancelConnections(C),
         UNCHANGED <<jobs, applied, heard>>, work'["loop"] = work["loop"],
         SerialDone' = SerialDone
  PROVE  Serial!Next
<1>1. SerialOpen' = SerialOpen \ C
  BY DEF CancelConnections, SerialOpen, ConnTypes
<1>2. Serial!Close(C)
  BY <1>1 DEF Serial!Close, SerialOpen, SerialDone
<1> QED
  BY <1>2 DEF Serial!Next

\* The steps of a connection.
LEMMA SerialConnection ==
  ASSUME Types, LateInv, NEW c \in Conns, GetHub(c) \/ ConnectionStep(c) \/ Leave(c), ~AddCloses(c)
  PROVE  [Serial!Next]_Serial!vars
<1>1. CASE Connect(c) \/ AddLatest(c) \/ AddOpen(c) \/ AddNothing(c)
  <2>1. UNCHANGED <<jobs, applied, heard, closed, work, pc>>
    BY <1>1 DEF Connect, AddLatest, AddOpen, AddNothing, hubVars, threadVars
  <2> QED
    BY <2>1, SerialUnseen DEF SerialDone
<1>2. CASE AddWelcome(c)
  <2>1. UNCHANGED <<jobs, applied, work, pc>> /\ Enqueue(c, "welcome", text[c])
    BY <1>2 DEF AddWelcome, hubVars
  <2>2. text[c] = None \/ IsApplied(text[c], applied)
    BY DEF LateInv, AppliedInv, TextsApplied
  <2> QED
    BY <2>1, <2>2, SerialAnnounce DEF SerialDone, Types
<1>3. CASE SayHello(c)
  <2>1. Serial!SayHello(c)
    BY <1>3 DEF SayHello, Serial!SayHello, threadVars
  <2> QED
    BY <2>1 DEF Serial!Next
<1>4. CASE Leave(c)
  <2>1. UNCHANGED <<jobs, applied, heard, work, pc>> /\ CancelConnections({c})
    BY <1>4 DEF Leave, hubVars, threadVars
  <2> QED
    BY <2>1, SerialCancel DEF SerialDone, Types
<1>5. CASE GetHub(c) \/ StartIfIdle(c)
  <2>1. /\ UNCHANGED <<jobs, applied, heard, closed, work>>
        /\ pc' = pc \/ (pc["loop"] = "dead" /\ pc'["loop"] = "idle")
    BY <1>5, GetOrCreateFacts DEF hubVars
  <2> QED
    BY <2>1, SerialUnseen DEF SerialDone
<1> QED
  BY <1>1, <1>2, <1>3, <1>4, <1>5 DEF ConnectionStep

\* A clip is submitted: nothing waits, so it goes to the jobs.
LEMMA SerialSubmit ==
  ASSUME Types, NothingWaits, NEW c \in Conns, NEW clip \in ClipsOf[c], Submit(c, clip)
  PROVE  Serial!Next
<1>1. windowClosed /\ c \in SerialOpen
  BY DEF NothingWaits, Submit, SerialOpen
<1>2. /\ jobs' = Append(jobs, [type |-> "clip", sender |-> c, clip |-> clip])
      /\ UNCHANGED <<closed, heard, applied, pc, work>>
  BY <1>1 DEF Submit, threadVars
<1>3. Serial!Submit(c, clip)
  BY <1>1, <1>2 DEF Serial!Submit, SerialOpen
<1> QED
  BY <1>3 DEF Serial!Next

\* The closer of such a hub, and the clock.
LEMMA SerialCloser ==
  ASSUME Types, LateInv,
         \/ CloserTakes \/ CloserLatest \/ CloserRecipients \/ (\E c \in Conns : CloserWelcome(c))
         \/ CloserSweeps \/ CloserPanics \/ CloseWindow \/ WindowEnds \/ RemoveIdle
         \/ UNCHANGED vars
  PROVE  [Serial!Next]_Serial!vars
<1>1. ASSUME NEW c \in Conns, CloserWelcome(c) PROVE Serial!Next
  <2>1. UNCHANGED <<jobs, applied, work, pc>> /\ Enqueue(c, "welcome", text["closer"])
    BY <1>1 DEF CloserWelcome, hubVars
  <2>2. text["closer"] = None \/ IsApplied(text["closer"], applied)
    BY DEF LateInv, AppliedInv, TextsApplied
  <2> QED
    BY <2>1, <2>2, SerialAnnounce DEF SerialDone, Types
<1>2. CASE \/ CloserTakes \/ CloserLatest \/ CloserRecipients \/ CloserSweeps \/ CloserPanics
           \/ CloseWindow \/ WindowEnds \/ RemoveIdle \/ UNCHANGED vars
  <2>1. /\ pc \in [Goroutines -> Points] /\ work \in [Goroutines -> Queued \union {None}]
        /\ "loop" \in Goroutines
    BY DEF Types, ThreadTypes, Goroutines
  <2>2. UNCHANGED <<jobs, applied, heard, closed>>
    BY <1>2 DEF CloserTakes, CloserLatest, CloserRecipients, CloserSweeps, CloserPanics,
                CloseWindow, WindowEnds, RemoveIdle, hubVars, connVars, vars
  <2>3. work'["loop"] = work["loop"] /\ pc'["loop"] = pc["loop"]
    BY <1>2, <2>1 DEF CloserTakes, CloserLatest, CloserRecipients, CloserSweeps, CloserPanics,
                CloseWindow, WindowEnds, RemoveIdle, threadVars, vars
  <2> QED
    BY <2>2, <2>3, SerialUnseen DEF SerialDone
<1> QED
  BY <1>1, <1>2

\* The loop takes a job: it has none in hand.
LEMMA SerialTake ==
  ASSUME Types, RingInv, TakeHello \/ TakeClip
  PROVE  Serial!Next
<1>1. /\ pc \in [Goroutines -> Points] /\ work \in [Goroutines -> Queued \union {None}]
      /\ "loop" \in Goroutines
  BY DEF Types, ThreadTypes, Goroutines
<1>2. /\ jobs # <<>> /\ jobs' = Tail(jobs) /\ UNCHANGED <<applied, heard, closed>>
      /\ pc["loop"] = "idle" /\ pc'["loop"] \in {"idle", "check"}
  BY <1>1 DEF TakeHello, TakeClip, connVars, threadVars
<1>3. work["loop"] = None
  BY <1>2 DEF RingInv, InHand
<1>4. work'["loop"] = IF Head(jobs).type = "hello" THEN None
                      ELSE [sender |-> Head(jobs).sender, clip |-> Head(jobs).clip]
  BY <1>1, <1>3 DEF TakeHello, TakeClip, threadVars
<1>5. SerialDone' = SerialDone
  BY <1>2 DEF SerialDone
<1>6. Serial!Take
  BY <1>2, <1>3, <1>4, <1>5 DEF Serial!Take, SerialDone
<1> QED
  BY <1>6 DEF Serial!Next

\* The clip in hand is somebody's.
LEMMA ClipInHand ==
  ASSUME Types, pc["loop"] \in Applying
  PROVE  /\ work["loop"] # None /\ Sender("loop") \in Conns
         /\ Clip("loop") = [id |-> Clip("loop").id, content |-> Clip("loop").content]
<1>1. work["loop"] \in Queued /\ Clip("loop") \in ClipSet /\ Sender("loop") \in Conns
  BY ApplyFacts DEF Types, ThreadTypes, Goroutines
<1>2. None \notin Queued
  BY HubAssumption DEF Queued, ClipSet
<1> QED
  BY <1>1, <1>2 DEF ClipSet

\* The clip in hand is answered: new, over the limit or a repeat.
LEMMA SerialAnswer ==
  ASSUME Types, RingInv, AckDuplicate("loop") \/ RateLimit("loop") \/ Ack("loop")
  PROVE  Serial!Next
<1>1. /\ pc \in [Goroutines -> Points] /\ work \in [Goroutines -> Queued \union {None}]
      /\ "loop" \in Goroutines /\ pc["loop"] \in Applying
      /\ applied \in Seq(AppliedClip)
  BY DEF Types, ThreadTypes, HubTypes, AppliedClip, Goroutines, AckDuplicate, RateLimit, Ack,
         Applying
<1>2. /\ work["loop"] # None /\ Sender("loop") \in Conns
      /\ Clip("loop") = [id |-> Clip("loop").id, content |-> Clip("loop").content]
  BY <1>1, ClipInHand
<1>3. /\ UNCHANGED <<jobs, applied>> /\ pc'["loop"] = "idle" /\ work'["loop"] = None
  BY <1>1 DEF AckDuplicate, RateLimit, Ack, Applied, hubVars
<1>4. SerialDone' = FALSE
  BY <1>3 DEF SerialDone
<1>5. SUFFICES \/ SerialDone /\ Serial!Tell(Sender("loop"), TextOf(applied[Len(applied)]), TRUE)
               \/ ~SerialDone /\ Serial!Tell(Sender("loop"), None, TRUE)
               \/ /\ ~SerialDone
                  /\ \E i \in DOMAIN applied :
                       /\ applied[i].clip = Clip("loop") /\ Serial!LastUse(i)
                       /\ Serial!Tell(Sender("loop"), TextOf(applied[i]), TRUE)
  <2>1. \A a : Serial!TextOf(a) = TextOf(a)
    BY DEF Serial!TextOf, TextOf
  <2>2. Serial!Answer
    BY <1>2, <1>3, <1>4, <1>5, <2>1 DEF Serial!Answer, SerialDone, Sender, Clip
  <2> QED
    BY <2>2 DEF Serial!Next
<1>6. ConnTypes
  BY DEF Types
<1>7. CASE Ack("loop")
  <2>1. pc["loop"] = "broadcast" /\ Enqueue(Sender("loop"), "ack", text["loop"])
    BY <1>7 DEF Ack
  <2>2. text["loop"] = TextOf(applied[Len(applied)])
    BY <2>1 DEF RingInv, InHand
  <2> QED
    BY <1>2, <1>6, <2>1, <2>2, EnqueueTells DEF SerialDone
<1>8. CASE RateLimit("loop")
  <2>1. pc["loop"] = "reserve" /\ Enqueue(Sender("loop"), "error", None)
    BY <1>8 DEF RateLimit
  <2> QED
    BY <1>2, <1>6, <2>1, EnqueueTells DEF SerialDone
<1>9. CASE AckDuplicate("loop")
  <2> DEFINE id == Clip("loop").id
             n == Len(applied)
  <2>1. /\ pc["loop"] = "check" /\ Unchanged("loop")
        /\ Enqueue(Sender("loop"), "ack", seenIDs.entries[id])
    BY <1>9 DEF AckDuplicate
  <2>2. id \in DOMAIN seenIDs.entries /\ seenIDs.entries[id].content = Clip("loop").content
    BY <2>1 DEF Unchanged, IsUnchangedDuplicate
  <2>3. LastUses(seenIDs, applied, n)
    BY <2>1 DEF RingInv, RingHolds, Remembered
  <2>4. n \in Nat /\ DOMAIN applied = 1 .. n
    BY <1>1
  <2> HIDE DEF id, n
  <2>5. PICK i \in 1 .. n : /\ Id(applied, i) = id /\ seenIDs.entries[id] = TextOf(applied[i])
                            /\ \A k \in i + 1 .. n : Id(applied, k) # id
    BY <2>2, <2>3 DEF LastUses
  <2>6. applied[i].clip = Clip("loop")
    <3>1. applied[i].clip \in ClipSet
      <4>1. applied[i] \in AppliedClip
        BY <1>1, <2>4
      <4> QED
        BY <4>1 DEF AppliedClip
    <3>2. /\ applied[i].clip.id = Clip("loop").id
          /\ applied[i].clip.content = Clip("loop").content
      BY <2>2, <2>5 DEF Id, TextOf, id
    <3> QED
      BY <1>2, <3>1, <3>2 DEF ClipSet
  <2>7. Serial!LastUse(i)
    BY <2>4, <2>5 DEF Serial!LastUse, Id
  <2>8. Serial!Tell(Sender("loop"), TextOf(applied[i]), TRUE)
    BY <1>2, <1>6, <2>1, <2>5, EnqueueTells DEF id
  <2> QED
    BY <2>1, <2>4, <2>6, <2>7, <2>8 DEF SerialDone
<1> QED
  BY <1>7, <1>8, <1>9

\* The other steps of the loop's ApplyClip: a clip is applied when it is installed.
LEMMA SerialApply ==
  ASSUME Types, LateInv, RingInv,
         \/ PassCheck("loop") \/ Reserve("loop") \/ Install("loop") \/ RememberClip("loop")
         \/ (\E c \in Conns : Broadcast("loop", c)) \/ LoopPanics
  PROVE  [Serial!Next]_Serial!vars
<1>1. /\ pc \in [Goroutines -> Points] /\ "loop" \in Goroutines
      /\ ConnTypes /\ connections \in SUBSET Conns
  BY DEF Types, ThreadTypes, ConnTypes, Goroutines
<1>2. CASE PassCheck("loop") \/ Reserve("loop") \/ RememberClip("loop")
  <2>1. UNCHANGED <<jobs, applied, heard, closed, work>> /\ SerialDone' = SerialDone
    BY <1>1, <1>2 DEF PassCheck, Reserve, RememberClip, hubVars, connVars, SerialDone
  <2> QED
    BY <2>1, SerialUnseen
<1>3. CASE Install("loop")
  <2>1. /\ pc["loop"] = "install" /\ pc'["loop"] = "remember"
        /\ applied' = Append(applied, [clip |-> Clip("loop"), version |-> text["loop"].version])
        /\ UNCHANGED <<jobs, heard, closed, work>>
    BY <1>1, <1>3 DEF Install, connVars
  <2>2. text["loop"].version = InitialVersion + Len(applied) + 1
    BY <2>1 DEF LateInv, Numbered
  <2>3. ~SerialDone /\ SerialDone'
    BY <2>1 DEF SerialDone
  <2>4. work["loop"] # None
    BY <2>1, ClipInHand DEF Applying
  <2>5. Serial!Apply
    BY <2>1, <2>2, <2>3, <2>4 DEF Serial!Apply, SerialDone, Clip
  <2> QED
    BY <2>5 DEF Serial!Next
<1>4. ASSUME NEW c \in Conns, Broadcast("loop", c) PROVE Serial!Next
  <2>1. /\ pc["loop"] = "broadcast" /\ Enqueue(c, "clip", text["loop"])
        /\ UNCHANGED <<jobs, applied, work, pc>>
    BY <1>4 DEF Broadcast, hubVars
  <2>2. IsApplied(text["loop"], applied)
    BY <2>1 DEF LateInv, AppliedInv, TextsApplied, LatestApplied
  <2> QED
    BY <1>1, <2>1, <2>2, SerialAnnounce DEF SerialDone
<1>5. CASE LoopPanics
  <2>1. /\ UNCHANGED <<jobs, applied, heard>> /\ ~SerialDone /\ ~SerialDone'
        /\ work'["loop"] = None /\ version = MaxVersion /\ pc["loop"] = "reserve"
        /\ UNCHANGED closed \/ CancelConnections(connections)
    BY <1>1, <1>5 DEF LoopPanics, hubVars, SerialDone, Types, ThreadTypes
  <2>2. PICK C \in SUBSET Conns : SerialOpen' = SerialOpen \ C
    <3>1. CASE UNCHANGED closed
      <4>1. SerialOpen' = SerialOpen \ {}
        BY <3>1 DEF SerialOpen
      <4> QED
        BY <4>1
    <3>2. CASE CancelConnections(connections)
      <4>1. SerialOpen' = SerialOpen \ connections
        BY <1>1, <3>2 DEF CancelConnections, SerialOpen, ConnTypes
      <4> QED
        BY <1>1, <4>1
    <3> QED
      BY <2>1, <3>1, <3>2
  <2>3. work["loop"] # None
    BY <2>1, ClipInHand DEF Applying
  <2>4. InitialVersion + Len(applied) = MaxVersion
    BY <2>1 DEF LateInv, Numbered
  <2>5. \E D \in SUBSET Conns : {c \in Conns : ~closed[c]}' = {c \in Conns : ~closed[c]} \ D
    BY <2>2, Zenon DEF SerialOpen
  <2>6. SerialDone' = SerialDone
    BY <1>1, <1>5 DEF LoopPanics, SerialDone
  <2>7. Serial!Fail
    BY <2>1, <2>3, <2>4, <2>5, <2>6 DEF Serial!Fail, SerialDone
  <2> QED
    BY <2>7 DEF Serial!Next
<1> QED
  BY <1>2, <1>3, <1>4, <1>5

\* Every step of such a hub is one of the serial hub, or none.
LEMMA StepIsSerial ==
  ASSUME Types, LateInv, RingInv, [Next]_vars
  PROVE  [Serial!Next]_Serial!vars
<1>1. NothingWaits /\ ~ApplyStep("closer")
  BY DEF LateInv, NothingWaits, ApplyStep, AckDuplicate, PassCheck, RateLimit, Reserve, Install,
         RememberClip, Broadcast, Ack, Applying
<1>2. ASSUME NEW c \in Conns, NEW clip \in ClipsOf[c], Submit(c, clip) PROVE Serial!Next
  BY <1>1, <1>2, SerialSubmit
<1>3. ASSUME NEW c \in Conns, GetHub(c) \/ ConnectionStep(c) \/ Leave(c)
      PROVE  [Serial!Next]_Serial!vars
  BY <1>3, SerialConnection, SerialCloser DEF AddCloses
<1>4. CASE LoopStep
  BY <1>4, SerialTake, SerialAnswer, SerialApply DEF LoopStep, ApplyStep
<1>5. CASE CloserStep
  BY <1>1, <1>5, SerialCloser DEF CloserStep
<1>6. CASE WindowEnds \/ ScannerCloses \/ RemoveIdle \/ UNCHANGED vars
  BY <1>6, SerialCloser DEF ScannerCloses
<1> QED
  BY <1>2, <1>3, <1>4, <1>5, <1>6 DEF Next

(***************************************************************************)
(* A hub created after the recovery window implements the serial hub of    *)
(* the specification, for any number of connections, ids and clips.  The   *)
(* five mutexes of ApplyClip, the connections that come, go and are cut    *)
(* off between them, and the closer that finds nothing to apply are not to *)
(* be seen in what is applied, answered and told.                          *)
(***************************************************************************)
THEOREM LateHubIsSerial == WindowOverAtStart => (Spec => ImplementsSerial)
<1> SUFFICES ASSUME WindowOverAtStart PROVE Spec => ImplementsSerial
  OBVIOUS
<1>1. Init => LateInv /\ RingInv
  BY LateAtStart, RingAtStart
<1>2. Types /\ LateInv /\ RingInv /\ [Next]_vars => LateInv' /\ RingInv'
  <2>1. LateInv => NothingWaits /\ TextsApplied
    BY DEF LateInv, AppliedInv
  <2> QED
    BY <2>1, LateKept, RingKept
<1>3. Init => Serial!Init
  BY DEF Init, Serial!Init, Goroutines
<1>4. Types /\ LateInv /\ RingInv /\ [Next]_vars => [Serial!Next]_Serial!vars
  BY StepIsSerial
<1> QED
  BY <1>1, <1>2, <1>3, <1>4, TypesAtStart, TypesKept, PTL DEF Spec, ImplementsSerial, Serial!Spec
=============================================================================
