------------------------ MODULE VersionRecoveryProofs ------------------------
(***************************************************************************)
(* Proofs about VersionRecovery, for any users and clients, any goroutines *)
(* that save and any bound on versions.  The composition is a store (every *)
(* step is one of RuntimeStateStore or leaves it alone), so what is proved *)
(* of the store holds of it; what clients were told rests on the invariant *)
(* below.                                                                  *)
(***************************************************************************)
EXTENDS VersionRecovery, RuntimeStateStoreProofs, WellFoundedInduction

\* No goroutine closes the window or applies a clip.
Quiet == ~closing /\ \A s \in Appliers : stage[s] = "idle"

\* The hub is never ahead of the store nor behind the snapshots it closed its window with;
\* if nothing raced, it is behind no version that was told either.
HubInv ==
  /\ ~exists => candidates = {} /\ ~hasLatest
  /\ hasLatest => hubVersion > 0
  /\ ~(exists /\ windowClosed) => Quiet
  /\ \A s \in Appliers : saver[s] = "merged" =>
       stage[s] = "saving" \/ (s = Closer /\ closing /\ stage[s] = "idle")
  /\ exists => versions[User] >= hubVersion
  /\ \A v \in initial : versions[User] >= v
  /\ exists /\ windowClosed => \A v \in candidates : hubVersion >= v
  /\ \A s \in Appliers : stage[s] # "idle" => next[s] > 0 /\ \A v \in candidates : next[s] > v
  /\ \A s \in Appliers : stage[s] = "saving" => versions[User] >= next[s]
  /\ ~raced => \A s \in Appliers : stage[s] # "idle" =>
       next[s] = hubVersion + 1 /\ \A t \in Appliers \ {s} : stage[t] = "idle"
  /\ ~behind => \A v \in told : versions[User] >= v
  /\ exists /\ ~behind /\ ~raced => \A v \in told : hubVersion >= v

\* Version v is in the file, or somebody will write it: the dirty flag is set, or a Flush
\* that has cleared it has yet to copy the versions or has a copy with v.
Safe(contents, dirty, flushing, copies, v) ==
  \/ contents[User] >= v
  \/ dirty
  \/ \E f \in Flushers : \/ flushing[f] = "swapped"
                         \/ flushing[f] = "writing" /\ copies[f][User] >= v

SafeNow(v) == Safe(file, isDirty, flush, entries, v)

\* What may be told is safe once SaveVersion has returned ...
SafeInv ==
  /\ (\A s \in Appliers : saver[s] = "idle") => SafeNow(versions[User])
  /\ exists /\ ~Restoring => SafeNow(hubVersion)
  /\ \A s \in Appliers : stage[s] = "saving" /\ saver[s] = "idle" => SafeNow(next[s])
  /\ ~behind => \A v \in told : SafeNow(v)
  /\ \A v \in sealed : SafeNow(v) /\ versions[User] >= v

\* ... and the Flush of Stop, which runs alone, writes it.
StopInv ==
  /\ loopDone => flush["loop"] = "idle"
  /\ phase \in {"final", "stopped"} => loopDone
  /\ flush["main"] # "idle" => phase \in {"shutdown", "final"}
  /\ phase = "final" /\ flush["main"] = "writing" => \A v \in sealed : entries["main"][User] >= v
  /\ cleanStop => phase = "stopped" /\ \A v \in sealed : file[User] >= v

SystemInv == SystemTypeOK /\ WriterBetween /\ HubInv /\ SafeInv /\ StopInv

-----------------------------------------------------------------------------
\* The versions of the hub and the store are numbers below the bound.
LEMMA Numbers ==
  ASSUME SystemTypeOK
  PROVE  /\ versions[User] \in Version /\ file[User] \in Version
         /\ \A v \in Version : v \in Int /\ v >= 0 /\ v <= MaxVersion
         /\ MaxVersion \in Nat
BY StoreAssumption, RecoveryAssumption DEF SystemTypeOK, TypeOK, Version

\* SelectSnapshotWinner finds the highest version.
LEMMA WinnerIsHighest ==
  ASSUME SystemTypeOK
  PROVE  /\ Winner \in Version
         /\ candidates # {} => Winner \in candidates
         /\ \A v \in candidates : Winner >= v
<1>1. CASE candidates = {}
  BY <1>1, StoreAssumption DEF Winner, Version
<1>2. CASE candidates # {}
  <2> DEFINE T == {n \in 0 .. MaxVersion : \E v \in candidates : n = MaxVersion - v}
  <2>1. candidates \subseteq Version /\ MaxVersion \in Nat
    BY StoreAssumption DEF SystemTypeOK
  <2>2. T \subseteq Nat /\ T # {}
    <3>1. PICK v \in candidates : v \in 0 .. MaxVersion
      BY <1>2, <2>1 DEF Version
    <3>2. MaxVersion - v \in 0 .. MaxVersion
      BY <2>1, <3>1
    <3>3. MaxVersion - v \in T
      BY <3>2
    <3>4. T \subseteq 0 .. MaxVersion /\ 0 .. MaxVersion \subseteq Nat
      OBVIOUS
    <3> HIDE DEF T
    <3> QED
      BY <3>3, <3>4
  <2>3. PICK n \in T : \A y \in T : ~(<<y, n>> \in OpToRel(<, Nat))
    <3> HIDE DEF T
    <3> QED
      BY <2>2, NatLessThanWellFounded, WFMin
  <2>4. \A y \in T : ~(y < n)
    BY <2>2, <2>3 DEF OpToRel
  <2>5. PICK v \in candidates : n = MaxVersion - v
    BY <2>3
  <2>6. \A w \in candidates : v >= w
    <3> TAKE w \in candidates
    <3>1. MaxVersion - w \in T /\ v \in Int /\ w \in Int
      BY <2>1 DEF Version
    <3>2. ~(MaxVersion - w < MaxVersion - v)
      BY <2>4, <2>5, <3>1
    <3> QED
      BY <2>1, <3>1, <3>2
  <2>7. \E x \in candidates : \A w \in candidates : x >= w
    BY <2>6
  <2>8. Winner \in candidates /\ \A w \in candidates : Winner >= w
    BY <1>2, <2>7 DEF Winner
  <2> QED
    BY <2>1, <2>8
<1> QED
  BY <1>1, <1>2

-----------------------------------------------------------------------------
(***************************************************************************)
(* The composition is a store.                                             *)
(***************************************************************************)

\* Every step of the system is a step of the store or leaves it alone.
LEMMA StepIsStoreStep == SystemInv /\ [SystemNext]_systemVars => [Next]_vars
<1> SUFFICES ASSUME SystemInv, [SystemNext]_systemVars PROVE [Next]_vars
  OBVIOUS
<1> USE DEF Next
<1>0. SystemTypeOK /\ HubInv
  BY DEF SystemInv
<1>1. CASE Lookup \/ Join \/ Leave \/ WindowEnds \/ Welcome \/ Reclaim
  BY <1>1 DEF Lookup, Join, Leave, WindowEnds, Welcome, Reclaim
<1>2. CASE CloseWindow
  <2>1. CASE Winner > hubVersion /\ SaveMerge(Closer, User, Winner)
    <3>1. Winner \in Version \ {0}
      BY <1>0, <2>1, WinnerIsHighest, Numbers DEF SystemTypeOK
    <3> QED
      BY <2>1, <3>1, RecoveryAssumption DEF Appliers
  <2>2. CASE UNCHANGED vars
    BY <2>2
  <2> QED
    BY <1>2, <2>1, <2>2 DEF CloseWindow
<1>3. ASSUME NEW s \in Appliers, ApplyClip(s) \/ Install(s) PROVE UNCHANGED vars
  BY <1>3 DEF ApplyClip, Install
<1>4. ASSUME NEW s \in Appliers, ApplySave(s) PROVE Next
  <2>1. stage[s] # "idle" /\ SaveMerge(s, User, next[s])
    BY <1>4 DEF ApplySave
  <2>2. next[s] \in Version \ {0} /\ s \in Savers
    BY <1>0, <2>1, Numbers, RecoveryAssumption DEF SystemTypeOK, HubInv
  <2> QED
    BY <2>1, <2>2, RecoveryAssumption
<1>5. CASE StoreStep
  BY <1>5 DEF StoreStep, FlushStep
<1>6. ASSUME NEW f \in Flushers, FlushReturns(f) PROVE Next
  BY <1>6 DEF FlushReturns, FlushStep
<1>7. CASE CancelAll \/ StopFlushes \/ NewProcess
  BY <1>7 DEF CancelAll, StopFlushes, NewProcess
<1>8. CASE UNCHANGED systemVars
  BY <1>8 DEF systemVars
<1> QED
  BY <1>1, <1>2, <1>3, <1>4, <1>5, <1>6, <1>7, <1>8 DEF SystemNext

\* The steps of a store whose process lives on.
LiveStep ==
  \/ \E s \in Savers, u \in Users, v \in Version \ {0} : SaveMerge(s, u, v)
  \/ \E s \in Savers : SaveMark(s)
  \/ \E f \in Flushers : FlushStep(f)
  \/ Shutdown \/ ServeFails \/ StopClose \/ LoopExit \/ StopWait

\* While the process lives, a version in memory that is safe stays so.
LEMMA SafeStays ==
  ASSUME TypeOK, WriterBetween, LiveStep,
         NEW v \in Version, versions[User] >= v, SafeNow(v)
  PROVE  Safe(file', isDirty', flush', entries', v)
<1> USE DEF SafeNow, Safe
<1>0. User \in Users /\ v \in Int
  BY RecoveryAssumption, StoreAssumption DEF Version
<1>1. CASE UNCHANGED <<file, isDirty, flush, entries>>
  BY <1>1
<1>2. ASSUME NEW s \in Savers, SaveMark(s)
      PROVE  Safe(file', isDirty', flush', entries', v)
  BY <1>2 DEF SaveMark
<1>3. ASSUME NEW f \in Flushers, FlushSwap(f)
      PROVE  Safe(file', isDirty', flush', entries', v)
  BY <1>3 DEF FlushSwap, TypeOK
<1>4. ASSUME NEW f \in Flushers, FlushSnapshot(f)
      PROVE  Safe(file', isDirty', flush', entries', v)
  <2>1. flush'[f] = "writing" /\ entries'[f] = versions
    BY <1>4 DEF FlushSnapshot, TypeOK
  <2> QED
    BY <2>1
<1>5. ASSUME NEW f \in Flushers, FlushWrite(f)
      PROVE  Safe(file', isDirty', flush', entries', v)
  <2>1. /\ flush[f] = "writing" /\ file' = entries[f] /\ isDirty' = isDirty
        /\ \A g \in Flushers \ {f} : flush'[g] = flush[g] /\ entries'[g] = entries[g]
    BY <1>5 DEF FlushWrite, TypeOK
  <2>2. entries[f][User] >= file[User] /\ entries[f][User] \in Int /\ file[User] \in Int
    BY <1>0, <2>1, StoreAssumption DEF WriterBetween, Ledger!Covers, TypeOK, Version
  <2> QED
    BY <1>0, <2>1, <2>2
<1>6. ASSUME NEW f \in Flushers, FlushFail(f)
      PROVE  Safe(file', isDirty', flush', entries', v)
  BY <1>6 DEF FlushFail
<1>7. ASSUME NEW f \in Flushers, FlushClean(f)
      PROVE  UNCHANGED <<file, isDirty, flush, entries>>
  BY <1>7 DEF FlushClean
<1>8. ASSUME NEW s \in Savers, NEW u \in Users, NEW w \in Version \ {0}, SaveMerge(s, u, w)
      PROVE  UNCHANGED <<file, isDirty, flush, entries>>
  BY <1>8 DEF SaveMerge
<1>9. CASE Shutdown \/ ServeFails \/ StopClose \/ LoopExit \/ StopWait
  <2>1. UNCHANGED <<file, isDirty, flush, entries>>
    BY <1>9 DEF Shutdown, ServeFails, StopClose, LoopExit, StopWait
  <2> QED
    BY <1>1, <2>1
<1> QED
  BY <1>1, <1>2, <1>3, <1>4, <1>5, <1>6, <1>7, <1>8, <1>9 DEF LiveStep, FlushStep

\* What a step of the store keeps of the invariant while the process lives.
LEMMA LiveStore ==
  ASSUME SystemInv, LiveStep
  PROVE  /\ TypeOK' /\ WriterBetween' /\ versions'[User] >= versions[User]
         /\ \A v \in Version :
              versions[User] >= v /\ SafeNow(v) => Safe(file', isDirty', flush', entries', v)
<1>1. TypeOK /\ WriterBetween /\ [Next]_vars
  BY DEF SystemInv, SystemTypeOK, LiveStep, Next
<1>2. TypeOK' /\ WriterBetween'
  BY <1>1, TypeStep, WriterStep
<1>3. versions'[User] >= versions[User]
  <2>1. ASSUME NEW s \in Savers, NEW u \in Users, NEW v \in Version \ {0}, SaveMerge(s, u, v)
        PROVE  versions'[User] >= versions[User]
    BY <1>1, <2>1, MergeCovers, RecoveryAssumption DEF Ledger!Covers
  <2>2. CASE versions' = versions
    BY <1>1, <2>2, RecoveryAssumption, StoreAssumption DEF TypeOK, Version
  <2>3. ASSUME NEW f \in Flushers, FlushStep(f) PROVE versions' = versions
    BY <2>3 DEF FlushStep, FlushClean, FlushSwap, FlushSnapshot, FlushWrite, FlushFail
  <2>4. CASE \/ \E s \in Savers : SaveMark(s)
             \/ Shutdown \/ ServeFails \/ StopClose \/ LoopExit \/ StopWait
    BY <2>2, <2>4 DEF SaveMark, Shutdown, ServeFails, StopClose, LoopExit, StopWait
  <2> QED
    BY <2>1, <2>2, <2>3, <2>4 DEF LiveStep
<1> QED
  BY <1>1, <1>2, <1>3, SafeStays

-----------------------------------------------------------------------------
(***************************************************************************)
(* Steps that leave the store alone.                                       *)
(***************************************************************************)

\* The part of the invariant that is about the store alone.
LEMMA QuietStore ==
  ASSUME SystemInv, UNCHANGED vars, UNCHANGED <<sealed, cleanStop>>
  PROVE  /\ TypeOK' /\ WriterBetween' /\ StopInv'
         /\ \A v \in Version : SafeNow(v) => Safe(file', isDirty', flush', entries', v)
BY DEF SystemInv, SystemTypeOK, TypeOK, WriterBetween, StopInv, Ledger!Covers, SafeNow, Safe, vars

\* A lower version than a safe one is safe.
LEMMA SafeBelow ==
  ASSUME SystemTypeOK, NEW v \in Version, NEW w \in Version, v <= w, SafeNow(w)
  PROVE  SafeNow(v)
<1>1. \A x \in Version : x \in Int
  BY Numbers
<1>2. file[User] \in Version /\ \A f \in Flushers : entries[f][User] \in Version
  BY RecoveryAssumption DEF SystemTypeOK, TypeOK
<1> QED
  BY <1>1, <1>2 DEF SafeNow, Safe

\* The types that the steps below need.
LEMMA Facts ==
  ASSUME SystemTypeOK
  PROVE  /\ versions[User] \in Version /\ hubVersion \in Version /\ 0 \in Version
         /\ told \subseteq Version /\ sealed \subseteq Version /\ candidates \subseteq Version
         /\ initial \subseteq Version
         /\ \A s \in Appliers : /\ s \in Savers /\ next[s] \in Version
                               /\ saver[s] \in {"idle", "merged"}
                               /\ stage[s] \in {"idle", "read", "saving"}
         /\ \A v \in Version : v \in Int /\ v >= 0 /\ v <= MaxVersion
BY Numbers, RecoveryAssumption, StoreAssumption DEF SystemTypeOK, TypeOK, Version

\* A hub may tell its version if it is safe.
LEMMA TellingKeeps ==
  ASSUME SystemInv, NEW v \in Version, Tell(v), v > 0, versions[User] >= v, SafeNow(v)
  PROVE  /\ told' \subseteq Version \ {0} /\ \A w \in told' : w \in told \/ w = v
         /\ ~behind => \A w \in told' : versions[User] >= w /\ SafeNow(w)
BY DEF Tell, SystemInv, SystemTypeOK, HubInv, SafeInv

\* While nobody closes the window or applies a clip, all that the store has is safe.
LEMMA QuietIsSafe ==
  ASSUME SystemInv, Quiet
  PROVE  SafeNow(versions[User])
<1>1. SystemTypeOK /\ HubInv /\ SafeInv
  BY DEF SystemInv
<1>2. \A s \in Appliers : saver[s] = "idle"
  BY <1>1, Facts DEF HubInv, Quiet
<1> QED
  BY <1>1, <1>2 DEF SafeInv

\* GetOrAdd and AddConnection.
LEMMA JoinKeeps ==
  ASSUME SystemInv, Join
  PROVE  SystemInv'
<1>0. SystemTypeOK /\ HubInv /\ SafeInv
  BY DEF SystemInv
<1>1. /\ UNCHANGED vars /\ ~Restoring /\ online' = TRUE
      /\ UNCHANGED <<hasLatest, windowOver, closing, stage, next, initial, sealed, cleanStop, behind>>
  BY DEF Join
<1>2. /\ TypeOK' /\ WriterBetween' /\ StopInv'
      /\ \A v \in Version : SafeNow(v) => Safe(file', isDirty', flush', entries', v)
  BY <1>1, QuietStore
<1>3. UNCHANGED <<versions, saver>> /\ (Restoring' <=> Restoring)
  BY <1>1 DEF vars, Restoring
<1>4. CASE ~exists
  <2>1. /\ hubVersion' \in initial /\ told' = told /\ exists' = TRUE /\ windowClosed' = windowOver
        /\ raced' = (hubVersion' # versions[User]) /\ Offered(windowOver)
    BY <1>4 DEF Join, CreateHub
  <2>2. Quiet /\ ~hasLatest /\ candidates = {} /\ candidates' \subseteq told
    BY <1>0, <1>4, <2>1 DEF HubInv, Offered
  <2>3. windowClosed' => candidates' = {}
    BY <2>1, <2>2 DEF Offered
  <2>4. hubVersion' \in Version /\ versions[User] >= hubVersion'
    BY <1>0, <2>1, Facts DEF HubInv
  <2>5. SafeNow(hubVersion')
    BY <1>0, <2>2, <2>4, Facts, QuietIsSafe, SafeBelow
  <2>6. raced' \in BOOLEAN /\ (~raced' => hubVersion' = versions[User])
    BY <2>1, Zenon
  <2>7. SystemTypeOK'
    BY <1>0, <1>1, <1>2, <2>1, <2>2, <2>4, <2>6 DEF SystemTypeOK
  <2>8. HubInv'
    BY <1>0, <1>1, <1>3, <2>1, <2>2, <2>3, <2>4, <2>6 DEF HubInv, Quiet
  <2>9. SafeInv'
    BY <1>0, <1>1, <1>2, <1>3, <2>1, <2>4, <2>5, Facts DEF SafeInv, SafeNow
  <2> QED
    BY <1>2, <2>7, <2>8, <2>9 DEF SystemInv
<1>5. CASE exists
  <2>1. /\ UNCHANGED <<exists, hubVersion, windowClosed, raced>> /\ Offered(windowClosed)
        /\ IF windowClosed /\ hasLatest THEN Tell(hubVersion) ELSE UNCHANGED told
    BY <1>5 DEF Join, CreateHub
  <2>2. /\ candidates' \subseteq candidates \union told
        /\ windowClosed => candidates' = candidates
    BY <2>1 DEF Offered
  <2>3. versions[User] >= hubVersion /\ SafeNow(hubVersion)
    BY <1>0, <1>1, <1>5 DEF HubInv, SafeInv
  <2>4. /\ told' \subseteq Version \ {0} /\ \A w \in told' : w \in told \/ w = hubVersion
        /\ ~behind => \A w \in told' : versions[User] >= w /\ SafeNow(w)
    <3>1. CASE told' = told
      BY <1>0, <3>1 DEF HubInv, SafeInv, SystemTypeOK
    <3>2. CASE hasLatest /\ Tell(hubVersion)
      BY <1>0, <2>3, <3>2, <1>5, Facts, TellingKeeps DEF HubInv
    <3> QED
      BY <2>1, <3>1, <3>2
  <2>5. SystemTypeOK'
    BY <1>0, <1>1, <1>2, <2>1, <2>2, <2>4 DEF SystemTypeOK
  <2>6. HubInv'
    <3>1. ~windowClosed => Quiet
      BY <1>0 DEF HubInv
    <3>2. \A w \in told' : w \in told \/ hubVersion >= w
      BY <1>0, <2>4, Facts
    <3>3. exists /\ ~behind /\ ~raced => \A w \in told' : hubVersion >= w
      BY <1>0, <3>2 DEF HubInv
    <3> QED
      BY <1>0, <1>1, <1>3, <1>5, <2>1, <2>2, <2>3, <2>4, <3>1, <3>3 DEF HubInv, Quiet
  <2>7. SafeInv'
    BY <1>0, <1>1, <1>2, <1>3, <2>1, <2>3, <2>4, Facts DEF SafeInv, SafeNow
  <2> QED
    BY <1>2, <2>5, <2>6, <2>7 DEF SystemInv
<1> QED
  BY <1>4, <1>5

\* A look-up, a leave, the end of the window's time, and the removal of an empty hub.
LEMMA QuietHubKeeps ==
  ASSUME SystemInv, Lookup \/ Leave \/ WindowEnds \/ Reclaim \/ UNCHANGED systemVars
  PROVE  SystemInv'
<1>0. SystemTypeOK /\ HubInv /\ SafeInv
  BY DEF SystemInv
<1>1. UNCHANGED vars /\ UNCHANGED historyVars /\ online' \in BOOLEAN /\ windowOver' \in BOOLEAN
  BY <1>0 DEF Lookup, Leave, WindowEnds, Reclaim, systemVars, clientVars, SystemTypeOK
<1>2. /\ TypeOK' /\ WriterBetween' /\ StopInv'
      /\ \A v \in Version : SafeNow(v) => Safe(file', isDirty', flush', entries', v)
  BY <1>1, QuietStore DEF historyVars
<1>3. UNCHANGED <<versions, saver, told, sealed, cleanStop, behind>>
  BY <1>1 DEF vars, historyVars
<1>4. initial' \subseteq Version /\ \A v \in initial' : versions[User] >= v
  <2>1. \A v \in initial' : v \in initial \/ v = versions[User]
    BY DEF Lookup, Leave, WindowEnds, Reclaim, systemVars, clientVars
  <2> QED
    BY <1>0, <2>1, Facts DEF HubInv
<1>5. CASE Reclaim
  <2>1. /\ exists' = FALSE /\ hubVersion' = 0 /\ hasLatest' = FALSE
        /\ windowClosed' = FALSE /\ candidates' = {} /\ closing' = FALSE /\ raced' = FALSE
        /\ stage' = [s \in Appliers |-> "idle"] /\ next' = [s \in Appliers |-> 0] /\ Quiet
    BY <1>5 DEF Reclaim, NoHub, Quiet
  <2>2. SystemTypeOK'
    BY <1>0, <1>1, <1>2, <1>3, <1>4, <2>1, Facts DEF SystemTypeOK
  <2>3. \A s \in Appliers : saver'[s] # "merged" /\ stage'[s] = "idle"
    BY <1>0, <1>3, <2>1 DEF HubInv, Quiet
  <2>4. HubInv'
    BY <1>0, <1>3, <1>4, <2>1, <2>3 DEF HubInv, Quiet
  <2>5. SafeInv'
    BY <1>0, <1>2, <1>3, <2>1, <2>3, Facts DEF SafeInv, SafeNow
  <2> QED
    BY <1>2, <2>2, <2>4, <2>5 DEF SystemInv
<1>6. CASE ~Reclaim
  <2>1. UNCHANGED <<exists, hubVersion, hasLatest, windowClosed, candidates, closing, stage, next,
                    raced>>
    BY <1>6 DEF Lookup, Leave, WindowEnds, systemVars, hubVars
  <2>2. SystemTypeOK'
    BY <1>0, <1>1, <1>2, <1>3, <1>4, <2>1 DEF SystemTypeOK
  <2>3. HubInv'
    BY <1>0, <1>3, <1>4, <2>1 DEF HubInv, Quiet
  <2>4. SafeInv'
    BY <1>0, <1>2, <1>3, <2>1, Facts DEF SafeInv, SafeNow, Restoring
  <2> QED
    BY <1>2, <2>2, <2>3, <2>4 DEF SystemInv
<1> QED
  BY <1>5, <1>6

\* The welcome that closes the window.  If a client brought the highest version that was
\* told, the hub has it, and it is saved.
LEMMA WelcomeKeeps ==
  ASSUME SystemInv, Welcome
  PROVE  SystemInv'
<1>0. SystemTypeOK /\ HubInv /\ SafeInv
  BY DEF SystemInv
<1>1. /\ UNCHANGED vars /\ closing /\ stage[Closer] = "idle" /\ saver[Closer] = "idle"
      /\ UNCHANGED <<exists, hubVersion, hasLatest, windowOver, windowClosed, candidates, stage, next,
                     raced, initial, online, sealed, cleanStop>>
      /\ closing' = FALSE /\ behind' = (behind /\ ~\E v \in candidates : \A w \in told : v >= w)
      /\ IF online /\ hasLatest THEN Tell(hubVersion) ELSE UNCHANGED told
  BY DEF Welcome
<1>2. /\ TypeOK' /\ WriterBetween' /\ StopInv'
      /\ \A v \in Version : SafeNow(v) => Safe(file', isDirty', flush', entries', v)
  BY <1>1, QuietStore
<1>3. UNCHANGED <<versions, saver>> /\ ~Restoring /\ ~Restoring'
  BY <1>1 DEF vars, Restoring
<1>4. /\ exists /\ windowClosed /\ versions[User] >= hubVersion /\ SafeNow(hubVersion)
      /\ \A v \in candidates : hubVersion >= v
  BY <1>0, <1>1, <1>3 DEF HubInv, SafeInv, Quiet
<1>5. behind' \in BOOLEAN
  BY <1>1, Zenon
<1>6. ASSUME ~behind'
      PROVE  /\ \A w \in told : versions[User] >= w /\ SafeNow(w)
             /\ ~raced => \A w \in told : hubVersion >= w
  <2>1. CASE ~behind
    BY <1>0, <1>4, <2>1 DEF HubInv, SafeInv
  <2>2. CASE behind
    <3>1. PICK v \in candidates : \A w \in told : v >= w
      BY <1>1, <1>6, <2>2, Zenon
    <3>2. \A w \in told : hubVersion >= w /\ versions[User] >= w
      BY <1>0, <1>4, <3>1, Facts
    <3> QED
      BY <1>0, <1>4, <3>2, Facts, SafeBelow
  <2> QED
    BY <1>0, <2>1, <2>2 DEF SystemTypeOK
<1>7. told' \subseteq Version \ {0} /\ \A w \in told' : w \in told \/ w = hubVersion
  BY <1>0, <1>1, Facts DEF Tell, SystemTypeOK, HubInv
<1>8. SystemTypeOK'
  BY <1>0, <1>1, <1>2, <1>5, <1>7 DEF SystemTypeOK
<1>9. HubInv'
  <2>1. hubVersion >= hubVersion
    BY <1>0, Facts
  <2> QED
    BY <1>0, <1>1, <1>3, <1>4, <1>6, <1>7, <2>1 DEF HubInv, Quiet
<1>10. SafeInv'
  BY <1>0, <1>1, <1>2, <1>3, <1>4, <1>6, <1>7, Facts DEF SafeInv, SafeNow
<1> QED
  BY <1>2, <1>8, <1>9, <1>10 DEF SystemInv

\* ApplyClip reads the version its clip gets.  If the other goroutine is in ApplyClip, the
\* hub has raced.
LEMMA ApplyClipKeeps ==
  ASSUME SystemInv, NEW s \in Appliers, ApplyClip(s)
  PROVE  SystemInv'
<1>0. SystemTypeOK /\ HubInv /\ SafeInv
  BY DEF SystemInv
<1>1. /\ UNCHANGED vars /\ exists /\ windowClosed /\ ~Restoring
      /\ stage[s] = "idle" /\ saver[s] = "idle" /\ hubVersion < MaxVersion
      /\ next' = [next EXCEPT ![s] = hubVersion + 1] /\ stage' = [stage EXCEPT ![s] = "read"]
      /\ raced' = (raced \/ \E t \in Appliers \ {s} : stage[t] # "idle")
      /\ UNCHANGED <<exists, hubVersion, hasLatest, windowOver, windowClosed, candidates, closing,
                     initial, online, told, sealed, cleanStop, behind>>
  BY DEF ApplyClip, clientVars, historyVars
<1>2. /\ TypeOK' /\ WriterBetween' /\ StopInv'
      /\ \A v \in Version : SafeNow(v) => Safe(file', isDirty', flush', entries', v)
  BY <1>1, QuietStore
<1>3. UNCHANGED <<versions, saver>>
  BY <1>1 DEF vars
<1>4. hubVersion + 1 \in Version /\ hubVersion + 1 > 0
  BY <1>0, <1>1, Facts, StoreAssumption DEF Version
<1>5. raced' \in BOOLEAN /\ (~raced' => ~raced /\ \A t \in Appliers \ {s} : stage[t] = "idle")
  BY <1>1, Zenon
<1>6. /\ next'[s] = hubVersion + 1 /\ stage'[s] = "read"
      /\ \A t \in Appliers \ {s} : next'[t] = next[t] /\ stage'[t] = stage[t]
      /\ stage' \in [Appliers -> {"idle", "read", "saving"}] /\ next' \in [Appliers -> Version]
  BY <1>0, <1>1, <1>4 DEF SystemTypeOK
<1>7. SystemTypeOK'
  BY <1>0, <1>1, <1>2, <1>5, <1>6 DEF SystemTypeOK
<1>8. \A v \in candidates : hubVersion + 1 > v
  BY <1>0, <1>1, Facts DEF HubInv
<1>9. HubInv'
  BY <1>0, <1>1, <1>3, <1>4, <1>5, <1>6, <1>8 DEF HubInv, Quiet
<1>10. SafeInv'
  BY <1>0, <1>1, <1>2, <1>3, <1>6, Facts DEF SafeInv, SafeNow, Restoring
<1> QED
  BY <1>2, <1>7, <1>9, <1>10 DEF SystemInv

\* The new version is installed and told once it is saved.
LEMMA InstallKeeps ==
  ASSUME SystemInv, NEW s \in Appliers, Install(s)
  PROVE  SystemInv'
<1>0. SystemTypeOK /\ HubInv /\ SafeInv
  BY DEF SystemInv
<1>1. /\ UNCHANGED vars /\ stage[s] = "saving" /\ saver[s] = "idle"
      /\ next' = [next EXCEPT ![s] = 0] /\ stage' = [stage EXCEPT ![s] = "idle"]
      /\ hubVersion' = next[s] /\ hasLatest' = TRUE
      /\ IF online THEN Tell(next[s]) ELSE UNCHANGED told
      /\ UNCHANGED <<exists, windowOver, windowClosed, candidates, closing, raced, initial, online,
                     sealed, cleanStop, behind>>
  BY DEF Install
<1>2. /\ TypeOK' /\ WriterBetween' /\ StopInv'
      /\ \A v \in Version : SafeNow(v) => Safe(file', isDirty', flush', entries', v)
  BY <1>1, QuietStore
<1>3. UNCHANGED <<versions, saver>>
  BY <1>1 DEF vars
<1>4. /\ exists /\ windowClosed /\ next[s] \in Version /\ next[s] > 0
      /\ versions[User] >= next[s] /\ SafeNow(next[s])
      /\ \A v \in candidates : next[s] > v
  BY <1>0, <1>1, Facts DEF HubInv, SafeInv, Quiet
<1>5. /\ told' \subseteq Version \ {0} /\ \A w \in told' : w \in told \/ w = next[s]
      /\ ~behind => \A w \in told' : versions[User] >= w /\ SafeNow(w)
  <2>1. CASE told' = told
    BY <1>0, <2>1 DEF HubInv, SafeInv, SystemTypeOK
  <2>2. CASE Tell(next[s])
    BY <1>4, <2>2, TellingKeeps
  <2> QED
    BY <1>1, <2>1, <2>2
<1>6. /\ stage'[s] = "idle"
      /\ \A t \in Appliers \ {s} : next'[t] = next[t] /\ stage'[t] = stage[t]
      /\ stage' \in [Appliers -> {"idle", "read", "saving"}] /\ next' \in [Appliers -> Version]
  BY <1>0, <1>1, Facts DEF SystemTypeOK
<1>7. ~raced => /\ \A t \in Appliers \ {s} : stage[t] = "idle"
                /\ next[s] = hubVersion + 1
  BY <1>0, <1>1 DEF HubInv
<1>8. SystemTypeOK'
  BY <1>0, <1>1, <1>2, <1>4, <1>5, <1>6 DEF SystemTypeOK
<1>9. HubInv'
  <2>1. ~behind /\ ~raced => \A w \in told' : next[s] >= w
    BY <1>0, <1>4, <1>5, <1>7, Facts DEF HubInv
  <2>2. \A v \in candidates : next[s] >= v
    BY <1>0, <1>4, Facts
  <2> QED
    BY <1>0, <1>1, <1>3, <1>4, <1>5, <1>6, <1>7, <2>1, <2>2 DEF HubInv, Quiet
<1>10. SafeInv'
  BY <1>0, <1>1, <1>2, <1>3, <1>4, <1>5, <1>6, Facts DEF SafeInv, SafeNow
<1> QED
  BY <1>2, <1>8, <1>9, <1>10 DEF SystemInv

-----------------------------------------------------------------------------
(***************************************************************************)
(* Saves.                                                                  *)
(***************************************************************************)

\* A save leaves the flushes and the stop alone.
LEMMA SaveKeepsStop ==
  ASSUME SystemInv, UNCHANGED <<file, flush, entries, phase, loopDone, sealed, cleanStop>>
  PROVE  StopInv'
BY DEF SystemInv, StopInv

\* What a merge by one of the appliers keeps; what is safe stays so.
LEMMA MergeKeeps ==
  ASSUME SystemInv, NEW s \in Appliers, NEW v \in Version \ {0}, SaveMerge(s, User, v)
  PROVE  /\ TypeOK' /\ WriterBetween' /\ versions'[User] \in Version
         /\ versions'[User] >= v /\ versions'[User] >= versions[User]
         /\ saver[s] = "idle" /\ saver'[s] = "merged"
         /\ \A t \in Appliers \ {s} : saver'[t] = saver[t]
         /\ UNCHANGED <<file, isDirty, flush, entries, phase, loopDone>>
         /\ \A w \in Version : SafeNow(w) => Safe(file', isDirty', flush', entries', w)
<1>0. SystemTypeOK /\ s \in Savers /\ User \in Users
  BY RecoveryAssumption DEF SystemInv
<1>1. LiveStep
  BY <1>0 DEF LiveStep
<1>2. TypeOK' /\ WriterBetween' /\ versions'[User] >= versions[User]
  BY <1>1, LiveStore
<1>3. versions'[User] = MaxMerge(versions[User], v)
  BY <1>0 DEF SystemTypeOK, TypeOK, SaveMerge
<1>4. versions'[User] \in Version /\ versions'[User] >= v
  BY <1>0, <1>3, Facts DEF MaxMerge
<1>5. /\ saver[s] = "idle" /\ saver' = [saver EXCEPT ![s] = "merged"]
      /\ UNCHANGED <<file, isDirty, flush, entries, phase, loopDone>>
  BY DEF SaveMerge
<1>6. saver'[s] = "merged" /\ \A t \in Appliers \ {s} : saver'[t] = saver[t]
  BY <1>0, <1>5, RecoveryAssumption DEF SystemTypeOK, TypeOK
<1> QED
  BY <1>2, <1>4, <1>5, <1>6 DEF SafeNow

\* CloseRecoveryWindow: what it restores is in the store and above every candidate.
LEMMA CloseWindowKeeps ==
  ASSUME SystemInv, CloseWindow
  PROVE  SystemInv'
<1>0. SystemTypeOK /\ HubInv /\ SafeInv /\ Closer \in Appliers
  BY DEF SystemInv, Appliers
<1>1. /\ exists /\ ~windowClosed /\ windowClosed' = TRUE /\ closing' = TRUE
      /\ UNCHANGED <<exists, windowOver, candidates, stage, next, raced, initial, online, told, sealed,
                     cleanStop, behind>>
  BY DEF CloseWindow, clientVars, historyVars
<1>2. Winner \in Version /\ \A v \in candidates : Winner >= v
  BY <1>0, WinnerIsHighest
<1>3. Quiet /\ versions[User] >= hubVersion
  BY <1>0, <1>1 DEF HubInv
<1>4. SafeNow(versions[User]) /\ SafeNow(hubVersion) /\ \A s \in Appliers : saver[s] # "merged"
  <2>1. \A s \in Appliers : saver[s] # "merged"
    BY <1>0, <1>3 DEF HubInv, Quiet
  <2> QED
    BY <1>0, <1>3, <2>1, Facts, QuietIsSafe, SafeBelow
<1>5. CASE Winner > hubVersion
  <2>1. /\ SaveMerge(Closer, User, Winner) /\ hubVersion' = Winner /\ hasLatest' = TRUE
        /\ Winner \in Version \ {0} /\ Winner > 0
    BY <1>0, <1>2, <1>5, Facts DEF CloseWindow
  <2>2. /\ TypeOK' /\ WriterBetween' /\ versions'[User] \in Version
        /\ versions'[User] >= Winner /\ versions'[User] >= versions[User]
        /\ saver'[Closer] = "merged" /\ \A t \in Appliers \ {Closer} : saver'[t] = saver[t]
        /\ UNCHANGED <<file, isDirty, flush, entries, phase, loopDone>>
        /\ \A w \in Version : SafeNow(w) => Safe(file', isDirty', flush', entries', w)
    BY <1>0, <2>1, MergeKeeps
  <2>3. SystemTypeOK'
    BY <1>0, <1>1, <2>1, <2>2 DEF SystemTypeOK
  <2>4. /\ \A v \in Version : versions[User] >= v => versions'[User] >= v
        /\ \A v \in Version : hubVersion >= v => Winner >= v
    BY <1>0, <1>2, <1>5, <2>2, Facts
  <2>5. HubInv'
    <3>1. \A s \in Appliers : stage'[s] = "idle"
      BY <1>1, <1>3 DEF Quiet
    <3>2. \A s \in Appliers : saver'[s] = "merged" => s = Closer
      BY <1>4, <2>2
    <3>3. /\ \A v \in initial' : versions'[User] >= v
          /\ ~behind' => \A v \in told' : versions'[User] >= v
          /\ ~behind' /\ ~raced' => \A v \in told' : hubVersion' >= v
      BY <1>0, <1>1, <2>1, <2>4, Facts DEF HubInv
    <3> QED
      BY <1>0, <1>1, <1>2, <2>1, <2>2, <3>1, <3>2, <3>3 DEF HubInv, Quiet
  <2>6. SafeInv'
    <3>1. Restoring'
      BY <1>1, <1>0, <1>3, <2>2 DEF Restoring, Quiet
    <3>2. \A s \in Appliers : stage'[s] = "idle"
      BY <1>1, <1>3 DEF Quiet
    <3> QED
      BY <1>0, <1>1, <2>2, <2>4, <3>1, <3>2, Facts DEF SafeInv, SafeNow
  <2> QED
    BY <1>1, <2>2, <2>3, <2>5, <2>6, SaveKeepsStop DEF SystemInv
<1>6. CASE Winner <= hubVersion
  <2>0. ~(Winner > hubVersion)
    BY <1>0, <1>2, <1>6, Facts
  <2>1. /\ UNCHANGED vars /\ hubVersion' = hubVersion
        /\ hasLatest' = (hasLatest \/ (Winner # 0 /\ Winner = hubVersion))
    BY <2>0 DEF CloseWindow
  <2>2. /\ TypeOK' /\ WriterBetween' /\ StopInv'
        /\ \A v \in Version : SafeNow(v) => Safe(file', isDirty', flush', entries', v)
    BY <1>1, <2>1, QuietStore
  <2>3. hasLatest' \in BOOLEAN /\ (hasLatest' => hasLatest \/ hubVersion # 0)
    BY <2>1, Zenon
  <2>4. hasLatest' => hubVersion > 0
    BY <1>0, <2>3, Facts DEF HubInv
  <2>5. UNCHANGED <<versions, saver>>
    BY <2>1 DEF vars
  <2>6. SystemTypeOK'
    BY <1>0, <1>1, <2>1, <2>2, <2>3 DEF SystemTypeOK
  <2>7. HubInv'
    <3>1. \A v \in candidates : hubVersion >= v
      BY <1>0, <1>2, <1>6, Facts
    <3> QED
      BY <1>0, <1>1, <1>3, <1>4, <2>1, <2>4, <2>5, <3>1 DEF HubInv, Quiet
  <2>8. SafeInv'
    BY <1>0, <1>1, <1>4, <2>1, <2>2, <2>5, Facts DEF SafeInv, SafeNow
  <2> QED
    BY <2>2, <2>6, <2>7, <2>8 DEF SystemInv
<1> QED
  BY <1>0, <1>2, <1>5, <1>6, Facts

\* ApplyClip saves its version before the hub has it.
LEMMA ApplySaveKeeps ==
  ASSUME SystemInv, NEW s \in Appliers, ApplySave(s)
  PROVE  SystemInv'
<1>0. SystemTypeOK /\ HubInv /\ SafeInv
  BY DEF SystemInv
<1>1. /\ stage[s] = "read" /\ stage' = [stage EXCEPT ![s] = "saving"] /\ SaveMerge(s, User, next[s])
      /\ UNCHANGED <<exists, hubVersion, hasLatest, windowOver, windowClosed, candidates, closing, next,
                     raced, initial, online, told, sealed, cleanStop, behind>>
  BY DEF ApplySave, clientVars, historyVars
<1>2. next[s] \in Version \ {0} /\ exists /\ windowClosed
  BY <1>0, <1>1, Facts DEF HubInv, Quiet
<1>3. /\ TypeOK' /\ WriterBetween' /\ versions'[User] \in Version
      /\ versions'[User] >= next[s] /\ versions'[User] >= versions[User]
      /\ saver[s] = "idle" /\ saver'[s] = "merged"
      /\ \A t \in Appliers \ {s} : saver'[t] = saver[t]
      /\ UNCHANGED <<file, isDirty, flush, entries, phase, loopDone>>
      /\ \A w \in Version : SafeNow(w) => Safe(file', isDirty', flush', entries', w)
  BY <1>1, <1>2, MergeKeeps
<1>4. /\ stage'[s] = "saving" /\ \A t \in Appliers \ {s} : stage'[t] = stage[t]
      /\ stage' \in [Appliers -> {"idle", "read", "saving"}]
  BY <1>0, <1>1 DEF SystemTypeOK
<1>5. SystemTypeOK'
  BY <1>0, <1>1, <1>3, <1>4 DEF SystemTypeOK
<1>6. \A v \in Version : versions[User] >= v => versions'[User] >= v
  BY <1>0, <1>3, Facts
<1>7. HubInv'
  <2>1. /\ \A v \in initial' : versions'[User] >= v
        /\ ~behind' => \A v \in told' : versions'[User] >= v
        /\ versions'[User] >= hubVersion'
    BY <1>0, <1>1, <1>2, <1>6, Facts DEF HubInv
  <2>2. \A t \in Appliers : stage'[t] = "saving" => versions'[User] >= next'[t]
    BY <1>0, <1>1, <1>3, <1>4, <1>6, Facts DEF HubInv
  <2>3. /\ \A t \in Appliers : saver'[t] = "merged" =>
             stage'[t] = "saving" \/ (t = Closer /\ closing' /\ stage'[t] = "idle")
        /\ \A t \in Appliers : stage'[t] # "idle" <=> stage[t] # "idle"
    BY <1>0, <1>1, <1>3, <1>4 DEF HubInv
  <2> QED
    BY <1>0, <1>1, <1>2, <2>1, <2>2, <2>3 DEF HubInv, Quiet
<1>8. SafeInv'
  <2>1. ~Restoring' => ~Restoring
    BY <1>1, <1>3, <1>4, <1>0 DEF Restoring, Appliers
  <2> QED
    BY <1>0, <1>1, <1>3, <1>4, <1>6, <2>1, Facts DEF SafeInv, SafeNow
<1> QED
  BY <1>1, <1>3, <1>5, <1>7, <1>8, SaveKeepsStop DEF SystemInv

-----------------------------------------------------------------------------
(***************************************************************************)
(* Steps of the store that leave the hub alone.                            *)
(***************************************************************************)

\* What they keep, whatever they seal: a save may return, and then all is to be written.
LEMMA StoreKeepsHub ==
  ASSUME SystemInv, LiveStep, UNCHANGED <<hubVars, windowOver, initial, told, behind>>,
         versions' = versions,
         \A s \in Appliers : saver'[s] = saver[s] \/ (saver'[s] = "idle" /\ isDirty'),
         online' \in BOOLEAN, cleanStop' \in BOOLEAN,
         sealed' = sealed \/ sealed' = {} \/ (~behind /\ sealed' = told)
  PROVE  SystemTypeOK' /\ WriterBetween' /\ HubInv' /\ SafeInv'
<1>0. SystemTypeOK /\ HubInv /\ SafeInv
  BY DEF SystemInv
<1>1. /\ TypeOK' /\ WriterBetween'
      /\ \A v \in Version :
           versions[User] >= v /\ SafeNow(v) => Safe(file', isDirty', flush', entries', v)
  BY LiveStore
<1>2. UNCHANGED <<exists, hubVersion, hasLatest, windowClosed, candidates, closing, stage, next, raced>>
  BY DEF hubVars
<1>3. SystemTypeOK'
  BY <1>0, <1>1, <1>2 DEF SystemTypeOK
<1>4. HubInv'
  BY <1>0, <1>2 DEF HubInv, Quiet
<1>5. CASE isDirty'
  <2>1. \A v : Safe(file', isDirty', flush', entries', v)
    BY <1>5 DEF Safe
  <2>2. \A v \in sealed' : versions[User] >= v
    BY <1>0 DEF SafeInv, HubInv
  <2> QED
    BY <1>1, <1>2, <1>3, <1>4, <2>1, <2>2 DEF SafeInv, SafeNow
<1>6. CASE \A s \in Appliers : saver'[s] = saver[s]
  <2>1. Restoring' <=> Restoring
    BY <1>2, <1>6 DEF Restoring, Appliers
  <2>2. /\ (\A s \in Appliers : saver[s] = "idle")
             => Safe(file', isDirty', flush', entries', versions[User])
        /\ exists /\ ~Restoring => Safe(file', isDirty', flush', entries', hubVersion)
        /\ \A s \in Appliers : stage[s] = "saving" /\ saver[s] = "idle"
             => Safe(file', isDirty', flush', entries', next[s])
        /\ ~behind => \A v \in told : Safe(file', isDirty', flush', entries', v)
        /\ \A v \in sealed : Safe(file', isDirty', flush', entries', v) /\ versions[User] >= v
    <3>1. versions[User] >= versions[User]
      BY <1>0, Facts
    <3> QED
      BY <1>0, <1>1, <3>1, Facts DEF SafeInv, HubInv
  <2>3. \A v \in sealed' : Safe(file', isDirty', flush', entries', v) /\ versions[User] >= v
    BY <1>0, <2>2 DEF HubInv
  <2>4. SafeInv'
    BY <1>2, <1>6, <2>1, <2>2, <2>3 DEF SafeInv, SafeNow
  <2> QED
    BY <1>1, <1>3, <1>4, <2>4
<1> QED
  BY <1>5, <1>6

\* SaveVersion sets the dirty flag and returns.
LEMMA SaveMarkKeeps ==
  ASSUME SystemInv, NEW s \in Savers, SaveMark(s),
         UNCHANGED <<hubVars, windowOver, clientVars, historyVars>>
  PROVE  SystemInv'
<1>0. SystemTypeOK /\ Appliers \subseteq Savers
  BY RecoveryAssumption DEF SystemInv
<1>1. /\ UNCHANGED <<hubVars, windowOver, initial, online, told, sealed, cleanStop, behind>>
      /\ UNCHANGED <<versions, file, flush, entries, phase, loopDone>> /\ isDirty' = TRUE
      /\ saver' = [saver EXCEPT ![s] = "idle"]
  BY DEF clientVars, historyVars, SaveMark
<1>2. \A t \in Appliers : saver'[t] = saver[t] \/ (saver'[t] = "idle" /\ isDirty')
  BY <1>0, <1>1 DEF SystemTypeOK, TypeOK
<1>3. LiveStep
  BY DEF LiveStep
<1>4. online' \in BOOLEAN /\ cleanStop' \in BOOLEAN
  BY <1>0, <1>1 DEF SystemTypeOK
<1>5. SystemTypeOK' /\ WriterBetween' /\ HubInv' /\ SafeInv'
  BY <1>1, <1>2, <1>3, <1>4, StoreKeepsHub
<1> QED
  BY <1>1, <1>5, SaveKeepsStop DEF SystemInv

\* Flush up to its copy.  The Flush of Stop copies what is sealed.
LEMMA FlushKeeps ==
  ASSUME SystemInv, NEW f \in Flushers, FlushSwap(f) \/ FlushSnapshot(f),
         UNCHANGED <<hubVars, windowOver, clientVars, historyVars>>
  PROVE  SystemInv'
<1>0. SystemTypeOK /\ StopInv /\ SafeInv /\ TypeOK
  BY DEF SystemInv, SystemTypeOK
<1>1. /\ UNCHANGED <<hubVars, windowOver, initial, online, told, sealed, cleanStop, behind>>
      /\ UNCHANGED <<versions, file, saver, phase, loopDone>>
  BY DEF clientVars, historyVars, FlushSwap, FlushSnapshot
<1>2. LiveStep
  BY DEF LiveStep, FlushStep
<1>3. online' \in BOOLEAN /\ cleanStop' \in BOOLEAN
  BY <1>0, <1>1 DEF SystemTypeOK
<1>4. SystemTypeOK' /\ WriterBetween' /\ HubInv' /\ SafeInv'
  BY <1>1, <1>2, <1>3, StoreKeepsHub
<1>5. CASE FlushSwap(f)
  <2>1. MayFlush(f) /\ flush' = [flush EXCEPT ![f] = "swapped"] /\ entries' = entries
    BY <1>5 DEF FlushSwap
  <2>2. StopInv'
    BY <1>0, <1>1, <2>1 DEF StopInv, MayFlush, Flushers, TypeOK
  <2> QED
    BY <1>4, <2>2 DEF SystemInv
<1>6. CASE FlushSnapshot(f)
  <2>1. /\ flush[f] = "swapped" /\ flush' = [flush EXCEPT ![f] = "writing"]
        /\ entries' = [entries EXCEPT ![f] = versions]
    BY <1>6 DEF FlushSnapshot
  <2>2. \A v \in sealed : versions[User] >= v
    BY <1>0 DEF SafeInv
  <2>3. StopInv'
    BY <1>0, <1>1, <2>1, <2>2 DEF StopInv, Flushers, TypeOK
  <2> QED
    BY <1>4, <2>3 DEF SystemInv
<1> QED
  BY <1>5, <1>6

\* Flush returns.  After the one of Stop the file has what is sealed, unless it failed.
LEMMA FlushReturnsKeeps ==
  ASSUME SystemInv, NEW f \in Flushers, FlushReturns(f)
  PROVE  SystemInv'
<1>0. SystemTypeOK /\ StopInv /\ SafeInv /\ TypeOK
  BY DEF SystemInv, SystemTypeOK
<1>1. /\ UNCHANGED <<hubVars, windowOver, initial, online, told, sealed, behind>>
      /\ UNCHANGED <<versions, saver, loopDone>> /\ Returned(f)
  BY DEF FlushReturns, clientVars, FlushClean, FlushWrite, FlushFail
<1>2. LiveStep
  BY DEF LiveStep, FlushStep, FlushReturns
<1>3. cleanStop' \in BOOLEAN
  BY <1>0, Zenon DEF FlushReturns, SystemTypeOK
<1>4. SystemTypeOK' /\ WriterBetween' /\ HubInv' /\ SafeInv'
  <2>1. online' \in BOOLEAN
    BY <1>0, <1>1 DEF SystemTypeOK
  <2> QED
    BY <1>1, <1>2, <1>3, <2>1, StoreKeepsHub
<1>5. ~cleanStop
  <2>1. MayFlush(f) \/ flush[f] = "writing"
    BY DEF FlushReturns, FlushClean, FlushWrite, FlushFail
  <2> QED
    BY <1>0, <2>1 DEF StopInv, MayFlush, Flushers
<1>6. /\ f = "main" /\ phase = "shutdown" => phase' = "stop"
      /\ f = "main" /\ phase = "final" => phase' = "stopped"
      /\ f # "main" \/ phase \notin {"shutdown", "final"} => phase' = phase
  BY <1>1 DEF Returned
<1>7. CASE FlushClean(f)
  <2>1. /\ MayFlush(f) /\ ~isDirty /\ UNCHANGED <<file, flush, entries>>
        /\ cleanStop' => f = "main" /\ phase = "final"
    BY <1>5, <1>7 DEF FlushReturns, FlushClean, FlushWrite, FlushFail, MayFlush
  <2>2. f = "main" /\ phase = "final" => \A v \in sealed : file[User] >= v
    BY <1>0, <2>1 DEF StopInv, SafeInv, SafeNow, Safe, MayFlush, Flushers
  <2>3. StopInv'
    BY <1>0, <1>1, <1>6, <2>1, <2>2 DEF StopInv, MayFlush, Flushers
  <2> QED
    BY <1>4, <2>3 DEF SystemInv
<1>8. CASE FlushWrite(f) \/ FlushFail(f)
  <2>1. /\ flush[f] = "writing" /\ flush' = [flush EXCEPT ![f] = "idle"]
        /\ entries' = [entries EXCEPT ![f] = Zero]
        /\ cleanStop' => f = "main" /\ phase = "final" /\ file' = entries[f]
    <3>1. /\ flush[f] = "writing" /\ flush' = [flush EXCEPT ![f] = "idle"] /\ ~FlushClean(f)
          /\ entries' = [entries EXCEPT ![f] = Zero]
      BY <1>8 DEF FlushClean, FlushWrite, FlushFail, MayFlush
    <3>2. CASE FlushWrite(f)
      <4>1. file' = entries[f]
        BY <3>2 DEF FlushWrite
      <4>2. cleanStop' => f = "main" /\ phase = "final"
        BY <1>5, Zenon DEF FlushReturns
      <4> QED
        BY <3>1, <4>1, <4>2
    <3>3. CASE ~FlushWrite(f)
      <4>1. cleanStop' = cleanStop
        BY <3>1, <3>3 DEF FlushReturns
      <4>2. ~cleanStop'
        BY <1>5, <4>1, Zenon
      <4> QED
        BY <3>1, <4>2
    <3> QED
      BY <3>2, <3>3
  <2>2. StopInv'
    BY <1>0, <1>1, <1>6, <2>1 DEF StopInv, Flushers, TypeOK
  <2> QED
    BY <1>4, <2>2 DEF SystemInv
<1> QED
  BY <1>7, <1>8 DEF FlushReturns

\* The main goroutine shuts down, and Stop waits for the flush loop before it seals.
LEMMA StoppingKeeps ==
  ASSUME SystemInv,
         \/ /\ ServeFails \/ StopClose \/ LoopExit
            /\ UNCHANGED <<hubVars, windowOver, clientVars, historyVars>>
         \/ CancelAll \/ StopFlushes
  PROVE  SystemInv'
<1>0. SystemTypeOK /\ StopInv /\ TypeOK
  BY DEF SystemInv, SystemTypeOK
<1>1. /\ UNCHANGED <<hubVars, windowOver, initial, told, behind, cleanStop>>
      /\ UNCHANGED <<versions, file, isDirty, flush, entries, saver>>
  BY DEF clientVars, historyVars, ServeFails, StopClose, LoopExit, CancelAll, StopFlushes, Shutdown,
         StopWait
<1>2. LiveStep
  BY DEF LiveStep, CancelAll, StopFlushes
<1>3. online' \in BOOLEAN /\ cleanStop' \in BOOLEAN
  BY <1>0, <1>1 DEF SystemTypeOK, CancelAll, StopFlushes, clientVars
<1>4. sealed' = sealed \/ sealed' = {} \/ (~behind /\ sealed' = told)
  BY DEF historyVars, CancelAll, StopFlushes
<1>5. SystemTypeOK' /\ WriterBetween' /\ HubInv' /\ SafeInv'
  BY <1>1, <1>2, <1>3, <1>4, StoreKeepsHub
<1>6. StopInv'
  <2>1. CASE ServeFails \/ StopClose \/ LoopExit \/ CancelAll
    <3>1. sealed' = sealed
      BY <2>1 DEF historyVars, CancelAll, StopFlushes, ServeFails, StopClose, LoopExit, StopWait
    <3> QED
      BY <1>0, <1>1, <2>1, <3>1 DEF StopInv, ServeFails, StopClose, LoopExit, CancelAll, Shutdown
  <2>2. CASE StopFlushes
    BY <1>0, <1>1, <2>2 DEF StopInv, StopFlushes, StopWait
  <2> QED
    BY <2>1, <2>2
<1> QED
  BY <1>5, <1>6 DEF SystemInv

\* A new process starts from the file; it is behind if the file lacks what was told.
LEMMA NewProcessKeeps ==
  ASSUME SystemInv, NewProcess
  PROVE  SystemInv'
<1>0. SystemTypeOK /\ TypeOK /\ WriterBetween
  BY DEF SystemInv, SystemTypeOK
<1>1. /\ versions' = file /\ file' = file /\ isDirty' = FALSE
      /\ flush' = [f \in Flushers |-> "idle"] /\ saver' = [s \in Savers |-> "idle"]
      /\ phase' = "serving" /\ loopDone' = FALSE
      /\ exists' = FALSE /\ hubVersion' = 0 /\ hasLatest' = FALSE /\ windowOver' = FALSE
      /\ windowClosed' = FALSE /\ candidates' = {} /\ closing' = FALSE /\ raced' = FALSE
      /\ stage' = [s \in Appliers |-> "idle"] /\ next' = [s \in Appliers |-> 0]
      /\ initial' = {} /\ online' = FALSE
      /\ sealed' = {} /\ cleanStop' = FALSE /\ told' = told
      /\ behind' = (\E v \in told : file[User] < v)
  BY DEF NewProcess, Restart, NoHub
<1>2. TypeOK' /\ WriterBetween'
  BY <1>0, TypeStep, WriterStep DEF NewProcess, Next
<1>3. /\ file[User] \in Version /\ told \subseteq Version /\ 0 \in Version
      /\ \A v \in Version : v \in Int
  BY <1>0, Facts, Numbers
<1>4. behind' \in BOOLEAN /\ (~behind' => \A v \in told : ~(file[User] < v))
  BY <1>1, Zenon
<1>5. ~behind' => \A v \in told : file[User] >= v
  BY <1>3, <1>4
<1>6. SystemTypeOK'
  BY <1>0, <1>1, <1>2, <1>3, <1>4 DEF SystemTypeOK
<1>7. /\ \A s \in Appliers : saver'[s] = "idle" /\ stage'[s] = "idle"
      /\ flush'["main"] = "idle" /\ flush'["loop"] = "idle"
  BY <1>1, RecoveryAssumption DEF Flushers
<1>8. HubInv'
  BY <1>1, <1>5, <1>7 DEF HubInv, Quiet
<1>9. SafeInv'
  BY <1>1, <1>3, <1>5, <1>7 DEF SafeInv, SafeNow, Safe
<1>10. StopInv'
  BY <1>1, <1>7 DEF StopInv
<1> QED
  BY <1>2, <1>6, <1>8, <1>9, <1>10 DEF SystemInv

-----------------------------------------------------------------------------
\* A server without a state file that has told nobody anything.
LEMMA SystemInitEstablishes == SystemInit => SystemInv
<1> SUFFICES ASSUME SystemInit PROVE SystemInv
  OBVIOUS
<1>1. TypeOK /\ WriterBetween
  BY TypeInit, WriterInit DEF SystemInit
<1>2. 0 \in Version /\ versions[User] = 0 /\ file[User] = 0
  BY StoreAssumption, RecoveryAssumption DEF SystemInit, Init, Zero, Version
<1>3. SystemTypeOK
  BY <1>1, <1>2 DEF SystemInit, SystemTypeOK
<1>4. /\ \A s \in Appliers : saver[s] = "idle" /\ stage[s] = "idle"
      /\ flush["main"] = "idle" /\ flush["loop"] = "idle"
  BY RecoveryAssumption DEF SystemInit, Init, Flushers
<1>5. HubInv
  BY <1>2, <1>4 DEF SystemInit, HubInv, Quiet
<1>6. SafeInv
  BY <1>2, <1>4 DEF SystemInit, SafeInv, SafeNow, Safe
<1>7. StopInv
  BY <1>4 DEF SystemInit, Init, StopInv
<1> QED
  BY <1>1, <1>3, <1>5, <1>6, <1>7 DEF SystemInv

\* Every step of clients, hub, store and process keeps the invariant.
LEMMA SystemStepKeeps == SystemInv /\ [SystemNext]_systemVars => SystemInv'
<1> SUFFICES ASSUME SystemInv, [SystemNext]_systemVars PROVE SystemInv'
  OBVIOUS
<1>1. CASE StoreStep
  <2>1. UNCHANGED <<hubVars, windowOver, clientVars, historyVars>>
    BY <1>1 DEF StoreStep
  <2> QED
    BY <1>1, <2>1, SaveMarkKeeps, FlushKeeps, StoppingKeeps DEF StoreStep
<1> QED
  BY <1>1, JoinKeeps, QuietHubKeeps, WelcomeKeeps, InstallKeeps, CloseWindowKeeps, ApplyClipKeeps,
     ApplySaveKeeps, FlushReturnsKeeps, StoppingKeeps, NewProcessKeeps DEF SystemNext

\* The hub, its clients and the history keep their types over all lives of the process.
THEOREM SystemTypes == SystemSpec => []SystemTypeOK
<1>1. SystemInv => SystemTypeOK
  BY DEF SystemInv
<1> QED
  BY <1>1, SystemInitEstablishes, SystemStepKeeps, PTL DEF SystemSpec

\* The composition with hub, clients and process is still a store: what is proved of
\* RuntimeStateStore holds of it, that it implements the ledger included.
THEOREM SystemIsStore == SystemSpec => Spec /\ ImplementsLedger /\ []NothingForgotten
<1>1. SystemInit => Init
  BY DEF SystemInit
<1>2. SystemSpec => []SystemInv
  BY SystemInitEstablishes, SystemStepKeeps, PTL DEF SystemSpec
<1>3. SystemSpec => Spec
  BY <1>1, <1>2, StepIsStoreStep, PTL DEF SystemSpec, Spec
<1> QED
  BY <1>3, StoreImplementsLedger, NeverForgotten, PTL

\* Over crashes, stops and reclaimed hubs, a hub that gives out versions never repeats one
\* that a client was told, with three exceptions: the file lacked it and no client brought
\* it back; the hub was made from a version read before another hub gave out more; its
\* closer and its user loop were in ApplyClip at the same time.
THEOREM VersionsAreNotReused == SystemSpec => []NoVersionReused
<1>1. SystemInv => NoVersionReused
  BY DEF SystemInv, HubInv, NoVersionReused
<1> QED
  BY <1>1, SystemInitEstablishes, SystemStepKeeps, PTL DEF SystemSpec

\* A stop whose last write did not fail leaves in the file every version that clients
\* were told before Stop went on to its Flush, whatever the flush loop was doing.
THEOREM StopLosesNothing == SystemSpec => []StopKeepsTold
<1>1. SystemInv => StopKeepsTold
  BY DEF SystemInv, StopInv, StopKeepsTold
<1> QED
  BY <1>1, SystemInitEstablishes, SystemStepKeeps, PTL DEF SystemSpec
=============================================================================
