----------------------- MODULE RuntimeStateStoreProofs -----------------------
(***************************************************************************)
(* Proofs about RuntimeStateStore, for any users, any number of goroutines *)
(* that save, and any bound on versions.                                   *)
(***************************************************************************)
EXTENDS RuntimeStateStore, TLAPS

\* SaveVersion's merge never lowers a version and stays within the bound.
LEMMA MaxMergeUp ==
  ASSUME NEW old \in Version, NEW v \in Version
  PROVE  MaxMerge(old, v) \in Version /\ MaxMerge(old, v) >= old
BY StoreAssumption DEF MaxMerge, Version

\* An empty state file is a map of versions.
LEMMA ZeroType == Zero \in [Users -> Version]
BY StoreAssumption DEF Zero, Version

\* NewStore builds a state of the declared types.
LEMMA TypeInit == Init => TypeOK
<1> SUFFICES ASSUME Init PROVE TypeOK
  OBVIOUS
<1>1. entries \in [Flushers -> [Users -> Version]]
  BY ZeroType DEF Init
<1> QED
  BY <1>1, ZeroType DEF Init, TypeOK

\* No step of SaveVersion, Flush, Stop or a restart leaves the declared types.
LEMMA TypeStep == TypeOK /\ [Next]_vars => TypeOK'
<1> SUFFICES ASSUME TypeOK, [Next]_vars
             PROVE  TypeOK'
  OBVIOUS
<1> USE DEF TypeOK, Flushers
<1>1. ASSUME NEW s \in Savers, NEW u \in Users, NEW v \in Version \ {0}, SaveMerge(s, u, v)
      PROVE  TypeOK'
  <2>1. MaxMerge(versions[u], v) \in Version
    BY MaxMergeUp
  <2> QED
    BY <1>1, <2>1 DEF SaveMerge
<1>2. ASSUME NEW s \in Savers, SaveMark(s)
      PROVE  TypeOK'
  BY <1>2 DEF SaveMark
<1>3. ASSUME NEW f \in Flushers, FlushStep(f)
      PROVE  TypeOK'
  <2>1. CASE FlushClean(f)
    BY <2>1 DEF FlushClean, Returned
  <2>2. CASE FlushSwap(f)
    BY <2>2 DEF FlushSwap
  <2>3. CASE FlushSnapshot(f)
    BY <2>3 DEF FlushSnapshot
  <2>4. CASE FlushWrite(f)
    BY <2>4, ZeroType DEF FlushWrite, Returned
  <2>5. CASE FlushFail(f)
    BY <2>5, ZeroType DEF FlushFail, Returned
  <2> QED
    BY <1>3, <2>1, <2>2, <2>3, <2>4, <2>5 DEF FlushStep
<1>4. CASE Shutdown \/ ServeFails
  BY <1>4 DEF Shutdown, ServeFails
<1>5. CASE StopClose
  BY <1>5 DEF StopClose
<1>6. CASE LoopExit
  BY <1>6 DEF LoopExit
<1>7. CASE StopWait
  BY <1>7 DEF StopWait
<1>8. CASE Restart
  <2>1. entries' \in [Flushers -> [Users -> Version]]
    BY <1>8, ZeroType DEF Restart
  <2> QED
    BY <1>8, <2>1 DEF Restart
<1>9. CASE UNCHANGED vars
  BY <1>9 DEF vars
<1> QED
  BY <1>1, <1>2, <1>3, <1>4, <1>5, <1>6, <1>7, <1>8, <1>9 DEF Next

\* Every reachable state of the store has the types the code declares.
THEOREM TypeCorrect == Spec => []TypeOK
BY TypeInit, TypeStep, PTL DEF Spec

-----------------------------------------------------------------------------
(***************************************************************************)
(* The writer's copy lies between the file and memory.                     *)
(***************************************************************************)

\* A map of versions covers itself: what a Flush copies under the gate covers memory.
LEMMA CoversRefl ==
  ASSUME NEW v \in [Users -> Version]
  PROVE  Ledger!Covers(v, v)
BY StoreAssumption DEF Ledger!Covers, Version

\* Covering is transitive: a copy above the file and below memory orders the three.
LEMMA CoversTrans ==
  ASSUME NEW v \in [Users -> Version], NEW w \in [Users -> Version],
         NEW x \in [Users -> Version],
         Ledger!Covers(v, w), Ledger!Covers(w, x)
  PROVE  Ledger!Covers(v, x)
<1> SUFFICES ASSUME NEW u \in Users PROVE v[u] >= x[u]
  BY DEF Ledger!Covers
<1>1. v[u] >= w[u] /\ w[u] >= x[u]
  BY DEF Ledger!Covers
<1>2. v[u] \in Nat /\ w[u] \in Nat /\ x[u] \in Nat
  BY StoreAssumption DEF Version
<1> QED
  BY <1>1, <1>2

\* Two maps of versions that cover each other are equal.
LEMMA CoversBoth ==
  ASSUME NEW v \in [Users -> Version], NEW w \in [Users -> Version],
         Ledger!Covers(v, w), Ledger!Covers(w, v)
  PROVE  v = w
BY StoreAssumption DEF Ledger!Covers, Version

\* A merge leaves memory above what it was.
LEMMA MergeCovers ==
  ASSUME TypeOK, NEW s \in Savers, NEW u \in Users, NEW v \in Version \ {0}, SaveMerge(s, u, v)
  PROVE  Ledger!Covers(versions', versions)
<1>1. \A w \in Users : versions'[w] = IF w = u THEN MaxMerge(versions[u], v) ELSE versions[w]
  BY DEF SaveMerge, TypeOK
<1>2. MaxMerge(versions[u], v) >= versions[u]
  BY MaxMergeUp DEF TypeOK
<1>3. \A w \in Users : versions[w] >= versions[w]
  BY StoreAssumption DEF TypeOK, Version
<1> QED
  BY <1>1, <1>2, <1>3 DEF Ledger!Covers

\* Every step keeps the copy of the Flush that holds writeGate between file and memory.
LEMMA WriterStep == TypeOK /\ WriterBetween /\ [Next]_vars => WriterBetween'
<1> SUFFICES ASSUME TypeOK, WriterBetween, [Next]_vars
             PROVE  WriterBetween'
  OBVIOUS
<1>0. TypeOK'
  BY TypeStep
<1>1. ASSUME NEW s \in Savers, NEW u \in Users, NEW v \in Version \ {0}, SaveMerge(s, u, v)
      PROVE  WriterBetween'
  <2>1. Ledger!Covers(versions', versions)
    BY <1>1, MergeCovers
  <2>2. UNCHANGED <<file, flush, entries, writeGate>>
    BY <1>1 DEF SaveMerge
  <2>3. Ledger!Covers(versions', file)
    BY <1>0, <2>1, CoversTrans DEF WriterBetween, TypeOK
  <2>4. ASSUME NEW f \in Flushers, flush[f] = "writing"
        PROVE  Ledger!Covers(versions', entries[f])
    BY <1>0, <2>1, <2>4, CoversTrans DEF WriterBetween, TypeOK
  <2> QED
    BY <2>2, <2>3, <2>4 DEF WriterBetween, Ledger!Covers
<1>2. ASSUME NEW s \in Savers, SaveMark(s)
      PROVE  WriterBetween'
  BY <1>2 DEF SaveMark, WriterBetween, Ledger!Covers
<1>3. ASSUME NEW f \in Flushers, FlushStep(f)
      PROVE  WriterBetween'
  <2>1. CASE FlushClean(f)
    BY <2>1 DEF FlushClean, WriterBetween, Ledger!Covers
  <2>2. CASE FlushSwap(f)
    <3>1. \A g \in Flushers : flush'[g] = "writing" => flush[g] = "writing"
      BY <2>2 DEF FlushSwap, TypeOK
    <3> QED
      BY <2>2, <3>1 DEF FlushSwap, WriterBetween, Ledger!Covers
  <2>3. CASE FlushSnapshot(f)
    <3>1. \A g \in Flushers : flush'[g] = "writing" => g = f
      BY <2>3 DEF FlushSnapshot, WriterBetween, TypeOK, Flushers
    <3>2. entries'[f] = versions /\ writeGate' = f /\ UNCHANGED <<versions, file>>
      BY <2>3 DEF FlushSnapshot, TypeOK
    <3>3. Ledger!Covers(versions, versions)
      BY CoversRefl DEF TypeOK
    <3> QED
      BY <3>1, <3>2, <3>3 DEF WriterBetween, Ledger!Covers
  <2>4. CASE FlushWrite(f)
    <3>1. \A g \in Flushers : flush'[g] # "writing"
      BY <2>4 DEF FlushWrite, WriterBetween, TypeOK, Flushers
    <3>2. file' = entries[f] /\ UNCHANGED versions /\ flush[f] = "writing"
      BY <2>4 DEF FlushWrite
    <3> QED
      BY <3>1, <3>2 DEF WriterBetween, Ledger!Covers
  <2>5. CASE FlushFail(f)
    <3>1. \A g \in Flushers : flush'[g] # "writing"
      BY <2>5 DEF FlushFail, WriterBetween, TypeOK, Flushers
    <3> QED
      BY <2>5, <3>1 DEF FlushFail, WriterBetween, Ledger!Covers
  <2> QED
    BY <1>3, <2>1, <2>2, <2>3, <2>4, <2>5 DEF FlushStep
<1>4. CASE Shutdown \/ ServeFails \/ StopClose \/ LoopExit \/ StopWait
  BY <1>4 DEF Shutdown, ServeFails, StopClose, LoopExit, StopWait, WriterBetween, Ledger!Covers
<1>5. CASE Restart
  <2>1. Ledger!Covers(file, file)
    BY CoversRefl DEF TypeOK
  <2>2. \A g \in Flushers : flush'[g] # "writing"
    BY <1>5 DEF Restart
  <2> QED
    BY <1>5, <2>1, <2>2 DEF Restart, WriterBetween, Ledger!Covers
<1>6. CASE UNCHANGED vars
  BY <1>6 DEF vars, WriterBetween, Ledger!Covers
<1> QED
  BY <1>1, <1>2, <1>3, <1>4, <1>5, <1>6 DEF Next

\* NewStore starts with memory equal to the file and no Flush under way.
LEMMA WriterInit == Init => WriterBetween
<1> SUFFICES ASSUME Init PROVE WriterBetween
  OBVIOUS
<1>1. Ledger!Covers(versions, file)
  BY ZeroType, CoversRefl DEF Init
<1>2. \A f \in Flushers : flush[f] # "writing"
  BY DEF Init
<1> QED
  BY <1>1, <1>2 DEF WriterBetween

(***************************************************************************)
(* At most one Flush is between its copy and its rename, and its copy is   *)
(* neither older than the file nor ahead of memory.                        *)
(***************************************************************************)
THEOREM WriterAlwaysBetween == Spec => []WriterBetween
<1>1. TypeOK /\ WriterBetween /\ [Next]_vars => (TypeOK /\ WriterBetween)'
  BY TypeStep, WriterStep
<1> QED
  BY <1>1, TypeInit, WriterInit, PTL DEF Spec

-----------------------------------------------------------------------------
(***************************************************************************)
(* Nothing saved is forgotten.  The step that could break it is the rename *)
(* (FlushWrite) of a copy that memory has outgrown; WriterBetween says the *)
(* file equals memory only if the copy does too.                           *)
(***************************************************************************)
LEMMA ForgottenStep == TypeOK /\ WriterBetween /\ NothingForgotten /\ [Next]_vars => NothingForgotten'
<1> SUFFICES ASSUME TypeOK, WriterBetween, NothingForgotten, [Next]_vars
             PROVE  NothingForgotten'
  OBVIOUS
<1>1. ASSUME NEW s \in Savers, NEW u \in Users, NEW v \in Version \ {0}, SaveMerge(s, u, v)
      PROVE  NothingForgotten'
  <2>1. saver'[s] = "merged"
    BY <1>1 DEF SaveMerge, TypeOK
  <2> QED
    BY <2>1 DEF NothingForgotten
<1>2. ASSUME NEW s \in Savers, SaveMark(s)
      PROVE  NothingForgotten'
  BY <1>2 DEF SaveMark, NothingForgotten
<1>3. ASSUME NEW f \in Flushers, FlushStep(f)
      PROVE  NothingForgotten'
  <2>1. CASE FlushClean(f)
    BY <2>1 DEF FlushClean, NothingForgotten
  <2>2. CASE FlushSwap(f)
    <3>1. flush'[f] = "swapped"
      BY <2>2 DEF FlushSwap, TypeOK
    <3> QED
      BY <3>1 DEF NothingForgotten
  <2>3. CASE FlushSnapshot(f)
    <3>1. flush'[f] = "writing" /\ entries'[f] = versions'
      BY <2>3 DEF FlushSnapshot, TypeOK
    <3> QED
      BY <3>1 DEF NothingForgotten
  <2>4. CASE FlushWrite(f)
    <3>1. /\ file' = entries[f] /\ flush[f] = "writing"
          /\ UNCHANGED <<versions, isDirty, saver>>
      BY <2>4 DEF FlushWrite
    <3>2. \A g \in Flushers : g # f => flush'[g] = flush[g]
      BY <2>4 DEF FlushWrite, TypeOK
    <3>3. ASSUME file = versions
          PROVE  entries[f] = versions
      BY <3>1, <3>3, CoversBoth DEF WriterBetween, TypeOK
    <3>4. ASSUME NEW g \in Flushers, flush[g] = "writing"
          PROVE  g = f
      BY <3>1, <3>4 DEF WriterBetween
    <3> QED
      BY <3>1, <3>2, <3>3, <3>4 DEF NothingForgotten
  <2>5. CASE FlushFail(f)
    BY <2>5 DEF FlushFail, NothingForgotten
  <2> QED
    BY <1>3, <2>1, <2>2, <2>3, <2>4, <2>5 DEF FlushStep
<1>4. CASE Shutdown \/ ServeFails \/ StopClose \/ LoopExit \/ StopWait
  BY <1>4 DEF Shutdown, ServeFails, StopClose, LoopExit, StopWait, NothingForgotten
<1>5. CASE Restart
  BY <1>5 DEF Restart, NothingForgotten
<1>6. CASE UNCHANGED vars
  BY <1>6 DEF vars, NothingForgotten
<1> QED
  BY <1>1, <1>2, <1>3, <1>4, <1>5, <1>6 DEF Next

(***************************************************************************)
(* A version that the file lacks always has somebody who will write it.    *)
(***************************************************************************)
THEOREM NeverForgotten == Spec => []NothingForgotten
<1>1. Init => NothingForgotten
  BY DEF Init, NothingForgotten
<1>2. TypeOK /\ WriterBetween /\ NothingForgotten /\ [Next]_vars
        => (TypeOK /\ WriterBetween /\ NothingForgotten)'
  BY TypeStep, WriterStep, ForgottenStep
<1> QED
  BY <1>1, <1>2, TypeInit, WriterInit, PTL DEF Spec

-----------------------------------------------------------------------------
(***************************************************************************)
(* The store implements the ledger of versions: a merge is a Save, a       *)
(* rename is a Sync, a restart is a Restart, and every other step is       *)
(* invisible.                                                              *)
(***************************************************************************)
LEMMA LedgerStep ==
  TypeOK /\ WriterBetween /\ [Next]_vars => [Ledger!Next]_<<versions, file>>
<1> SUFFICES ASSUME TypeOK, WriterBetween, [Next]_vars
             PROVE  Ledger!Next \/ UNCHANGED <<versions, file>>
  OBVIOUS
<1>0. TypeOK'
  BY TypeStep
<1>1. ASSUME NEW s \in Savers, NEW u \in Users, NEW v \in Version \ {0}, SaveMerge(s, u, v)
      PROVE  Ledger!Save
  <2>1. versions' = [versions EXCEPT ![u] = versions'[u]] /\ UNCHANGED file
    BY <1>1 DEF SaveMerge, TypeOK
  <2>2. versions'[u] >= versions[u]
    BY <1>1, MergeCovers DEF Ledger!Covers
  <2>3. versions'[u] \in Nat
    BY <1>0, StoreAssumption DEF TypeOK, Version
  <2> QED
    BY <2>1, <2>2, <2>3 DEF Ledger!Save
<1>2. ASSUME NEW f \in Flushers, FlushWrite(f)
      PROVE  Ledger!Sync
  <2>1. file' = entries[f] /\ flush[f] = "writing" /\ UNCHANGED versions
    BY <1>2 DEF FlushWrite
  <2>2. Ledger!Covers(entries[f], file) /\ Ledger!Covers(versions, entries[f])
    BY <2>1 DEF WriterBetween
  <2>3. entries[f] \in [Users -> Nat]
    BY StoreAssumption DEF TypeOK, Version
  <2> QED
    BY <2>1, <2>2, <2>3 DEF Ledger!Sync, Ledger!Covers
<1>3. CASE Restart
  BY <1>3 DEF Restart, Ledger!Restart, Ledger!Next
<1>4. ASSUME NEW s \in Savers, SaveMark(s)
      PROVE  UNCHANGED <<versions, file>>
  BY <1>4 DEF SaveMark
<1>5. ASSUME NEW f \in Flushers,
             FlushClean(f) \/ FlushSwap(f) \/ FlushSnapshot(f) \/ FlushFail(f)
      PROVE  UNCHANGED <<versions, file>>
  BY <1>5 DEF FlushClean, FlushSwap, FlushSnapshot, FlushFail
<1>6. CASE Shutdown \/ ServeFails \/ StopClose \/ LoopExit \/ StopWait
  BY <1>6 DEF Shutdown, ServeFails, StopClose, LoopExit, StopWait
<1>7. CASE UNCHANGED vars
  BY <1>7 DEF vars
<1> QED
  BY <1>1, <1>2, <1>3, <1>4, <1>5, <1>6, <1>7 DEF Next, FlushStep, Ledger!Next

\* The file and memory behave as the ledger says, in every run of the store.
THEOREM StoreImplementsLedger == Spec => ImplementsLedger
<1>1. Init => Ledger!Init
  BY DEF Init, Zero, Ledger!Init
<1>2. TypeOK /\ WriterBetween /\ [Next]_vars => [Ledger!Next]_<<versions, file>>
  BY LedgerStep
<1>3. Spec => [](TypeOK /\ WriterBetween)
  BY TypeCorrect, WriterAlwaysBetween, PTL
<1> QED
  BY <1>1, <1>2, <1>3, PTL DEF Spec, ImplementsLedger, Ledger!Spec, Ledger!vars
=============================================================================
