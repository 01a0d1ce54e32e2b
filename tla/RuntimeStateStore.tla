-------------------------- MODULE RuntimeStateStore --------------------------
(***************************************************************************)
(* internal/state/store.go: the versions of all users in memory, a dirty   *)
(* flag outside the mutex that guards them, and a file replaced atomically *)
(* by Flush.  Flush has two callers: the loop started by NewStore and the  *)
(* main goroutine, which flushes in Server.Shutdown and again in Stop.     *)
(* SaveVersion is called by the goroutines that apply clips.               *)
(*                                                                         *)
(* Definitions named Bug_... are plausible errors in the definition that   *)
(* follows each of them; no specification uses them.                       *)
(*                                                                         *)
(* A missing entry, in memory and in the file, is version 0: GetVersion    *)
(* reads the zero value, and no entry ever holds 0.                        *)
(***************************************************************************)
EXTENDS Naturals

CONSTANTS
  Users,
  Savers,       \* goroutines that call SaveVersion
  MaxVersion    \* bound on the versions the hubs record

ASSUME StoreAssumption == MaxVersion \in Nat

Flushers == {"loop", "main"}
Version == 0 .. MaxVersion

VARIABLES
  versions,     \* Store.versions, guarded by Store.gate
  isDirty,      \* Store.isDirty
  file,         \* the contents of the state file
  writeGate,    \* the holder of Store.writeGate, or "free"
  flush,        \* the step each caller of Flush is at
  entries,      \* the snapshot each caller of Flush took
  saver,        \* the step each caller of SaveVersion is at
  phase,        \* how far the main goroutine is in shutting down
  loopDone      \* Store.loopDone is closed

vars == <<versions, isDirty, file, writeGate, flush, entries, saver, phase, loopDone>>

Zero == [u \in Users |-> 0]

\* NewStore without a state file.
Init ==
  /\ versions = Zero
  /\ isDirty = FALSE
  /\ file = Zero
  /\ writeGate = "free"
  /\ flush = [f \in Flushers |-> "idle"]
  /\ entries = [f \in Flushers |-> Zero]
  /\ saver = [s \in Savers |-> "idle"]
  /\ phase = "serving"
  /\ loopDone = FALSE

(***************************************************************************)
(* SaveVersion: the max merge under the gate, then the dirty flag.         *)
(***************************************************************************)
Bug_LastSaveWins(old, v) == v

Bug_AddsUp(old, v) == old + v

MaxMerge(old, v) == IF v > old THEN v ELSE old

SaveMerge(s, u, v) ==
  /\ saver[s] = "idle"
  /\ versions' = [versions EXCEPT ![u] = MaxMerge(@, v)]
  /\ saver' = [saver EXCEPT ![s] = "merged"]
  /\ UNCHANGED <<isDirty, file, writeGate, flush, entries, phase, loopDone>>

SaveMark(s) ==
  /\ saver[s] = "merged"
  /\ isDirty' = TRUE
  /\ saver' = [saver EXCEPT ![s] = "idle"]
  /\ UNCHANGED <<versions, file, writeGate, flush, entries, phase, loopDone>>

(***************************************************************************)
(* Flush.  The loop flushes on its ticker until it exits; the main         *)
(* goroutine flushes at the end of Shutdown and at the end of Stop.        *)
(***************************************************************************)
MayFlush(f) ==
  /\ flush[f] = "idle"
  /\ IF f = "loop" THEN ~loopDone ELSE phase \in {"shutdown", "final"}

\* Where the main goroutine goes when its Flush returns.
Returned(f) ==
  phase' = CASE f = "main" /\ phase = "shutdown" -> "stop"
             [] f = "main" /\ phase = "final"    -> "stopped"
             [] OTHER                            -> phase

\* isDirty.Swap(0) = 0: nothing to write.
FlushClean(f) ==
  /\ MayFlush(f)
  /\ ~isDirty
  /\ Returned(f)
  /\ UNCHANGED <<versions, isDirty, file, writeGate, flush, entries, saver, loopDone>>

FlushSwap(f) ==
  /\ MayFlush(f)
  /\ isDirty
  /\ isDirty' = FALSE
  /\ flush' = [flush EXCEPT ![f] = "swapped"]
  /\ UNCHANGED <<versions, file, writeGate, entries, saver, phase, loopDone>>

Bug_SnapshotWithoutGate(f) ==
  /\ flush[f] = "swapped"
  /\ writeGate' = f
  /\ entries' = [entries EXCEPT ![f] = versions]
  /\ flush' = [flush EXCEPT ![f] = "writing"]
  /\ UNCHANGED <<versions, isDirty, file, saver, phase, loopDone>>

\* writeGate is taken, then the versions are copied under the gate.
FlushSnapshot(f) ==
  /\ flush[f] = "swapped"
  /\ writeGate = "free"
  /\ writeGate' = f
  /\ entries' = [entries EXCEPT ![f] = versions]
  /\ flush' = [flush EXCEPT ![f] = "writing"]
  /\ UNCHANGED <<versions, isDirty, file, saver, phase, loopDone>>

Bug_ClearAfterWrite(f) ==
  /\ flush[f] = "writing"
  /\ file' = entries[f]
  /\ isDirty' = FALSE
  /\ writeGate' = "free"
  /\ flush' = [flush EXCEPT ![f] = "idle"] /\ entries' = [entries EXCEPT ![f] = Zero]
  /\ Returned(f)
  /\ UNCHANGED <<versions, saver, loopDone>>

\* writeAtomic succeeds: the rename replaces the file.
FlushWrite(f) ==
  /\ flush[f] = "writing"
  /\ file' = entries[f]
  /\ writeGate' = "free"
  /\ flush' = [flush EXCEPT ![f] = "idle"] /\ entries' = [entries EXCEPT ![f] = Zero]
  /\ Returned(f)
  /\ UNCHANGED <<versions, isDirty, saver, loopDone>>

Bug_FailForgets(f) ==
  /\ flush[f] = "writing"
  /\ writeGate' = "free"
  /\ flush' = [flush EXCEPT ![f] = "idle"] /\ entries' = [entries EXCEPT ![f] = Zero]
  /\ Returned(f)
  /\ UNCHANGED <<versions, isDirty, file, saver, loopDone>>

\* writeAtomic fails before the rename: the dirty flag is set again.
FlushFail(f) ==
  /\ flush[f] = "writing"
  /\ isDirty' = TRUE
  /\ writeGate' = "free"
  /\ flush' = [flush EXCEPT ![f] = "idle"] /\ entries' = [entries EXCEPT ![f] = Zero]
  /\ Returned(f)
  /\ UNCHANGED <<versions, file, saver, loopDone>>

(***************************************************************************)
(* Shutdown and Stop.                                                      *)
(***************************************************************************)
Shutdown ==
  /\ phase = "serving"
  /\ phase' = "shutdown"
  /\ UNCHANGED <<versions, isDirty, file, writeGate, flush, entries, saver, loopDone>>

\* ListenAndServeTLS returned: Run goes to Stop without Server.Shutdown.
ServeFails ==
  /\ phase = "serving"
  /\ phase' = "stop"
  /\ UNCHANGED <<versions, isDirty, file, writeGate, flush, entries, saver, loopDone>>

\* Stop closes stopCh.
StopClose ==
  /\ phase = "stop"
  /\ phase' = "closing"
  /\ UNCHANGED <<versions, isDirty, file, writeGate, flush, entries, saver, loopDone>>

\* runFlushLoop sees stopCh closed between two flushes.
LoopExit ==
  /\ phase = "closing"
  /\ flush["loop"] = "idle"
  /\ ~loopDone
  /\ loopDone' = TRUE
  /\ UNCHANGED <<versions, isDirty, file, writeGate, flush, entries, saver, phase>>

\* Stop has waited for loopDone and goes on to its Flush.
StopWait ==
  /\ phase = "closing"
  /\ loopDone
  /\ phase' = "final"
  /\ UNCHANGED <<versions, isDirty, file, writeGate, flush, entries, saver, loopDone>>

\* The process ends, in order or by a crash at any step, and the next one loads the file.
Restart ==
  /\ versions' = file
  /\ isDirty' = FALSE
  /\ writeGate' = "free"
  /\ flush' = [f \in Flushers |-> "idle"]
  /\ entries' = [f \in Flushers |-> Zero]
  /\ saver' = [s \in Savers |-> "idle"]
  /\ phase' = "serving"
  /\ loopDone' = FALSE
  /\ UNCHANGED file

FlushStep(f) ==
  FlushClean(f) \/ FlushSwap(f) \/ FlushSnapshot(f) \/ FlushWrite(f) \/ FlushFail(f)

Next ==
  \/ \E s \in Savers, u \in Users, v \in Version \ {0} : SaveMerge(s, u, v)
  \/ \E s \in Savers : SaveMark(s)
  \/ \E f \in Flushers : FlushStep(f)
  \/ Shutdown \/ ServeFails \/ StopClose \/ LoopExit \/ StopWait
  \/ Restart

\* Goroutines keep running, and the disk does not fail every write for ever.
Fairness ==
  /\ \A s \in Savers : WF_vars(SaveMark(s))
  /\ \A f \in Flushers : /\ WF_vars(FlushClean(f) \/ FlushSwap(f))
                         /\ WF_vars(FlushSnapshot(f))
                         /\ WF_vars(FlushWrite(f) \/ FlushFail(f))
                         /\ SF_vars(FlushWrite(f))
  /\ WF_vars(StopClose) /\ WF_vars(LoopExit) /\ WF_vars(StopWait)

Spec == Init /\ [][Next]_vars
FairSpec == Spec /\ Fairness

-----------------------------------------------------------------------------
TypeOK ==
  /\ versions \in [Users -> Version]
  /\ isDirty \in BOOLEAN
  /\ file \in [Users -> Version]
  /\ writeGate \in Flushers \union {"free"}
  /\ flush \in [Flushers -> {"idle", "swapped", "writing"}]
  /\ entries \in [Flushers -> [Users -> Version]]
  /\ saver \in [Savers -> {"idle", "merged"}]
  /\ phase \in {"serving", "shutdown", "stop", "closing", "final", "stopped"}
  /\ loopDone \in BOOLEAN

(***************************************************************************)
(* A version in memory that the file lacks is never forgotten: the dirty   *)
(* flag is set, or a SaveVersion is about to set it, or a Flush that has   *)
(* cleared it has yet to copy the versions or holds a copy of them all.    *)
(* Flush clears the flag before it copies, and SaveVersion merges before   *)
(* it sets the flag, for this reason.                                      *)
(***************************************************************************)
NothingForgotten ==
  \/ file = versions
  \/ isDirty
  \/ \E s \in Savers : saver[s] = "merged"
  \/ \E f \in Flushers : flush[f] = "swapped"
  \/ \E f \in Flushers : flush[f] = "writing" /\ entries[f] = versions

(***************************************************************************)
(* The writer's copy lies between the file and memory, and only one Flush  *)
(* is between its copy and its rename: writeGate is what keeps an older    *)
(* copy from being renamed over a newer one.                               *)
(***************************************************************************)
Ledger == INSTANCE VersionLedger WITH memory <- versions, durable <- file

WriterBetween ==
  /\ Ledger!Covers(versions, file)
  /\ \A f \in Flushers :
       flush[f] = "writing" =>
         /\ writeGate = f
         /\ Ledger!Covers(entries[f], file)
         /\ Ledger!Covers(versions, entries[f])

(***************************************************************************)
(* The store implements the ledger: whatever the interleaving of saves,    *)
(* flushes, failed writes and restarts, memory only grows until a restart, *)
(* and the file only grows and never gets ahead of memory.                 *)
(***************************************************************************)
ImplementsLedger == Ledger!Spec

(***************************************************************************)
(* While the process lives, what SaveVersion recorded reaches the file;    *)
(* the flush loop retries after a failed write.                            *)
(***************************************************************************)
ReachesFile ==
  \A u \in Users, v \in Version \ {0} :
    versions[u] = v ~> (file[u] >= v \/ versions[u] < v \/ phase # "serving")
=============================================================================
