------------------------------ MODULE CliLock -------------------------------
(***************************************************************************)
(* internal/cli/lock.go: the lock that a command takes before it reads and *)
(* writes users.json.  The lock file is opened or created by its path and  *)
(* locked with flock, which locks the file and not the path; Release       *)
(* unlocks the file and then removes whatever the path names.              *)
(*                                                                         *)
(* A file is a number; 0 is none.  The file system and flock are external  *)
(* (Unix).  The PID written to the file is not kept, only that writing it  *)
(* creates the file again if it is gone.                                   *)
(***************************************************************************)
EXTENDS Naturals, FiniteSets

CONSTANTS
  Commands,     \* processes that run a command each
  MaxAttempts   \* attempts of Acquire, at least one

\* As many files as can be open at a time, and one at the path.
Files == 1 .. Cardinality(Commands) + 1
NoFile == 0

VARIABLES
  path,         \* the file users.json.lock names
  locked,       \* the files that someone has locked
  fd,           \* the file each command has open
  attempt,      \* the attempts it has made
  pc            \* the step it is at

vars == <<path, locked, fd, attempt, pc>>

Init ==
  /\ path = NoFile
  /\ locked = {}
  /\ fd = [p \in Commands |-> NoFile]
  /\ attempt = [p \in Commands |-> 0]
  /\ pc = [p \in Commands |-> "start"]

Unused == {f \in Files : f # path /\ \A p \in Commands : fd[p] # f}

\* os.OpenFile with O_CREATE: the path names the file afterwards.
OpenOrCreate(f) ==
  /\ IF path # NoFile THEN f = path
                      ELSE f \in Unused /\ \A g \in Unused : f <= g
  /\ path' = f

\* An attempt has failed; after the last one the command gives up.
Retry(p) ==
  /\ attempt' = [attempt EXCEPT ![p] = @ + 1]
  /\ pc' = [pc EXCEPT ![p] = IF attempt[p] + 1 < MaxAttempts THEN "start" ELSE "ended"]
  /\ fd' = [fd EXCEPT ![p] = NoFile]

\* TryLock opens the file ...
Open(p) ==
  /\ pc[p] = "start"
  /\ \E f \in Files : OpenOrCreate(f) /\ fd' = [fd EXCEPT ![p] = f]
  /\ pc' = [pc EXCEPT ![p] = "opened"]
  /\ UNCHANGED <<locked, attempt>>

\* ... or cannot: a path error is tried again, any other one is returned ...
OpenFails(p) ==
  /\ pc[p] = "start"
  /\ \/ Retry(p)
     \/ pc' = [pc EXCEPT ![p] = "ended"] /\ UNCHANGED <<fd, attempt>>
  /\ UNCHANGED <<path, locked>>

\* ... and locks it unless someone else has.
Lock(p) ==
  /\ pc[p] = "opened" /\ fd[p] \notin locked
  /\ locked' = locked \union {fd[p]}
  /\ pc' = [pc EXCEPT ![p] = "locked"]
  /\ UNCHANGED <<path, fd, attempt>>

LockBusy(p) ==
  /\ pc[p] = "opened" /\ fd[p] \in locked
  /\ Retry(p)
  /\ UNCHANGED <<path, locked>>

\* os.WriteFile of the PID opens the path once more, and creates it if need be; that it
\* fails is ignored.
WritePid(p) ==
  /\ pc[p] = "locked"
  /\ (\E f \in Files : OpenOrCreate(f)) \/ UNCHANGED path
  /\ pc' = [pc EXCEPT ![p] = "holding"]
  /\ UNCHANGED <<locked, fd, attempt>>

\* Release: Unlock, which closes the file, ...
Unlock(p) ==
  /\ pc[p] = "holding"
  /\ locked' = locked \ {fd[p]}
  /\ fd' = [fd EXCEPT ![p] = NoFile]
  /\ pc' = [pc EXCEPT ![p] = "unlocked"]
  /\ UNCHANGED <<path, attempt>>

\* ... then os.Remove of the path; that it fails is ignored.
Remove(p) ==
  /\ pc[p] = "unlocked"
  /\ path' \in {path, NoFile}
  /\ pc' = [pc EXCEPT ![p] = "ended"]
  /\ UNCHANGED <<locked, fd, attempt>>

\* The process dies: the system closes and unlocks its file, and the path stays.
Crash(p) ==
  /\ pc[p] # "ended"
  /\ locked' = IF pc[p] \in {"locked", "holding"} THEN locked \ {fd[p]} ELSE locked
  /\ fd' = [fd EXCEPT ![p] = NoFile]
  /\ pc' = [pc EXCEPT ![p] = "ended"]
  /\ UNCHANGED <<path, attempt>>

Next ==
  \E p \in Commands :
    \/ Open(p) \/ OpenFails(p) \/ Lock(p) \/ LockBusy(p) \/ WritePid(p)
    \/ Unlock(p) \/ Remove(p) \/ Crash(p)

Spec == Init /\ [][Next]_vars

-----------------------------------------------------------------------------
(***************************************************************************)
(* No two commands have the lock: the one that has it reads users.json,    *)
(* changes its copy and writes it back, and would undo what another one    *)
(* wrote in between (docs/server-spec.md:202 and :671).                    *)
(***************************************************************************)
OneHolder ==
  \A p, q \in Commands : pc[p] = "holding" /\ pc[q] = "holding" => p = q
=============================================================================
