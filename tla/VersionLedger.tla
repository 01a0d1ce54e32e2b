---------------------------- MODULE VersionLedger ----------------------------
(***************************************************************************)
(* What the runtime state store promises the hubs: per user, a version in  *)
(* memory that only grows while the process lives, and a durable version   *)
(* that only grows, is never ahead of memory, and is what a restarted      *)
(* process starts from.  RuntimeStateStore implements it.                  *)
(***************************************************************************)
EXTENDS Naturals

CONSTANT Users

VARIABLES memory, durable

vars == <<memory, durable>>

\* v is at least w for every user.
Covers(v, w) == \A u \in Users : v[u] >= w[u]

Init ==
  /\ memory = [u \in Users |-> 0]
  /\ durable = [u \in Users |-> 0]

\* A version is recorded for one user; an older one changes nothing.
Save ==
  /\ \E u \in Users :
       /\ memory'[u] \in Nat /\ memory'[u] >= memory[u]
       /\ memory' = [memory EXCEPT ![u] = memory'[u]]
  /\ UNCHANGED durable

\* Some state between the durable one and memory becomes durable, as a whole.
Sync ==
  /\ durable' \in [Users -> Nat]
  /\ Covers(durable', durable) /\ Covers(memory, durable')
  /\ UNCHANGED memory

\* The process restarts from what is durable.
Restart ==
  /\ memory' = durable
  /\ UNCHANGED durable

Next == Save \/ Sync \/ Restart

Spec == Init /\ [][Next]_vars
=============================================================================
