--------------------------- MODULE SnapshotElection ---------------------------
(***************************************************************************)
(* internal/core/logic.go: the pure decisions of the recovery window.      *)
(* A candidate is a hello with a snapshot: the version its client last     *)
(* saw, the time of its local text, its client id and the text.  Times and *)
(* client ids are ordered like natural numbers.                            *)
(***************************************************************************)
EXTENDS Naturals, Sequences

\* The three rules of the sort: version, then time, then client id, greatest first.
Before(a, b) ==
  \/ a.version > b.version
  \/ a.version = b.version /\ a.time > b.time
  \/ a.version = b.version /\ a.time = b.time /\ a.client > b.client

\* A client that never saw a version has nothing to restore.
Eligible(candidates) == {i \in DOMAIN candidates : candidates[i].version > 0}

\* The head of the stable sort: the first of those that no other precedes.
First(candidates, S) ==
  candidates[CHOOSE i \in S :
    /\ \A j \in S : ~Before(candidates[j], candidates[i])
    /\ \A j \in S : j < i => \E k \in S : Before(candidates[k], candidates[j])]

Bug_FirstArrived(candidates, none) ==
  IF Eligible(candidates) = {} THEN none
  ELSE candidates[CHOOSE i \in Eligible(candidates) : \A j \in Eligible(candidates) : i <= j]

SelectSnapshotWinner(candidates, none) ==
  IF Eligible(candidates) = {} THEN none ELSE First(candidates, Eligible(candidates))
=============================================================================
