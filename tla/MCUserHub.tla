------------------------------ MODULE MCUserHub ------------------------------
(***************************************************************************)
(* Bounded instances of UserHub: two connections of one user.               *)
(***************************************************************************)
EXTENDS UserHub, TLC

CONSTANTS c1, c2

\* Every connection may submit, and repeat, any clip.
AnyClip == [c \in Conns |-> [id : Ids, content : Contents]]

\* Two connections of one client, without a snapshot.
NoSnapshots ==
  [c \in Conns |-> [client |-> 1, version |-> 0, time |-> 0, content |-> None, bytes |-> 0]]

\* Then connections and clip ids are interchangeable.
Symmetry == Permutations(Conns) \union Permutations(Ids)

\* Each connection has a clip of its own.
OwnClip ==
  [c \in Conns |-> IF c = c1 THEN {[id |-> 1, content |-> "p"]}
                             ELSE {[id |-> 2, content |-> "q"]}]

\* One client brings the stored version with the later time, the other the last version of all.
TwoSnapshots ==
  [c \in Conns |-> [client |-> IF c = c1 THEN 1 ELSE 2,
                    version |-> IF c = c1 THEN InitialVersion ELSE MaxVersion,
                    time |-> IF c = c1 THEN 2 ELSE 1,
                    content |-> IF c = c1 THEN "p" ELSE "q", bytes |-> 1]]
=============================================================================
