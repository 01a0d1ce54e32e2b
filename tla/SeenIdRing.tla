------------------------------ MODULE SeenIdRing ------------------------------
(***************************************************************************)
(* internal/core/ring.go: the clip ids a hub remembers, each with the text *)
(* it produced.  A ring is a record: entries maps the remembered ids to    *)
(* texts, order holds the id written at each slot (NoId if none yet), and  *)
(* next is the slot the next Remember overwrites.  Every operation runs    *)
(* under the ring's gate, so each is an operator on the whole ring.        *)
(***************************************************************************)
EXTENDS Naturals

CONSTANTS
  RingCapacity,   \* Limits.SeenIdCapacity
  NoId            \* the empty string of an unused slot

ASSUME RingAssumption == RingCapacity \in Nat \ {0}

Slots == 0 .. RingCapacity - 1

NewRing ==
  [entries |-> [id \in {} |-> 0], order |-> [i \in Slots |-> NoId], next |-> 0]

Bug_ComparesIdentity(ring, id, content) == FALSE

\* The remembered text of id carries the same content as the one at hand.
IsUnchangedDuplicate(ring, id, content) ==
  /\ id \in DOMAIN ring.entries
  /\ ring.entries[id].content = content

(***************************************************************************)
(* rememberInternal: the id in the slot is forgotten unless it is the same *)
(* id, the slot and the entry are overwritten.  An id remembered again     *)
(* takes a second slot and keeps the first.                                *)
(***************************************************************************)
Bug_KeepEvicted(ring, id, text) ==
  [entries |-> [i \in DOMAIN ring.entries \union {id} |->
                  IF i = id THEN text ELSE ring.entries[i]],
   order   |-> [ring.order EXCEPT ![ring.next] = id],
   next    |-> (ring.next + 1) % RingCapacity]

Remember(ring, id, text) ==
  LET evicted == ring.order[ring.next]
      kept == DOMAIN ring.entries \ ({evicted} \ {id})
  IN  [entries |-> [i \in kept \union {id} |-> IF i = id THEN text ELSE ring.entries[i]],
       order   |-> [ring.order EXCEPT ![ring.next] = id],
       next    |-> (ring.next + 1) % RingCapacity]
=============================================================================
