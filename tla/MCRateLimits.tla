---------------------------- MODULE MCRateLimits ----------------------------
(***************************************************************************)
(* Bounded instances of RateLimits.  The bucket and the login limiter have *)
(* nothing in common but the clock, so their interleavings show nothing: a *)
(* behaviour exercises one of them.                                        *)
(***************************************************************************)
EXTENDS RateLimits, TLC

VARIABLE subject

\* Addresses, users and requests are interchangeable.
Symmetry == Permutations(Ips) \union Permutations(Names) \union Permutations(Requests)

MCInit == Init /\ subject \in {"clips", "logins"}

MCNext ==
  /\ \/ Tick
     \/ subject = "clips" /\ BucketStep
     \/ subject = "logins" /\ LoginStep
  /\ UNCHANGED subject

MCSpec == MCInit /\ [][MCNext]_<<vars, subject>>
=============================================================================
