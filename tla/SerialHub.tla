------------------------------ MODULE SerialHub ------------------------------
(***************************************************************************)
(* What the specification of the server promises of a hub (2.3 and 5.4 of  *)
(* docs/server-spec.md): one consumer handles the jobs of a user in the    *)
(* order they arrived.  It takes a job, and a clip either becomes the next *)
(* version or is answered as it is: a repeat with the version it has, a    *)
(* clip over the limit with an error.  Nobody is told of a text before it  *)
(* is in the log, and the answer to a clip names that clip's version.      *)
(* How a text travels from the log to the connections is left open.        *)
(***************************************************************************)
EXTENDS Naturals, Sequences

CONSTANTS Conns, ClipsOf, None, InitialVersion, MaxVersion

VARIABLES
  inbox,    \* jobs that have arrived
  current,  \* the clip in hand with its sender, or None
  done,     \* the clip in hand is in the log
  log,      \* the clips that became versions, in order
  told,     \* the newest texts each connection knows, its answers, and the last of them
  open      \* the connections that still hear

vars == <<inbox, current, done, log, told, open>>

Init ==
  /\ inbox = <<>> /\ current = None /\ done = FALSE /\ log = <<>>
  /\ told = [c \in Conns |-> [newest |-> {}, answers |-> 0, reply |-> None]]
  /\ open = Conns

TextOf(entry) == [version |-> entry.version, content |-> entry.clip.content]

Newest(texts, t) ==
  IF t = None \/ \E u \in texts : u.version > t.version
    THEN texts
    ELSE {u \in texts : u.version = t.version} \union {t}

\* A connection hears t, perhaps as an answer; or it is cut off, now or before.
Tell(c, t, isAnswer) ==
  \/ /\ c \in open
     /\ told' = [told EXCEPT ![c] =
                   [newest  |-> Newest(@.newest, t),
                    answers |-> @.answers + (IF isAnswer THEN 1 ELSE 0),
                    reply   |-> IF isAnswer THEN t ELSE @.reply]]
     /\ UNCHANGED open
  \/ /\ open' = open \ {c}
     /\ UNCHANGED told

SayHello(c) ==
  /\ inbox' = Append(inbox, [type |-> "hello", sender |-> c])
  /\ UNCHANGED <<current, done, log, told, open>>

Submit(c, clip) ==
  /\ c \in open
  /\ inbox' = Append(inbox, [type |-> "clip", sender |-> c, clip |-> clip])
  /\ UNCHANGED <<current, done, log, told, open>>

Take ==
  /\ current = None /\ inbox # <<>>
  /\ inbox' = Tail(inbox)
  /\ current' = IF Head(inbox).type = "hello" THEN None
                ELSE [sender |-> Head(inbox).sender, clip |-> Head(inbox).clip]
  /\ UNCHANGED <<done, log, told, open>>

Apply ==
  /\ current # None /\ ~done
  /\ log' = Append(log, [clip |-> current.clip, version |-> InitialVersion + Len(log) + 1])
  /\ done' = TRUE
  /\ UNCHANGED <<inbox, current, told, open>>

\* Entry i is the last use of its id.
LastUse(i) == \A j \in DOMAIN log : j > i => log[j].clip.id # log[i].clip.id

Answer ==
  /\ current # None
  /\ \/ done /\ Tell(current.sender, TextOf(log[Len(log)]), TRUE)
     \/ ~done /\ Tell(current.sender, None, TRUE)
     \/ /\ ~done
        /\ \E i \in DOMAIN log : /\ log[i].clip = current.clip /\ LastUse(i)
                                 /\ Tell(current.sender, TextOf(log[i]), TRUE)
  /\ current' = None /\ done' = FALSE
  /\ UNCHANGED <<inbox, log>>

\* There is no next version: the consumer fails at the clip in hand and cuts off whom it knows.
Fail ==
  /\ current # None /\ ~done /\ InitialVersion + Len(log) = MaxVersion
  /\ \E C \in SUBSET Conns : open' = open \ C
  /\ current' = None
  /\ UNCHANGED <<inbox, done, log, told>>

\* A welcome or a broadcast.
Announce(c) ==
  /\ \/ Tell(c, None, FALSE)
     \/ \E i \in DOMAIN log : Tell(c, TextOf(log[i]), FALSE)
  /\ UNCHANGED <<inbox, current, done, log>>

Close(C) ==
  /\ open' = open \ C
  /\ UNCHANGED <<inbox, current, done, log, told>>

Next ==
  \/ \E c \in Conns : SayHello(c) \/ Announce(c)
  \/ \E c \in Conns : \E clip \in ClipsOf[c] : Submit(c, clip)
  \/ Take \/ Apply \/ Answer \/ Fail
  \/ \E C \in SUBSET Conns : Close(C)

Spec == Init /\ [][Next]_vars
=============================================================================
