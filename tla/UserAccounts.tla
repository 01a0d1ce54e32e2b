---------------------------- MODULE UserAccounts ----------------------------
(***************************************************************************)
(* users.json and all that reads or writes it: the user commands of        *)
(* internal/cli/cli.go with internal/users/users.go, the watcher that      *)
(* reloads the file into the server (internal/hosting/watcher.go), and the *)
(* login and token check that use the server's table (internal/auth).      *)
(*                                                                         *)
(* A user is a token version and a disabled flag; version 0, which         *)
(* Validate refuses, stands for no such user.  Passwords are not kept: the *)
(* client gives the right one or not.  A token is what its signed payload  *)
(* says, the user and the version; signatures and expiry are left out, as  *)
(* neither brings a token back.  Commands take the lock of                 *)
(* internal/cli/lock.go, assumed here to admit one command at a time.      *)
(* Definitions named Bug_... are plausible errors in the definition that   *)
(* follows; no specification uses them.                                    *)
(***************************************************************************)
EXTENDS Naturals

CONSTANTS
  Users,        \* usernames
  Requests,     \* login requests, each served once
  MaxVersion,   \* math.MaxInt64
  MaxCommands   \* bound on the commands run

ASSUME AccountsAssumption == MaxVersion \in Nat \ {0} /\ MaxCommands \in Nat

Tokens == [sub : Users, ver : 1 .. MaxVersion]
Tables == [version : [Users -> 0 .. MaxVersion], disabled : [Users -> BOOLEAN]]

VARIABLES
  file,           \* the user records of users.json
  next,           \* nextTokenVersion in users.json
  commands,       \* how many commands have run
  holding,        \* a command holds the lock and has loaded the file
  copy,           \* the records it loaded
  copyNext,       \* and the watermark
  lookup,         \* Server.lookup
  watching,       \* the watcher: "on", "failed" to start, "closed"
  event,          \* a change of the file has yet to be reported
  reloadPending,  \* Watcher.reloadPending: a debounce timer runs
  reloading,      \* reload: "no", "reading", "loaded"
  loaded,         \* the table it has read
  login,          \* what each login request has read of its user
  served,         \* the requests that have ended
  issued,         \* tokens given out
  barred          \* history: tokens that the server's table has once superseded

fileVars == <<file, next>>
cliVars == <<commands, holding, copy, copyNext>>
watchVars == <<watching, event, reloadPending, reloading, loaded>>
loginVars == <<login, served, issued>>
vars == <<fileVars, cliVars, lookup, watchVars, loginVars, barred>>

Empty == [version |-> [u \in Users |-> 0], disabled |-> [u \in Users |-> FALSE]]

Exists(table, u) == table.version[u] > 0

Token(u, table) == [sub |-> u, ver |-> table.version[u]]

NoLogin == [sub |-> "none", ver |-> 0]

\* There is no users.json yet; the server has loaded what there is.
Init ==
  /\ file = Empty /\ next = 1
  /\ commands = 0 /\ holding = FALSE /\ copy = Empty /\ copyNext = 1
  /\ lookup = Empty
  /\ watching \in {"on", "failed"}
  /\ event = FALSE /\ reloadPending = FALSE
  /\ reloading = "no" /\ loaded = Empty
  /\ login = [r \in Requests |-> NoLogin]
  /\ served = {} /\ issued = {}
  /\ barred = {}

-----------------------------------------------------------------------------
(***************************************************************************)
(* The command line.  A command loads the file under the lock, changes its *)
(* copy, and saves: Validate, a temporary file, a rename.                  *)
(***************************************************************************)
Begin ==
  /\ ~holding /\ commands < MaxCommands
  /\ holding' = TRUE
  /\ commands' = commands + 1
  /\ copy' = file /\ copyNext' = next
  /\ UNCHANGED <<fileVars, lookup, watchVars, loginVars, barred>>

Valid(table, watermark) ==
  watermark > 0 /\ \A u \in Users : table.version[u] < watermark

Save(table, watermark) ==
  /\ Valid(table, watermark)
  /\ file' = table /\ next' = watermark
  /\ event' = (watching = "on")
  /\ holding' = FALSE
  /\ UNCHANGED <<commands, copy, copyNext, lookup, watching, reloadPending, reloading, loaded,
                 loginVars, barred>>

Bug_AllowsLast(watermark) == watermark > 0

Allocatable(watermark) == watermark > 0 /\ watermark # MaxVersion

Bug_FreshFromUsers(u) ==
  LET top == CHOOSE v \in 0 .. MaxVersion :
               /\ \A w \in Users : copy.version[w] <= v
               /\ v = 0 \/ \E w \in Users : copy.version[w] = v
  IN /\ holding /\ ~Exists(copy, u) /\ Allocatable(top + 1)
     /\ Save([version |-> [copy.version EXCEPT ![u] = top + 1],
              disabled |-> [copy.disabled EXCEPT ![u] = FALSE]], top + 2)

AddUser(u) ==
  /\ holding /\ ~Exists(copy, u) /\ Allocatable(copyNext)
  /\ Save([version |-> [copy.version EXCEPT ![u] = copyNext],
           disabled |-> [copy.disabled EXCEPT ![u] = FALSE]], copyNext + 1)

\* Only the hash changes: the tokens of the user stay valid.
Passwd(u) ==
  /\ holding /\ Exists(copy, u)
  /\ Save(copy, copyNext)

SetDisabled(u, disabled) ==
  /\ holding /\ Exists(copy, u)
  /\ Save([version |-> copy.version, disabled |-> [copy.disabled EXCEPT ![u] = disabled]], copyNext)

DeleteUser(u) ==
  /\ holding /\ Exists(copy, u)
  /\ Save([version |-> [copy.version EXCEPT ![u] = 0],
           disabled |-> [copy.disabled EXCEPT ![u] = FALSE]], copyNext)

RevokeTokens(u) ==
  /\ holding /\ Exists(copy, u) /\ Allocatable(copyNext)
  /\ Save([version |-> [copy.version EXCEPT ![u] = copyNext], disabled |-> copy.disabled],
          copyNext + 1)

\* list and hash, every early return, a save that fails, and a crash: the lock is
\* released and the file is as it was.
EndWithoutSave ==
  /\ holding
  /\ holding' = FALSE
  /\ UNCHANGED <<fileVars, commands, copy, copyNext, lookup, watchVars, loginVars, barred>>

Command(u) ==
  \/ AddUser(u) \/ Passwd(u) \/ DeleteUser(u) \/ RevokeTokens(u)
  \/ \E disabled \in BOOLEAN : SetDisabled(u, disabled)

-----------------------------------------------------------------------------
(***************************************************************************)
(* The watcher.  Events and a poll schedule a reload; a schedule during    *)
(* the debounce is merged, and a timer that fires during a reload is       *)
(* dropped.  Events may be lost, so the poll is what brings every change.  *)
(***************************************************************************)
ScheduleReload == reloadPending' = TRUE

DeliverEvent ==
  /\ watching = "on" /\ event
  /\ event' = FALSE
  /\ ScheduleReload
  /\ UNCHANGED <<fileVars, cliVars, lookup, watching, reloading, loaded, loginVars, barred>>

LoseEvent ==
  /\ event
  /\ event' = FALSE
  /\ UNCHANGED <<fileVars, cliVars, lookup, watching, reloadPending, reloading, loaded, loginVars,
                 barred>>

Poll ==
  /\ watching = "on"
  /\ ScheduleReload
  /\ UNCHANGED <<fileVars, cliVars, lookup, watching, event, reloading, loaded, loginVars, barred>>

\* The timer of scheduleReload.
Fire ==
  /\ reloadPending
  /\ reloadPending' = FALSE
  /\ reloading' = IF watching # "closed" /\ reloading = "no" THEN "reading" ELSE reloading
  /\ UNCHANGED <<fileVars, cliVars, lookup, watching, event, loaded, loginVars, barred>>

ReloadReads ==
  /\ reloading = "reading"
  /\ reloading' = "loaded"
  /\ loaded' = file
  /\ UNCHANGED <<fileVars, cliVars, lookup, watching, event, reloadPending, loginVars, barred>>

Bug_StaysQueued ==
  /\ reloading = "reading"
  /\ reloading' = "failed"
  /\ UNCHANGED <<fileVars, cliVars, lookup, watching, event, reloadPending, loaded, loginVars,
                 barred>>

\* Three failed attempts: the previous table is kept.
ReloadFails ==
  /\ reloading = "reading"
  /\ reloading' = "no"
  /\ UNCHANGED <<fileVars, cliVars, lookup, watching, event, reloadPending, loaded, loginVars,
                 barred>>

Superseded(t, table) == table.version[t.sub] # t.ver

\* ReplaceUserLookup
ReloadReplaces ==
  /\ reloading = "loaded"
  /\ lookup' = loaded
  /\ reloading' = "no"
  /\ barred' = barred \union {t \in issued : Superseded(t, loaded)}
  /\ UNCHANGED <<fileVars, cliVars, watching, event, reloadPending, loaded, loginVars>>

CloseWatcher ==
  /\ watching # "closed"
  /\ watching' = "closed"
  /\ UNCHANGED <<fileVars, cliVars, lookup, event, reloadPending, reloading, loaded, loginVars,
                 barred>>

\* The process ends, at any point, and starts again; requests under way are lost.
Restart ==
  /\ lookup' = file
  /\ watching' \in {"on", "failed"}
  /\ event' = FALSE /\ reloadPending' = FALSE
  /\ reloading' = "no" /\ loaded' = Empty
  /\ login' = [r \in Requests |-> NoLogin]
  /\ served' = served \union {r \in Requests : login[r] # NoLogin}
  /\ barred' = barred \union {t \in issued : Superseded(t, file)}
  /\ UNCHANGED <<fileVars, cliVars, issued>>

-----------------------------------------------------------------------------
(***************************************************************************)
(* HandleLogin reads the user's record once, spends its time in Argon2,    *)
(* and issues a token from the record it read.                             *)
(***************************************************************************)
LoginReads(r, u) ==
  /\ r \notin served /\ login[r] = NoLogin
  /\ Exists(lookup, u) /\ ~lookup.disabled[u]
  /\ login' = [login EXCEPT ![r] = Token(u, lookup)]
  /\ UNCHANGED <<fileVars, cliVars, lookup, watchVars, served, issued, barred>>

\* Too many attempts, no such user, a disabled one, or a wrong password.
LoginRefused(r) ==
  /\ r \notin served
  /\ login' = [login EXCEPT ![r] = NoLogin]
  /\ served' = served \union {r}
  /\ UNCHANGED <<fileVars, cliVars, lookup, watchVars, issued, barred>>

LoginIssues(r) ==
  /\ login[r] # NoLogin
  /\ issued' = issued \union {login[r]}
  /\ barred' = IF Superseded(login[r], lookup) THEN barred \union {login[r]} ELSE barred
  /\ login' = [login EXCEPT ![r] = NoLogin]
  /\ served' = served \union {r}
  /\ UNCHANGED <<fileVars, cliVars, lookup, watchVars>>

\* tryVerifyInternal, for a token whose signature and expiry are in order.
Accepts(t) ==
  /\ Exists(lookup, t.sub)
  /\ ~lookup.disabled[t.sub]
  /\ lookup.version[t.sub] = t.ver

-----------------------------------------------------------------------------
Next ==
  \/ Begin \/ EndWithoutSave
  \/ \E u \in Users : Command(u)
  \/ DeliverEvent \/ LoseEvent \/ Poll \/ Fire
  \/ ReloadReads \/ ReloadFails \/ ReloadReplaces
  \/ CloseWatcher \/ Restart
  \/ \E r \in Requests : LoginRefused(r) \/ LoginIssues(r) \/ \E u \in Users : LoginReads(r, u)

\* The ticker ticks, timers fire, a reload under way goes on, and reading the file does
\* not fail for ever.  Nothing is assumed of events, commands and clients.
Fairness ==
  /\ WF_vars(Poll) /\ WF_vars(Fire)
  /\ WF_vars(ReloadReads \/ ReloadFails) /\ SF_vars(ReloadReads)
  /\ WF_vars(ReloadReplaces)

Spec == Init /\ [][Next]_vars /\ Fairness

-----------------------------------------------------------------------------
\* What Validate demands of a saved file is part of the types.
TypeOK ==
  /\ file \in Tables /\ next \in 1 .. MaxVersion /\ Valid(file, next)
  /\ commands \in 0 .. MaxCommands /\ holding \in BOOLEAN
  /\ copy \in Tables /\ copyNext \in 1 .. MaxVersion
  /\ lookup \in Tables
  /\ watching \in {"on", "failed", "closed"}
  /\ event \in BOOLEAN /\ reloadPending \in BOOLEAN
  /\ reloading \in {"no", "reading", "loaded"} /\ loaded \in Tables
  /\ login \in [Requests -> Tokens \union {NoLogin}]
  /\ served \subseteq Requests /\ issued \subseteq Tokens
  /\ barred \subseteq issued

\* A token that the server has refused because its user was deleted or its tokens
\* were revoked is never accepted again: not after the user is added anew, not by a
\* reload that read the file earlier, not after a restart
\* (docs/server-spec.md:183: no account ever reuses a revoked version).
BarredForGood == \A t \in barred : ~Accepts(t)

\* Once the commands have stopped the server comes to know the file as it is, however
\* events, timers and reloads fell, while its watcher is in service.
CatchesUp == <>[](watching = "on") => <>[](lookup = file)

=============================================================================
