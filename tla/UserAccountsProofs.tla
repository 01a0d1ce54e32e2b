------------------------- MODULE UserAccountsProofs -------------------------
(***************************************************************************)
(* A token once refused stays refused, proved for any users, requests,     *)
(* number of commands and largest version.  The argument: a version that   *)
(* the file has left is never written to it again, because the watermark   *)
(* is above every version in use, and the three tables, the server's, the  *)
(* one a reload has read, and the file, only follow one another.           *)
(***************************************************************************)
EXTENDS UserAccounts, TLAPS

\* A command that holds the lock works on the file as it is.
Held == holding => copy = file /\ copyNext = next

\* The watermark is above every version that was ever handed out.
Below ==
  /\ \A u \in Users : lookup.version[u] < next /\ loaded.version[u] < next
  /\ \A t \in issued : t.ver < next
  /\ \A r \in Requests : login[r].ver < next

\* A table that comes later has superseded whatever an earlier one has.
Follows(t) ==
  /\ Superseded(t, lookup) => Superseded(t, file)
  /\ reloading = "loaded" =>
       /\ Superseded(t, lookup) => Superseded(t, loaded)
       /\ Superseded(t, loaded) => Superseded(t, file)

\* A version that the server's table shares with the file is not new to a reload.
Agree ==
  reloading = "loaded" =>
    \A u \in Users : lookup.version[u] > 0 /\ lookup.version[u] = file.version[u]
                       => loaded.version[u] = file.version[u]

BarredAreSuperseded == \A t \in barred : Superseded(t, lookup)

IInv ==
  /\ TypeOK /\ Held /\ Below /\ Agree /\ BarredAreSuperseded
  /\ \A t \in issued : Follows(t)
  /\ \A r \in Requests : login[r] # NoLogin => Follows(login[r])

\* What a command may save: each user keeps its version, is gone, or has the watermark's.
Successor(table, watermark) ==
  /\ table \in Tables /\ watermark \in 1 .. MaxVersion /\ watermark >= next
  /\ \A u \in Users : table.version[u] \in {file.version[u], 0, next}

-----------------------------------------------------------------------------
\* A request under way has read a token of a user.
LEMMA LoginIsToken ==
  ASSUME TypeOK, NEW r \in Requests, login[r] # NoLogin
  PROVE  login[r] \in Tokens
  BY DEF TypeOK

\* Saving such a table keeps the invariant (users.Save).
LEMMA SaveKeeps ==
  ASSUME IInv, NEW table, NEW watermark, Successor(table, watermark), Save(table, watermark)
  PROVE  IInv'
<1> USE AccountsAssumption DEF Save, loginVars
<1>1. TypeOK'
  BY DEF IInv, TypeOK, Successor, Valid
<1>2. Held' /\ BarredAreSuperseded'
  BY DEF IInv, Held, BarredAreSuperseded, Superseded
<1>3. Below'
  <2>1. next \in Nat /\ next' \in Nat /\ next' >= next
    BY DEF IInv, TypeOK, Successor
  <2>2. ASSUME NEW u \in Users
        PROVE  lookup.version[u] \in Nat /\ loaded.version[u] \in Nat
    BY DEF IInv, TypeOK, Tables
  <2>3. \A t \in issued : t.ver \in Nat
    BY DEF IInv, TypeOK, Tokens
  <2>4. \A r \in Requests : login[r].ver \in Nat
    BY DEF IInv, TypeOK, Tokens, NoLogin
  <2>. QED  BY <2>1, <2>2, <2>3, <2>4 DEF IInv, Below
<1>4. Agree'
  <2>1. ASSUME NEW u \in Users, reloading = "loaded", lookup.version[u] > 0,
               lookup.version[u] = table.version[u]
        PROVE  loaded.version[u] = table.version[u]
    <3>1. lookup.version[u] < next /\ lookup.version[u] \in Nat /\ next \in Nat
      BY DEF IInv, Below, TypeOK, Tables
    <3>2. table.version[u] = file.version[u]
      BY <2>1, <3>1 DEF Successor
    <3>. QED  BY <2>1, <3>2 DEF IInv, Agree
  <2>. QED  BY <2>1 DEF Agree
<1>5. ASSUME NEW t \in Tokens, t.ver < next, Follows(t)
      PROVE  Follows(t)'
  <2>1. t.ver \in Nat /\ t.ver > 0 /\ t.sub \in Users /\ next \in Nat
    BY DEF Tokens, IInv, TypeOK
  <2>2. Superseded(t, file) => Superseded(t, table)
    BY <1>5, <2>1 DEF Successor, Superseded
  <2>. QED  BY <1>5, <2>2 DEF Follows, Superseded
<1>6. \A t \in issued' : Follows(t)'
  BY <1>5 DEF IInv, TypeOK, Below
<1>7. \A r \in Requests : login'[r] # NoLogin => Follows(login[r])'
  BY <1>5, LoginIsToken DEF IInv, Below
<1>. QED  BY <1>1, <1>2, <1>3, <1>4, <1>6, <1>7 DEF IInv

\* Every command saves such a table, or leaves the file alone (internal/cli/cli.go).
LEMMA CommandKeeps ==
  ASSUME IInv, NEW u \in Users, Command(u)
  PROVE  IInv'
<1> USE AccountsAssumption
<1>1. /\ file \in Tables /\ next \in 1 .. MaxVersion /\ next \in Nat
      /\ \A w \in Users : file.version[w] \in 0 .. MaxVersion
  BY DEF IInv, TypeOK, Tables
<1>2. holding => copy = file /\ copyNext = next
  BY DEF IInv, Held
<1>3. CASE AddUser(u)
  <2> DEFINE table == [version |-> [copy.version EXCEPT ![u] = copyNext],
                       disabled |-> [copy.disabled EXCEPT ![u] = FALSE]]
  <2>1. Successor(table, copyNext + 1)
    BY <1>1, <1>2, <1>3 DEF AddUser, Allocatable, Successor, Tables
  <2>. QED  BY <1>3, <2>1, SaveKeeps DEF AddUser
<1>4. CASE Passwd(u)
  <2>1. Successor(copy, copyNext)
    BY <1>1, <1>2, <1>4 DEF Passwd, Successor
  <2>. QED  BY <1>4, <2>1, SaveKeeps DEF Passwd
<1>5. CASE DeleteUser(u)
  <2> DEFINE table == [version |-> [copy.version EXCEPT ![u] = 0],
                       disabled |-> [copy.disabled EXCEPT ![u] = FALSE]]
  <2>1. Successor(table, copyNext)
    BY <1>1, <1>2, <1>5 DEF DeleteUser, Successor, Tables
  <2>. QED  BY <1>5, <2>1, SaveKeeps DEF DeleteUser
<1>6. CASE RevokeTokens(u)
  <2> DEFINE table == [version |-> [copy.version EXCEPT ![u] = copyNext], disabled |-> copy.disabled]
  <2>1. Successor(table, copyNext + 1)
    BY <1>1, <1>2, <1>6 DEF RevokeTokens, Allocatable, Successor, Tables
  <2>. QED  BY <1>6, <2>1, SaveKeeps DEF RevokeTokens
<1>7. ASSUME NEW disabled \in BOOLEAN, SetDisabled(u, disabled)
      PROVE  IInv'
  <2> DEFINE table == [version |-> copy.version, disabled |-> [copy.disabled EXCEPT ![u] = disabled]]
  <2>1. Successor(table, copyNext)
    BY <1>1, <1>2, <1>7 DEF SetDisabled, Successor, Tables
  <2>. QED  BY <1>7, <2>1, SaveKeeps DEF SetDisabled
<1>. QED  BY <1>3, <1>4, <1>5, <1>6, <1>7 DEF Command

-----------------------------------------------------------------------------
\* A table without users is a table.
LEMMA EmptyIsTable == Empty \in Tables /\ \A u \in Users : Empty.version[u] = 0
<1>1. 0 \in 0 .. MaxVersion
  BY AccountsAssumption
<1>2. [u \in Users |-> 0] \in [Users -> 0 .. MaxVersion]
  BY <1>1
<1>. QED  BY <1>2 DEF Empty, Tables

\* A server that starts without a users file satisfies the invariant.
LEMMA InitEstablishes == Init => IInv
<1> SUFFICES ASSUME Init PROVE IInv
  OBVIOUS
<1> USE AccountsAssumption DEF Init
<1>1. TypeOK
  <2>1. next \in 1 .. MaxVersion /\ 0 \in 0 .. MaxCommands
    OBVIOUS
  <2>2. Valid(file, next)
    BY EmptyIsTable DEF Valid
  <2>3. login \in [Requests -> Tokens \union {NoLogin}]
    OBVIOUS
  <2>. QED  BY <2>1, <2>2, <2>3, EmptyIsTable DEF TypeOK
<1>2. Held /\ Below /\ Agree /\ BarredAreSuperseded
  BY DEF Held, Below, Agree, BarredAreSuperseded, Empty, NoLogin
<1>. QED  BY <1>1, <1>2 DEF IInv

\* A command begins or ends without saving, the watcher schedules, or it closes: no
\* table and no token moves.
LEMMA QuietKeeps ==
  ASSUME IInv, \/ Begin \/ EndWithoutSave \/ DeliverEvent \/ LoseEvent \/ Poll \/ Fire
               \/ ReloadFails \/ CloseWatcher \/ UNCHANGED vars
  PROVE  IInv'
<1> USE AccountsAssumption DEF Begin, EndWithoutSave, DeliverEvent, LoseEvent, Poll, Fire,
       ReloadFails, CloseWatcher, ScheduleReload, vars, fileVars, cliVars, watchVars, loginVars
<1>1. TypeOK'
  <2>1. CASE Begin
    BY <2>1 DEF IInv, TypeOK, Valid
  <2>2. CASE EndWithoutSave
    BY <2>2 DEF IInv, TypeOK, Valid
  <2>3. CASE DeliverEvent \/ LoseEvent \/ Poll
    BY <2>3 DEF IInv, TypeOK, Valid
  <2>4. CASE Fire
    BY <2>4 DEF IInv, TypeOK, Valid
  <2>5. CASE ReloadFails \/ CloseWatcher
    BY <2>5 DEF IInv, TypeOK, Valid
  <2>6. CASE UNCHANGED vars
    BY <2>6 DEF IInv, TypeOK, Valid
  <2>. QED  BY <2>1, <2>2, <2>3, <2>4, <2>5, <2>6
<1>2. Held' /\ Below' /\ BarredAreSuperseded'
  BY DEF IInv, Held, Below, BarredAreSuperseded, Superseded
<1>3. /\ UNCHANGED <<file, lookup, loaded, login, issued>>
      /\ reloading' = "loaded" => reloading = "loaded"
  OBVIOUS
<1>4. Agree'
  BY <1>3 DEF IInv, Agree
<1>5. /\ \A t \in issued' : Follows(t)'
      /\ \A r \in Requests : login'[r] # NoLogin => Follows(login[r])'
  BY <1>3 DEF IInv, Follows, Superseded
<1>. QED  BY <1>1, <1>2, <1>4, <1>5 DEF IInv

\* The table a reload reads is the file (users.Load).
LEMMA ReloadReadsKeeps ==
  ASSUME IInv, ReloadReads
  PROVE  IInv'
<1> USE AccountsAssumption DEF ReloadReads, fileVars, cliVars, loginVars
<1>1. TypeOK'
  BY DEF IInv, TypeOK, Valid
<1>2. Held' /\ Agree' /\ BarredAreSuperseded'
  BY DEF IInv, Held, Agree, BarredAreSuperseded, Superseded
<1>3. Below'
  BY DEF IInv, Below, TypeOK, Valid
<1>4. /\ \A t \in issued' : Follows(t)'
      /\ \A r \in Requests : login'[r] # NoLogin => Follows(login[r])'
  BY DEF IInv, Follows, Superseded
<1>. QED  BY <1>1, <1>2, <1>3, <1>4 DEF IInv

\* The server takes the table over (ReplaceUserLookup): what it refused, the table had
\* superseded as well.
LEMMA ReloadReplacesKeeps ==
  ASSUME IInv, ReloadReplaces
  PROVE  IInv'
<1> USE AccountsAssumption DEF ReloadReplaces, fileVars, cliVars, loginVars
<1>1. TypeOK'
  BY DEF IInv, TypeOK, Valid
<1>2. Held' /\ Below' /\ Agree'
  BY DEF IInv, Held, Below, Agree
<1>3. BarredAreSuperseded'
  BY DEF IInv, TypeOK, Follows, BarredAreSuperseded, Superseded
<1>4. /\ \A t \in issued' : Follows(t)'
      /\ \A r \in Requests : login'[r] # NoLogin => Follows(login[r])'
  BY DEF IInv, Follows, Superseded
<1>. QED  BY <1>1, <1>2, <1>3, <1>4 DEF IInv

\* A new process starts from the file (loadRuntime), which is behind no table.
LEMMA RestartKeeps ==
  ASSUME IInv, Restart
  PROVE  IInv'
<1> USE AccountsAssumption DEF Restart, fileVars, cliVars
<1>1. TypeOK'
  BY EmptyIsTable DEF IInv, TypeOK, Valid
<1>2. Held' /\ Agree'
  BY DEF IInv, Held, Agree
<1>3. Below'
  BY DEF IInv, Below, TypeOK, Valid, Empty, NoLogin
<1>4. BarredAreSuperseded'
  BY DEF IInv, TypeOK, Follows, BarredAreSuperseded, Superseded
<1>5. /\ \A t \in issued' : Follows(t)'
      /\ \A r \in Requests : login'[r] # NoLogin => Follows(login[r])'
  BY DEF IInv, Follows, Superseded
<1>. QED  BY <1>1, <1>2, <1>3, <1>4, <1>5 DEF IInv

\* A login reads a version of the server's table, so the later tables may only have it
\* in the right order (HandleLogin, the lookup).
LEMMA LoginReadsKeeps ==
  ASSUME IInv, NEW r \in Requests, NEW u \in Users, LoginReads(r, u)
  PROVE  IInv'
<1> USE AccountsAssumption DEF LoginReads, fileVars, cliVars, watchVars
<1>1. Token(u, lookup) \in Tokens /\ Token(u, lookup).ver < next
  BY DEF Token, Tokens, Exists, IInv, TypeOK, Tables, Below
<1>2. TypeOK'
  BY <1>1 DEF IInv, TypeOK, Valid
<1>3. Held' /\ Agree' /\ BarredAreSuperseded'
  BY DEF IInv, Held, Agree, BarredAreSuperseded, Superseded
<1>4. Below'
  BY <1>1 DEF IInv, Below, TypeOK
<1>5. Follows(Token(u, lookup))
  <2>1. lookup.version[u] > 0 /\ lookup.version[u] = file.version[u] /\ reloading = "loaded"
          => loaded.version[u] = file.version[u]
    BY DEF IInv, Agree
  <2>. QED  BY <2>1 DEF Follows, Superseded, Token, Exists
<1>6. \A t \in issued' : Follows(t)'
  BY DEF IInv, Follows, Superseded
<1>7. \A q \in Requests : login'[q] # NoLogin => Follows(login'[q])
  BY <1>5 DEF IInv, TypeOK
<1>8. \A q \in Requests : login'[q] # NoLogin => Follows(login[q])'
  BY <1>7 DEF Follows, Superseded
<1>. QED  BY <1>2, <1>3, <1>4, <1>6, <1>8 DEF IInv

\* A login ends with or without a token (HandleLogin).
LEMMA LoginEndsKeeps ==
  ASSUME IInv, NEW r \in Requests, LoginRefused(r) \/ LoginIssues(r)
  PROVE  IInv'
<1> USE AccountsAssumption DEF LoginRefused, LoginIssues, fileVars, cliVars, watchVars
<1>1. LoginIssues(r) => login[r] \in Tokens /\ login[r].ver < next
  BY LoginIsToken DEF IInv, Below
<1>2. TypeOK'
  BY <1>1 DEF IInv, TypeOK, Valid
<1>3. Held' /\ Agree' /\ BarredAreSuperseded'
  BY DEF IInv, Held, Agree, BarredAreSuperseded, Superseded
<1>4. Below'
  BY <1>1 DEF IInv, Below, TypeOK, NoLogin
<1>5. \A t \in issued' : Follows(t)'
  BY DEF IInv, Follows, Superseded
<1>6. \A q \in Requests : login'[q] # NoLogin => Follows(login[q])'
  BY DEF IInv, TypeOK, Follows, Superseded
<1>. QED  BY <1>2, <1>3, <1>4, <1>5, <1>6 DEF IInv

\* Every step of commands, watcher, logins and restarts keeps the invariant.
LEMMA NextKeeps == IInv /\ [Next]_vars => IInv'
  BY QuietKeeps, CommandKeeps, ReloadReadsKeeps, ReloadReplacesKeeps, RestartKeeps,
     LoginReadsKeeps, LoginEndsKeeps
  DEF Next

-----------------------------------------------------------------------------
\* The accounts keep their types, and every file that is saved is one Validate accepts:
\* no command runs past the largest version.
THEOREM AccountTypes == Spec => []TypeOK
<1>1. IInv => TypeOK
  BY DEF IInv
<1>. QED  BY <1>1, InitEstablishes, NextKeeps, PTL DEF Spec

\* A token that the server's table has once superseded is never accepted again,
\* whatever commands, reloads, restarts and logins follow (tryVerifyInternal).
THEOREM BarredStayBarred == Spec => []BarredForGood
<1>1. IInv => BarredForGood
  BY DEF IInv, BarredAreSuperseded, BarredForGood, Superseded, Accepts
<1>. QED  BY <1>1, InitEstablishes, NextKeeps, PTL DEF Spec

=============================================================================
