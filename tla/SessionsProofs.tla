--------------------------- MODULE SessionsProofs ---------------------------
(***************************************************************************)
(* What Sessions guarantees for any number of accounts, sessions and       *)
(* request goroutines, whatever the interleaving and whatever fails.       *)
(*                                                                         *)
(* The invariant has two halves: what the tables say (TablesOK) and what a *)
(* handler in flight may rely on about the rows it has read (Good).  Every *)
(* step leaves the tables in order, moves them Onward, and puts at most    *)
(* one worker in a new position, which is Good; the others stay Good       *)
(* because nothing that moves Onward can invalidate what they hold.        *)
(***************************************************************************)
EXTENDS Sessions, TLAPS

\* A row that exists or existed belongs to somebody.
Owned == \A s \in SessionIds : session[s] # "absent" => owner[s] \in Users

TablesOK ==
  /\ account \in [Users -> Account]
  /\ session \in [SessionIds -> RowStates]
  /\ owner \in [SessionIds -> Users \cup {Nobody}]
  /\ root \in [SessionIds -> SessionIds \cup {NoSession}]
  /\ exchanges \in [SessionIds -> Nat]
  /\ ends \in [Users -> Nat]
  /\ Owned
  /\ ExchangedTokenIsDead

\* What a handler in flight holds: an account; past a session lookup, the id of
\* a row that was there; past the middleware, a moment `seen` that has been, and
\* an account that is active or has been ended since.
Good(p) ==
  /\ req[p].at # "idle" => req[p].user \in Users
  /\ req[p].at \in {"refreshUser", "refreshRevoke", "rotate", "authUser", "authed"} =>
       req[p].sess \in SessionIds /\ session[req[p].sess] # "absent"
  /\ req[p].at \in {"authUser", "authed"} => req[p].seen <= ends[req[p].user]
  /\ req[p].at = "authed" =>
       account[req[p].user].active \/ req[p].seen < ends[req[p].user]

\* The inductive invariant.
IInv ==
  /\ TablesOK
  /\ req \in [Workers -> Request]
  /\ \A p \in Workers : Good(p)

\* What no step undoes: a row once inserted, the end of a session, and the end
\* of an account.
Onward ==
  /\ \A s \in SessionIds :
       /\ session[s] # "absent" => session'[s] # "absent"
       /\ session[s] \in Dead => session'[s] \in Dead
  /\ \A u \in Users :
       /\ ends[u] <= ends'[u]
       /\ account[u].active => account'[u].active \/ ends[u] < ends'[u]

-----------------------------------------------------------------------------
\* Revoking a row never makes it live, nor unmakes it.
LEMMA RevokedIsNeverLive ==
  ASSUME NEW state \in RowStates
  PROVE  /\ Revoked(state) \in RowStates \ {"live"}
         /\ state \in Dead \cup {"live"} => Revoked(state) \in Dead
         /\ (Revoked(state) = "absent") <=> (state = "absent")
  BY DEF Revoked, RowStates, Dead

\* A worker without a request is typed like any other.
LEMMA IdleIsRequest == Idle \in Request
  BY SessionsAssumption DEF Idle, Request, Stages

\* Storing a password leaves who is active alone.
LEMMA PasswordKeepsActive ==
  ASSUME account \in [Users -> Account], NEW u \in Users,
         NEW pw \in Passwords \cup {NoPassword}, SetPassword(u, pw)
  PROVE  /\ account' \in [Users -> Account]
         /\ \A v \in Users : account'[v].active = account[v].active
  <1>1. account[u] \in Account
    OBVIOUS
  <1>2. account'[u] = [[account[u] EXCEPT !.pw = pw] EXCEPT !.legacy = FALSE]
    BY DEF SetPassword
  <1>3. account'[u] = [active |-> account[u].active, erased |-> account[u].erased,
                       legacy |-> FALSE, pw |-> pw]
    BY <1>1, <1>2 DEF Account
  <1>4. /\ account' = [account EXCEPT ![u] = account'[u]]
        /\ account'[u].active = account[u].active
        /\ account'[u] \in Account
    <2>1. account[u].active \in BOOLEAN /\ account[u].erased \in BOOLEAN
      BY <1>1 DEF Account
    <2>2. account'[u] \in Account /\ account'[u].active = account[u].active
      BY <1>3, <2>1 DEF Account
    <2> QED BY <2>2 DEF SetPassword
  <1> QED BY <1>4

\* Switching one account leaves the others alone.
LEMMA SwitchOne ==
  ASSUME account \in [Users -> Account], NEW u \in Users, NEW b \in BOOLEAN,
         account' = [account EXCEPT ![u].active = b]
  PROVE  /\ account' \in [Users -> Account]
         /\ account'[u].active = b
         /\ \A v \in Users \ {u} : account'[v] = account[v]
  <1>1. account[u] \in Account
    OBVIOUS
  <1>2. account'[u] = [account[u] EXCEPT !.active = b]
    OBVIOUS
  <1>3. account'[u] \in Account /\ account'[u].active = b
    BY <1>1, <1>2 DEF Account
  <1> QED BY <1>3

\* Ending an account is counted when it was active.
LEMMA EndIsCounted ==
  ASSUME TablesOK, NEW u \in Users, SetInactive(u), UNCHANGED <<session, owner, root, exchanges>>
  PROVE  TablesOK' /\ Onward
  <1>1. /\ account' \in [Users -> Account]
        /\ \A v \in Users \ {u} : account'[v] = account[v]
    BY SwitchOne DEF TablesOK, SetInactive
  <1>2. /\ ends' \in [Users -> Nat]
        /\ \A v \in Users \ {u} : ends'[v] = ends[v]
        /\ ends[u] <= ends'[u]
        /\ account[u].active => ends[u] < ends'[u]
    BY DEF TablesOK, SetInactive
  <1>3. \A v \in Users : ends[v] <= ends'[v]
    BY <1>2 DEF TablesOK
  <1> QED BY <1>1, <1>2, <1>3 DEF TablesOK, Onward, Owned, ExchangedTokenIsDead

\* A step that changes accounts only, and deactivates none, is in order.
LEMMA OnlyAccounts ==
  ASSUME TablesOK, account' \in [Users -> Account],
         \A v \in Users : account[v].active => account'[v].active,
         UNCHANGED <<session, owner, history>>
  PROVE  TablesOK' /\ Onward
  BY DEF TablesOK, Onward, Owned, ExchangedTokenIsDead, history

\* A step that touches no table keeps them in order.
LEMMA TablesUntouched ==
  ASSUME TablesOK, UNCHANGED <<tables, history>>
  PROVE  TablesOK' /\ Onward
  BY DEF TablesOK, Onward, Owned, ExchangedTokenIsDead, tables, history

\* A handler that does not move keeps what it relies on.
LEMMA OthersStayGood ==
  ASSUME TablesOK, TablesOK', Onward, req \in [Workers -> Request],
         NEW p \in Workers, req'[p] = req[p], Good(p)
  PROVE  Good(p)'
  <1>1. req[p] \in Request
    OBVIOUS
  <1>2. req[p].seen \in Nat /\ req[p].at \in Stages
    BY <1>1 DEF Request
  <1>3. req[p].user \in Users => ends[req[p].user] \in Nat /\ ends'[req[p].user] \in Nat
    BY DEF TablesOK
  <1> QED BY <1>2, <1>3 DEF Good, Onward, Stages

\* The argument every action shares.
LEMMA OneStep ==
  ASSUME IInv, TablesOK', Onward, req' \in [Workers -> Request],
         \A p \in Workers : req'[p] = req[p] \/ Good(p)'
  PROVE  IInv'
  <1>1. ASSUME NEW p \in Workers PROVE Good(p)'
    BY OthersStayGood DEF IInv
  <1> QED BY <1>1 DEF IInv

\* A worker that finishes holds nothing.
LEMMA FinishIsGood ==
  ASSUME req \in [Workers -> Request], NEW p \in Workers, Finish(p)
  PROVE  /\ req' \in [Workers -> Request]
         /\ \A q \in Workers : req'[q] = req[q] \/ Good(q)'
  BY IdleIsRequest DEF Finish, Become, Good, Idle

-----------------------------------------------------------------------------
LEMMA InvariantHoldsInitially == Init => IInv
  BY IdleIsRequest, SessionsAssumption
  DEF Init, IInv, TablesOK, Owned, ExchangedTokenIsDead, Good, Idle, RowStates

\* Every step of every handler, of the clock and of a failure preserves it.
LEMMA InvariantIsPreserved == IInv /\ [Next]_vars => IInv' /\ Onward
  <1> SUFFICES ASSUME IInv, [Next]_vars PROVE IInv' /\ Onward
    OBVIOUS
  <1>1. ASSUME NEW p \in Workers, NEW u \in Users, LoginLookup(p, u)
       PROVE  IInv' /\ Onward
    <2>1. TablesOK' /\ Onward
      BY <1>1, TablesUntouched DEF LoginLookup, IInv
    <2>2. PICK at \in {"upgrade", "open"} : Become(p, Found(u, at))
      BY <1>1 DEF LoginLookup
    <2>3. account[u].active \in BOOLEAN /\ account[u].pw \in Passwords \cup {NoPassword}
      BY DEF IInv, TablesOK, Account
    <2>4. req' \in [Workers -> Request] /\ Good(p)'
      BY <2>2, <2>3, SessionsAssumption DEF Found, Become, IInv, Good, Request, Stages
    <2>5. \A q \in Workers : req'[q] = req[q] \/ Good(q)'
      BY <2>2, <2>4 DEF IInv, Become
    <2> QED BY <2>1, <2>4, <2>5, OneStep
  <1>2. ASSUME NEW p \in Workers, NEW u \in Users, LoginDirectory(p, u)
       PROVE  IInv' /\ Onward
    <2>1. TablesOK' /\ Onward
      BY <1>2, TablesUntouched DEF LoginDirectory, IInv
    <2>2. req' \in [Workers -> Request]
      BY <1>2, SessionsAssumption
      DEF LoginDirectory, IInv, TablesOK, Owned, Good, Account, Request, Stages, Idle, Become, Finish
    <2>3. Good(p)'
      BY <1>2, <2>1
      DEF LoginDirectory, IInv, TablesOK, Owned, Onward, Good, Account, Request, RowStates, Idle, Become, Finish, tables, history
    <2>4. \A q \in Workers : req'[q] = req[q] \/ Good(q)'
      BY <1>2, <2>3 DEF LoginDirectory, IInv, Become, Finish
    <2> QED BY <2>1, <2>2, <2>4, OneStep
  <1>3. ASSUME NEW p \in Workers, LoginUpgrade(p)
       PROVE  IInv' /\ Onward
    <2>1. TablesOK' /\ Onward
      <3>1. req[p].user \in Users /\ req[p].pw \in Passwords \cup {NoPassword}
        BY <1>3 DEF LoginUpgrade, IInv, Good, Request
      <3>2. /\ account' \in [Users -> Account]
            /\ \A v \in Users : account'[v].active = account[v].active
        <4>1. account \in [Users -> Account]
          BY DEF IInv, TablesOK
        <4> QED BY <1>3, <3>1, <4>1, PasswordKeepsActive DEF LoginUpgrade
      <3> QED BY <1>3, <3>2, OnlyAccounts DEF LoginUpgrade, IInv
    <2>2. /\ req' \in [Workers -> Request]
          /\ \A q \in Workers : req'[q] = req[q] \/ Good(q)'
      <3>1. CASE req[p].active
        BY <1>3, <3>1 DEF LoginUpgrade, Become, IInv, Good, Request, Stages
      <3>2. CASE ~req[p].active
        BY <1>3, <3>2, FinishIsGood DEF LoginUpgrade, IInv
      <3> QED BY <3>1, <3>2
    <2> QED BY <2>1, <2>2, OneStep
  <1>4. ASSUME NEW p \in Workers, NEW s \in SessionIds, OpenSession(p, s)
       PROVE  IInv' /\ Onward
    <2>1. TablesOK' /\ Onward
      BY <1>4, RevokedIsNeverLive
      DEF OpenSession, CreateSession, IInv, Good, TablesOK, Onward, Owned, ExchangedTokenIsDead, Account, RowStates, Dead, history
    <2>2. Finish(p)
      BY <1>4 DEF OpenSession
    <2> QED BY <2>1, <2>2, FinishIsGood, OneStep DEF IInv
  <1>5. ASSUME NEW p \in Workers, NEW s \in SessionIds, RefreshByToken(p, s)
       PROVE  IInv' /\ Onward
    <2>1. TablesOK' /\ Onward
      BY <1>5, TablesUntouched DEF RefreshByToken, IInv
    <2>2. req' \in [Workers -> Request]
      BY <1>5, SessionsAssumption
      DEF RefreshByToken, IsLive, IInv, TablesOK, Owned, Good, Account, Request, Stages, Idle, Become, Finish
    <2>3. Good(p)'
      BY <1>5, <2>1
      DEF RefreshByToken, IsLive, IInv, TablesOK, Owned, Onward, Good, Account, Request, RowStates, Idle, Become, Finish, tables, history
    <2>4. \A q \in Workers : req'[q] = req[q] \/ Good(q)'
      BY <1>5, <2>3 DEF RefreshByToken, IsLive, IInv, Become, Finish
    <2> QED BY <2>1, <2>2, <2>4, OneStep
  <1>6. ASSUME NEW p \in Workers, RefreshUser(p)
       PROVE  IInv' /\ Onward
    <2>1. TablesOK' /\ Onward
      BY <1>6, TablesUntouched DEF RefreshUser, IInv
    <2>2. req' \in [Workers -> Request]
      BY <1>6, SessionsAssumption
      DEF RefreshUser, IInv, TablesOK, Owned, Good, Account, Request, Stages, Idle, Become, Finish
    <2>3. Good(p)'
      BY <1>6, <2>1
      DEF RefreshUser, IInv, TablesOK, Owned, Onward, Good, Account, Request, RowStates, Idle, Become, Finish, tables, history
    <2>4. \A q \in Workers : req'[q] = req[q] \/ Good(q)'
      BY <1>6, <2>3 DEF RefreshUser, IInv, Become, Finish
    <2> QED BY <2>1, <2>2, <2>4, OneStep
  <1>7. ASSUME NEW p \in Workers, RefreshRevoke(p)
       PROVE  IInv' /\ Onward
    <2>1. TablesOK' /\ Onward
      BY <1>7, RevokedIsNeverLive
      DEF RefreshRevoke, Revoke, IInv, Good, TablesOK, Onward, Owned, ExchangedTokenIsDead, Account, RowStates, Dead, history
    <2>2. Finish(p)
      BY <1>7 DEF RefreshRevoke
    <2> QED BY <2>1, <2>2, FinishIsGood, OneStep DEF IInv
  <1>8. ASSUME NEW p \in Workers, NEW s \in SessionIds, RefreshRotate(p, s)
       PROVE  IInv' /\ Onward
    <2>1. TablesOK' /\ Onward
      BY <1>8, RevokedIsNeverLive
      DEF RefreshRotate, Rotate, IInv, Good, TablesOK, Onward, Owned, ExchangedTokenIsDead, Account, RowStates, Dead, history
    <2>2. Finish(p)
      BY <1>8 DEF RefreshRotate
    <2> QED BY <2>1, <2>2, FinishIsGood, OneStep DEF IInv
  <1>9. ASSUME NEW p \in Workers, NEW s \in SessionIds, AuthSession(p, s)
       PROVE  IInv' /\ Onward
    <2>1. TablesOK' /\ Onward
      BY <1>9, TablesUntouched DEF AuthSession, IInv
    <2>2. req' \in [Workers -> Request]
      BY <1>9, SessionsAssumption
      DEF AuthSession, IsLive, IInv, TablesOK, Owned, Good, Account, Request, Stages, Idle, Become, Finish
    <2>3. Good(p)'
      BY <1>9, <2>1
      DEF AuthSession, IsLive, IInv, TablesOK, Owned, Onward, Good, Account, Request, RowStates, Idle, Become, Finish, tables, history
    <2>4. \A q \in Workers : req'[q] = req[q] \/ Good(q)'
      BY <1>9, <2>3 DEF AuthSession, IsLive, IInv, Become, Finish
    <2> QED BY <2>1, <2>2, <2>4, OneStep
  <1>10. ASSUME NEW p \in Workers, AuthUser(p)
       PROVE  IInv' /\ Onward
    <2>1. TablesOK' /\ Onward
      BY <1>10, TablesUntouched DEF AuthUser, IInv
    <2>2. /\ req' \in [Workers -> Request]
          /\ \A q \in Workers : req'[q] = req[q] \/ Good(q)'
      <3>1. CASE account[req[p].user].active
        <4>1. /\ req[p] \in Request /\ Good(p) /\ req[p].at = "authUser"
              /\ account[req[p].user].pw \in Passwords \cup {NoPassword}
          BY <1>10 DEF AuthUser, IInv, Good, TablesOK, Account
        <4>2. req' = [req EXCEPT ![p] =
                        [req[p] EXCEPT !.at = "authed", !.pw = account[req[p].user].pw]]
          BY <1>10, <3>1 DEF AuthUser, Become
        <4>3. account'[req[p].user].active
          BY <1>10, <3>1 DEF AuthUser, tables
        <4>4. req' \in [Workers -> Request] /\ Good(p)'
          BY <1>10, <4>1, <4>2, <4>3 DEF AuthUser, IInv, Good, Request, Stages, tables, history
        <4> QED BY <4>2, <4>4 DEF IInv
      <3>2. CASE ~account[req[p].user].active
        BY <1>10, <3>2, FinishIsGood DEF AuthUser, IInv
      <3> QED BY <3>1, <3>2
    <2> QED BY <2>1, <2>2, OneStep
  <1>11. ASSUME NEW p \in Workers, Serve(p)
       PROVE  IInv' /\ Onward
    <2>1. TablesOK' /\ Onward
      BY <1>11, TablesUntouched DEF Serve, IInv
    <2>2. Finish(p)
      BY <1>11 DEF Serve
    <2> QED BY <2>1, <2>2, FinishIsGood, OneStep DEF IInv
  <1>12. ASSUME NEW p \in Workers, SweepOthers(p)
       PROVE  IInv' /\ Onward
    <2>1. TablesOK' /\ Onward
      BY <1>12, RevokedIsNeverLive
      DEF SweepOthers, RevokeAllForUserExcept, IInv, Good, TablesOK, Onward, Owned, ExchangedTokenIsDead, Account, RowStates, Dead, history
    <2>2. Finish(p)
      BY <1>12 DEF SweepOthers
    <2> QED BY <2>1, <2>2, FinishIsGood, OneStep DEF IInv
  <1>13. ASSUME NEW p \in Workers, NEW s \in SessionIds, RevokeSession(p, s)
       PROVE  IInv' /\ Onward
    <2>1. TablesOK' /\ Onward
      BY <1>13, RevokedIsNeverLive
      DEF RevokeSession, Revoke, IInv, Good, TablesOK, Onward, Owned, ExchangedTokenIsDead, Account, RowStates, Dead, history
    <2>2. Finish(p)
      BY <1>13 DEF RevokeSession
    <2> QED BY <2>1, <2>2, FinishIsGood, OneStep DEF IInv
  <1>14. ASSUME NEW p \in Workers, NEW pw \in Passwords, ChangeOwnPassword(p, pw)
       PROVE  IInv' /\ Onward
    <2>1. TablesOK' /\ Onward
      <3>1. req[p].user \in Users
        BY <1>14 DEF ChangeOwnPassword, IInv, Good
      <3>2. /\ account' \in [Users -> Account]
            /\ \A v \in Users : account'[v].active = account[v].active
        BY <1>14, <3>1, PasswordKeepsActive DEF ChangeOwnPassword, IInv, TablesOK
      <3> QED BY <1>14, <3>2, OnlyAccounts DEF ChangeOwnPassword, IInv
    <2>2. req' \in [Workers -> Request]
      BY <1>14, SessionsAssumption
      DEF ChangeOwnPassword, SetPassword, IInv, TablesOK, Owned, Good, Account, Request, Stages, Idle, Become, Finish
    <2>3. Good(p)'
      BY <1>14, <2>1
      DEF ChangeOwnPassword, SetPassword, IInv, TablesOK, Owned, Onward, Good, Account, Request, RowStates, Idle, Become, Finish, tables, history
    <2>4. \A q \in Workers : req'[q] = req[q] \/ Good(q)'
      BY <1>14, <2>3 DEF ChangeOwnPassword, SetPassword, IInv, Become, Finish
    <2> QED BY <2>1, <2>2, <2>4, OneStep
  <1>15. ASSUME NEW p \in Workers, SweepAll(p)
       PROVE  IInv' /\ Onward
    <2>1. TablesOK' /\ Onward
      BY <1>15, RevokedIsNeverLive
      DEF SweepAll, RevokeAllForUser, IInv, Good, TablesOK, Onward, Owned, ExchangedTokenIsDead, Account, RowStates, Dead, history
    <2>2. Finish(p)
      BY <1>15 DEF SweepAll
    <2> QED BY <2>1, <2>2, FinishIsGood, OneStep DEF IInv
  <1>16. ASSUME NEW p \in Workers, NEW u \in Users, Deactivate(p, u)
       PROVE  IInv' /\ Onward
    <2>1. TablesOK' /\ Onward
      BY <1>16, EndIsCounted DEF Deactivate, IInv
    <2>2. req' \in [Workers -> Request]
      BY <1>16, SessionsAssumption
      DEF Deactivate, SetInactive, SweepOf, IInv, TablesOK, Owned, Good, Account, Request, Stages, Idle, Become, Finish
    <2>3. Good(p)'
      BY <1>16, <2>1
      DEF Deactivate, SetInactive, SweepOf, IInv, TablesOK, Owned, Onward, Good, Account, Request, RowStates, Idle, Become, Finish, tables, history
    <2>4. \A q \in Workers : req'[q] = req[q] \/ Good(q)'
      BY <1>16, <2>3 DEF Deactivate, SetInactive, SweepOf, IInv, Become, Finish
    <2> QED BY <2>1, <2>2, <2>4, OneStep
  <1>17. ASSUME NEW p \in Workers, NEW u \in Users, ScimDeactivate(p, u)
       PROVE  IInv' /\ Onward
    <2>1. TablesOK' /\ Onward
      BY <1>17, EndIsCounted DEF ScimDeactivate, IInv
    <2>2. req' \in [Workers -> Request]
      BY <1>17, SessionsAssumption
      DEF ScimDeactivate, SetInactive, SweepOf, IInv, TablesOK, Owned, Good, Account, Request, Stages, Idle, Become, Finish
    <2>3. Good(p)'
      BY <1>17, <2>1
      DEF ScimDeactivate, SetInactive, SweepOf, IInv, TablesOK, Owned, Onward, Good, Account, Request, RowStates, Idle, Become, Finish, tables, history
    <2>4. \A q \in Workers : req'[q] = req[q] \/ Good(q)'
      BY <1>17, <2>3 DEF ScimDeactivate, SetInactive, SweepOf, IInv, Become, Finish
    <2> QED BY <2>1, <2>2, <2>4, OneStep
  <1>18. ASSUME NEW p \in Workers, NEW u \in Users, Reactivate(p, u)
       PROVE  IInv' /\ Onward
    <2>1. TablesOK' /\ Onward
      <3>1. /\ account' \in [Users -> Account]
            /\ \A v \in Users : account[v].active => account'[v].active
        BY <1>18, SwitchOne DEF Reactivate, IInv, TablesOK
      <3> QED BY <1>18, <3>1, OnlyAccounts DEF Reactivate, IInv
    <2>2. Finish(p)
      BY <1>18 DEF Reactivate
    <2> QED BY <2>1, <2>2, FinishIsGood, OneStep DEF IInv
  <1>19. ASSUME NEW p \in Workers, NEW u \in Users, Erase(p, u)
       PROVE  IInv' /\ Onward
    <2>1. TablesOK' /\ Onward
      BY <1>19, RevokedIsNeverLive
      DEF Erase, AdminActsOn, RevokeAllForUser, IInv, Good, TablesOK, Onward, Owned, ExchangedTokenIsDead, Account, RowStates, Dead, history
    <2>2. Finish(p)
      BY <1>19 DEF Erase
    <2> QED BY <2>1, <2>2, FinishIsGood, OneStep DEF IInv
  <1>20. ASSUME NEW p \in Workers, NEW u \in Users, NEW pw \in Passwords, ResetPassword(p, u, pw)
       PROVE  IInv' /\ Onward
    <2>1. TablesOK' /\ Onward
      <3>1. /\ account' \in [Users -> Account]
            /\ \A v \in Users : account'[v].active = account[v].active
        BY <1>20, PasswordKeepsActive DEF ResetPassword, IInv, TablesOK
      <3> QED BY <1>20, <3>1, OnlyAccounts DEF ResetPassword, IInv
    <2>2. req' \in [Workers -> Request]
      BY <1>20, SessionsAssumption
      DEF ResetPassword, AdminActsOn, SetPassword, SweepOf, IInv, TablesOK, Owned, Good, Account, Request, Stages, Idle, Become, Finish
    <2>3. Good(p)'
      BY <1>20, <2>1
      DEF ResetPassword, AdminActsOn, SetPassword, SweepOf, IInv, TablesOK, Owned, Onward, Good, Account, Request, RowStates, Idle, Become, Finish, tables, history
    <2>4. \A q \in Workers : req'[q] = req[q] \/ Good(q)'
      BY <1>20, <2>3 DEF ResetPassword, AdminActsOn, SetPassword, SweepOf, IInv, Become, Finish
    <2> QED BY <2>1, <2>2, <2>4, OneStep
  <1>21. ASSUME NEW p \in Workers, Abandon(p)
       PROVE  IInv' /\ Onward
    <2>1. TablesOK' /\ Onward
      BY <1>21, TablesUntouched DEF Abandon, IInv
    <2>2. Finish(p)
      BY <1>21 DEF Abandon
    <2> QED BY <2>1, <2>2, FinishIsGood, OneStep DEF IInv
  <1>22. ASSUME NEW s \in SessionIds, Logout(s)
       PROVE  IInv' /\ Onward
    <2>1. TablesOK' /\ Onward
      BY <1>22, RevokedIsNeverLive
      DEF Logout, Revoke, IsLive, IInv, TablesOK, Onward, Owned, ExchangedTokenIsDead, Account, RowStates, Dead, history
    <2> QED BY <1>22, <2>1, OneStep DEF Logout, IInv
  <1>23. ASSUME NEW s \in SessionIds, Expire(s)
       PROVE  IInv' /\ Onward
    <2>1. TablesOK' /\ Onward
      BY <1>23, RevokedIsNeverLive
      DEF Expire, IsLive, IInv, TablesOK, Onward, Owned, ExchangedTokenIsDead, Account, RowStates, Dead, history
    <2> QED BY <1>23, <2>1, OneStep DEF Expire, IInv
  <1>24. ASSUME NEW s \in SessionIds, Prune(s)
       PROVE  IInv' /\ Onward
    <2>1. TablesOK' /\ Onward
      BY <1>24, RevokedIsNeverLive
      DEF Prune, IInv, TablesOK, Onward, Owned, ExchangedTokenIsDead, Account, RowStates, Dead, history
    <2> QED BY <1>24, <2>1, OneStep DEF Prune, IInv
  <1>25. ASSUME NEW u \in Users, ScimReactivate(u)
       PROVE  IInv' /\ Onward
    <2>1. TablesOK' /\ Onward
      <3>1. /\ account' \in [Users -> Account]
            /\ \A v \in Users : account[v].active => account'[v].active
        BY <1>25, SwitchOne DEF ScimReactivate, IInv, TablesOK
      <3> QED BY <1>25, <3>1, OnlyAccounts DEF ScimReactivate, IInv
    <2> QED BY <1>25, <2>1, OneStep DEF ScimReactivate, IInv
  <1>26. CASE UNCHANGED vars
    <2>1. TablesOK' /\ Onward
      BY <1>26, TablesUntouched DEF vars, IInv
    <2> QED BY <1>26, <2>1, OneStep DEF vars, IInv
  <1> QED
    BY <1>1, <1>2, <1>3, <1>4, <1>5, <1>6, <1>7, <1>8, <1>9, <1>10, <1>11, <1>12, <1>13, <1>14, <1>15, <1>16, <1>17, <1>18, <1>19, <1>20, <1>21, <1>22, <1>23, <1>24, <1>25, <1>26
    DEF Next, SignIn, Refresh, Authenticate, SelfService, Administer, Environment

-----------------------------------------------------------------------------
\* The inductive invariant is an invariant.
THEOREM InvariantHolds == Spec => []IInv
  BY InvariantHoldsInitially, InvariantIsPreserved, PTL DEF Spec

\* Every reachable state is well typed.
THEOREM TypeCorrect == Spec => []TypeOK
  <1>1. IInv => TypeOK
    BY DEF IInv, TablesOK, TypeOK
  <1> QED BY <1>1, InvariantHolds, PTL

\* However logins, refreshes and administrators interleave, and although a
\* session may survive the end of its account, RequireAuth serves nobody whose
\* account had ended before the request arrived.
THEOREM EndedAccountsAreNotServed == Spec => []EndedAccountGetsNoService
  <1>1. IInv => EndedAccountGetsNoService
    BY DEF IInv, Good, EndedAccountGetsNoService
  <1> QED BY <1>1, InvariantHolds, PTL

\* However many exchanges of one refresh token are in flight, once one of them
\* succeeded the token buys nothing for whoever looks it up later.
THEOREM ExchangedTokensAreDead == Spec => []ExchangedTokenIsDead
  <1>1. IInv => ExchangedTokenIsDead
    BY DEF IInv, TablesOK
  <1> QED BY <1>1, InvariantHolds, PTL

\* No step of any handler brings a revoked, expired or pruned session back.
THEOREM RevocationIsForever == Spec => RevocationIsFinal
  <1>1. Onward => \A s \in SessionIds : session[s] \in Dead => session'[s] \in Dead
    BY DEF Onward
  <1> QED BY <1>1, InvariantHolds, InvariantIsPreserved, PTL DEF Spec, RevocationIsFinal

-----------------------------------------------------------------------------
(* One sign-in, one device.                                                *)

Present(s) == session[s] # "absent"

\* A refresh token that some request exchanged a second time.
TwiceIn(r) == \E x \in SessionIds : root[x] = r /\ exchanges[x] > 1

\* A row descends from a row that is or was there, and unless a token of its
\* chain was exchanged twice, one row of the chain at most is still unexchanged.
ChainsOK ==
  /\ \A s \in SessionIds :
       /\ Present(s) => root[s] \in SessionIds
       /\ root[s] \in SessionIds => Present(root[s])
       /\ ~Present(s) => root[s] = NoSession /\ exchanges[s] = 0
  /\ \A s, t \in SessionIds :
       /\ Present(s) /\ Present(t) /\ root[s] = root[t]
       /\ exchanges[s] = 0 /\ exchanges[t] = 0
       => s = t \/ TwiceIn(root[s])

\* Only a sign-in and a rotation insert rows, give them a root or count an
\* exchange; every other step keeps all three.
LEMMA OnlyInsertsTouchChains ==
  ASSUME IInv, [Next]_vars
  PROVE  \/ \E p \in Workers, s \in SessionIds : OpenSession(p, s) \/ RefreshRotate(p, s)
         \/ /\ UNCHANGED <<root, exchanges>>
            /\ \A s \in SessionIds : Present(s)' <=> Present(s)
  <1>1. session \in [SessionIds -> RowStates]
    BY DEF IInv, TablesOK
  <1>2. \A s \in SessionIds : session[s] # "absent" => session'[s] # "absent"
    BY InvariantIsPreserved DEF Onward
  <1>3. ASSUME UNCHANGED session, UNCHANGED <<root, exchanges>>
        PROVE  \A s \in SessionIds : Present(s)' <=> Present(s)
    BY <1>3 DEF Present
  <1>4. ASSUME NEW p \in Workers, SignIn(p), ~ \E s \in SessionIds : OpenSession(p, s)
        PROVE  UNCHANGED <<session, root, exchanges>>
    BY <1>4 DEF SignIn, LoginLookup, LoginDirectory, LoginUpgrade, tables, history
  <1>5. ASSUME NEW p \in Workers, Refresh(p), ~ \E s \in SessionIds : RefreshRotate(p, s)
        PROVE  /\ UNCHANGED <<root, exchanges>>
               /\ \A s \in SessionIds : session[s] = "absent" => session'[s] = "absent"
    BY <1>5, <1>1 DEF Refresh, RefreshUser, RefreshRevoke, RefreshByToken, Revoke, Revoked,
         tables, history
  <1>6. ASSUME NEW p \in Workers, Authenticate(p) \/ SelfService(p)
        PROVE  /\ UNCHANGED <<root, exchanges>>
               /\ \A s \in SessionIds : session[s] = "absent" => session'[s] = "absent"
    BY <1>6, <1>1 DEF Authenticate, AuthUser, AuthSession, SelfService, Serve, SweepOthers,
         RevokeSession, ChangeOwnPassword, Revoke, RevokeAllForUserExcept, Revoked, tables, history
  <1>7. ASSUME NEW p \in Workers, Administer(p)
        PROVE  /\ UNCHANGED <<root, exchanges>>
               /\ \A s \in SessionIds : session[s] = "absent" => session'[s] = "absent"
    BY <1>7, <1>1 DEF Administer, SweepAll, Deactivate, ScimDeactivate, Reactivate, Erase,
         ResetPassword, RevokeAllForUser, Revoked, tables, history
  <1>8. ASSUME Environment
        PROVE  /\ UNCHANGED <<root, exchanges>>
               /\ \A s \in SessionIds : session[s] = "absent" => session'[s] = "absent"
    BY <1>8, <1>1 DEF Environment, Logout, Expire, Prune, ScimReactivate, Abandon, IsLive,
         Revoke, Revoked, tables, history
  <1>9. CASE UNCHANGED vars
    BY <1>9, <1>3 DEF vars, tables, history
  <1> QED
    BY <1>2, <1>3, <1>4, <1>5, <1>6, <1>7, <1>8, <1>9 DEF Next, Present

\* Chains stay in order whatever happens.
LEMMA ChainsArePreserved == IInv /\ ChainsOK /\ [Next]_vars => ChainsOK'
  <1> SUFFICES ASSUME IInv, ChainsOK, [Next]_vars PROVE ChainsOK'
    OBVIOUS
  <1> USE SessionsAssumption
  <1>1. CASE /\ UNCHANGED <<root, exchanges>>
             /\ \A s \in SessionIds : Present(s)' <=> Present(s)
    BY <1>1 DEF ChainsOK, TwiceIn
  <1>2. ASSUME NEW p \in Workers, NEW n \in SessionIds, OpenSession(p, n)
        PROVE  ChainsOK'
    <2>1. /\ session[n] = "absent" /\ exchanges' = exchanges
          /\ session' = [session EXCEPT ![n] = "live"]
          /\ root' = [root EXCEPT ![n] = n]
      BY <1>2 DEF OpenSession, CreateSession
    <2>2. /\ Present(n)' /\ root'[n] = n
          /\ \A s \in SessionIds \ {n} : (Present(s)' <=> Present(s)) /\ root'[s] = root[s]
      BY <2>1 DEF IInv, TablesOK, Present
    <2>3. ~Present(n) /\ \A s \in SessionIds : root[s] # n
      BY <2>1 DEF Present, ChainsOK
    <2>4. \A s \in SessionIds \ {n} : TwiceIn(root[s]) => TwiceIn(root[s])'
      <3> SUFFICES ASSUME NEW s \in SessionIds \ {n}, TwiceIn(root[s])
                   PROVE  TwiceIn(root[s])'
        OBVIOUS
      <3>1. PICK x \in SessionIds : root[x] = root[s] /\ exchanges[x] > 1
        BY DEF TwiceIn
      <3>2. x # n
        <4>1. exchanges[n] = 0
          BY <2>3 DEF ChainsOK
        <4> QED BY <3>1, <4>1
      <3> QED BY <2>1, <2>2, <3>1, <3>2 DEF TwiceIn
    <2> QED BY <2>1, <2>2, <2>3, <2>4 DEF ChainsOK
  <1>3. ASSUME NEW p \in Workers, NEW n \in SessionIds, RefreshRotate(p, n)
        PROVE  ChainsOK'
    <2>1. PICK old \in SessionIds : old = req[p].sess /\ Present(old)
      BY <1>3 DEF RefreshRotate, IInv, Good, Present
    <2>2. /\ session[n] = "absent" /\ n # old
          /\ session' = [session EXCEPT ![old] = Revoked(@), ![n] = "live"]
          /\ root' = [root EXCEPT ![n] = root[old]]
          /\ exchanges' = [exchanges EXCEPT ![old] = @ + 1]
      BY <1>3, <2>1 DEF RefreshRotate, Rotate, Present
    <2>3. /\ session \in [SessionIds -> RowStates]
          /\ root \in [SessionIds -> SessionIds \cup {NoSession}]
          /\ exchanges \in [SessionIds -> Nat]
      BY DEF IInv, TablesOK
    <2>4. Revoked(session[old]) # "absent"
      BY <2>1, <2>3, RevokedIsNeverLive DEF Present
    <2>5. /\ Present(n)' /\ ~Present(n) /\ root'[n] = root[old] /\ exchanges'[n] = 0
          /\ exchanges'[old] = exchanges[old] + 1 /\ exchanges[n] = 0
          /\ \A s \in SessionIds \ {n} : (Present(s)' <=> Present(s)) /\ root'[s] = root[s]
          /\ \A s \in SessionIds \ {old} : exchanges'[s] = exchanges[s]
      BY <2>1, <2>2, <2>3, <2>4 DEF Present, ChainsOK
    <2>6. \A s \in SessionIds : TwiceIn(root[s]) => TwiceIn(root[s])'
      <3> SUFFICES ASSUME NEW s \in SessionIds, TwiceIn(root[s]) PROVE TwiceIn(root[s])'
        OBVIOUS
      <3>1. PICK x \in SessionIds : root[x] = root[s] /\ exchanges[x] > 1
        BY DEF TwiceIn
      <3>2. x # n
        BY <2>5, <3>1
      <3>3. s # n
        <4>1. ASSUME s = n PROVE FALSE
          <5>1. root[x] = NoSession /\ Present(x)
            BY <2>3, <2>5, <3>1, <4>1 DEF ChainsOK
          <5> QED BY <5>1 DEF ChainsOK
        <4> QED BY <4>1
      <3>4. root'[x] = root'[s] /\ exchanges'[x] > 1
        BY <2>1, <2>3, <2>5, <3>1, <3>2, <3>3
      <3> QED BY <3>4 DEF TwiceIn
    <2>7. ASSUME NEW s \in SessionIds, Present(s), root[s] = root[old], exchanges'[s] = 0
          PROVE  TwiceIn(root[old])'
      <3>1. s # old /\ s # n
        BY <2>1, <2>3, <2>5, <2>7
      <3>2. CASE exchanges[old] = 0
        BY <2>1, <2>5, <2>6, <2>7, <3>1, <3>2 DEF ChainsOK
      <3>3. CASE exchanges[old] # 0
        <4>1. exchanges'[old] > 1 /\ root'[old] = root'[n] /\ root'[old] = root[old]
          BY <2>1, <2>3, <2>5, <3>3
        <4> QED BY <2>1, <2>5, <4>1 DEF TwiceIn
      <3> QED BY <3>2, <3>3
    <2>8. \A s \in SessionIds :
            /\ Present(s)' => root'[s] \in SessionIds
            /\ root'[s] \in SessionIds => session'[root'[s]] # "absent"
            /\ ~Present(s)' => root'[s] = NoSession /\ exchanges'[s] = 0
      BY <2>1, <2>2, <2>3, <2>4, <2>5 DEF ChainsOK, Present
    <2>9. ASSUME NEW s \in SessionIds, NEW t \in SessionIds, Present(s)', Present(t)',
                 root'[s] = root'[t], exchanges'[s] = 0, exchanges'[t] = 0
          PROVE  s = t \/ TwiceIn(root[s])'
      <3>1. CASE s = n /\ t = n
        BY <3>1
      <3>2. CASE s = n /\ t # n
        BY <2>5, <2>7, <2>9, <3>2 DEF TwiceIn
      <3>3. CASE s # n /\ t = n
        BY <2>5, <2>7, <2>9, <3>3 DEF TwiceIn
      <3>4. CASE s # n /\ t # n
        <4>1. s # old /\ t # old
          BY <2>1, <2>3, <2>5, <2>9
        <4> QED BY <2>5, <2>6, <2>9, <3>4, <4>1 DEF ChainsOK
      <3> QED BY <3>1, <3>2, <3>3, <3>4
    <2> QED BY <2>8, <2>9 DEF ChainsOK, Present
  <1> QED BY <1>1, <1>2, <1>3, OnlyInsertsTouchChains

\* Along the rotations of one sign-in there is one live session at most, unless
\* somebody presented one of its tokens twice before the first exchange was over.
THEOREM OneDevicePerSignIn == Spec => []OneLivePerSignIn
  <1>1. Init => ChainsOK
    BY SessionsAssumption DEF Init, ChainsOK, Present
  <1>2. IInv /\ ChainsOK => OneLivePerSignIn
    <2> SUFFICES ASSUME IInv, ChainsOK, NEW s \in SessionIds, NEW t \in SessionIds,
                        session[s] = "live", session[t] = "live", root[s] = root[t]
                 PROVE  s = t \/ TwiceIn(root[s])
      BY DEF OneLivePerSignIn, TwiceIn
    <2>1. exchanges[s] = 0 /\ exchanges[t] = 0
      BY DEF IInv, TablesOK, ExchangedTokenIsDead, Dead
    <2> QED BY <2>1 DEF ChainsOK, Present
  <1> QED BY <1>1, <1>2, InvariantHolds, ChainsArePreserved, PTL DEF Spec
=============================================================================
