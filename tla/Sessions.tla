------------------------------ MODULE Sessions ------------------------------
(***************************************************************************)
(* Server-side sessions of ProjectView: signing in, rotating the refresh   *)
(* token, authenticating a request, and the handlers that end sessions     *)
(* (logout, password change, deactivation, erasure).                       *)
(*                                                                         *)
(* A handler is a goroutine (a Worker) that issues several SQL statements; *)
(* each statement is atomic, and any other handler may run in between.  A  *)
(* step of this module is one statement (or one transaction) together with *)
(* the Go code up to the next one.  A refresh token and the access tokens  *)
(* minted with it name the same row, so a session id stands for all three. *)
(***************************************************************************)
EXTENDS Naturals, FiniteSets

CONSTANTS
  Users,         \* accounts
  Admins,        \* the accounts whose role is admin (fixed here, see Accounts)
  SessionIds,    \* ids of rows of the sessions table
  Workers,       \* request goroutines that can be in flight at once
  Passwords,     \* passwords people may choose
  NoPassword,    \* an account that signs in through the directory
  Nobody,        \* no account
  NoSession,     \* no session
  Faults,        \* TRUE: a handler may die or fail between two statements
  MaxEnds        \* bound: how often one account is deactivated or erased

ASSUME SessionsAssumption ==
  /\ Admins \subseteq Users
  /\ Nobody \notin Users
  /\ NoSession \notin SessionIds
  /\ NoPassword \notin Passwords
  /\ Faults \in BOOLEAN
  /\ MaxEnds \in Nat

VARIABLES
  account,    \* users: active, anonymised, whether the hash is bcrypt, password
  session,    \* sessions: the state of each row
  owner,      \* sessions.user_id
  req,        \* what each worker is doing, with the values it has read
  root,       \* history: the sign-in a session descends from
  exchanges,  \* history: replacements a session's refresh token has bought
  ends        \* history: how often an account was deactivated or erased

tables == <<account, session, owner>>
history == <<root, exchanges, ends>>
vars == <<tables, req, history>>

-----------------------------------------------------------------------------
Dead == {"revoked", "expired", "deleted"}
RowStates == {"absent", "live"} \cup Dead

Stages == {"idle", "upgrade", "open", "refreshUser", "refreshRevoke",
           "rotate", "authUser", "authed", "sweepAll", "sweepOthers"}

Account == [active : BOOLEAN, erased : BOOLEAN, legacy : BOOLEAN,
            pw : Passwords \cup {NoPassword}]

Request == [at : Stages, user : Users \cup {Nobody},
            sess : SessionIds \cup {NoSession},
            active : BOOLEAN, pw : Passwords \cup {NoPassword}, seen : Nat]

Idle == [at |-> "idle", user |-> Nobody, sess |-> NoSession,
         active |-> FALSE, pw |-> NoPassword, seen |-> 0]

TypeOK ==
  /\ account \in [Users -> Account]
  /\ session \in [SessionIds -> RowStates]
  /\ owner \in [SessionIds -> Users \cup {Nobody}]
  /\ req \in [Workers -> Request]
  /\ root \in [SessionIds -> SessionIds \cup {NoSession}]
  /\ exchanges \in [SessionIds -> Nat]
  /\ ends \in [Users -> Nat]

\* Accounts exist; each has any password (bcrypt or Argon2id) or none.
Init ==
  /\ account \in [Users -> {a \in Account :
                      a.active /\ ~a.erased /\ (a.pw = NoPassword => ~a.legacy)}]
  /\ session = [s \in SessionIds |-> "absent"]
  /\ owner = [s \in SessionIds |-> Nobody]
  /\ req = [p \in Workers |-> Idle]
  /\ root = [s \in SessionIds |-> NoSession]
  /\ exchanges = [s \in SessionIds |-> 0]
  /\ ends = [u \in Users |-> 0]

-----------------------------------------------------------------------------
(* Statements of repo/sessions.go and repo/users.go.                       *)

\* ByToken and IsLive: WHERE revoked_at IS NULL AND expires_at > now().
IsLive(s) == session[s] = "live"

\* UPDATE ... SET revoked_at = now(): a row that is gone is not brought back.
Revoked(state) == IF state \in {"absent", "deleted"} THEN state ELSE "revoked"

\* UPDATE ... WHERE id = $1 AND revoked_at IS NULL.
Revoke(s) == session' = [session EXCEPT ![s] = Revoked(@)]

\* UPDATE ... WHERE user_id = $1 AND revoked_at IS NULL.
RevokeAllForUser(u) ==
  session' = [s \in SessionIds |->
                IF owner[s] = u THEN Revoked(session[s]) ELSE session[s]]

\* UPDATE ... WHERE user_id = $1 AND id <> $2 AND revoked_at IS NULL.
RevokeAllForUserExcept(u, keep) ==
  session' = [s \in SessionIds |->
                IF owner[s] = u /\ s # keep THEN Revoked(session[s]) ELSE session[s]]

\* INSERT INTO sessions: a new row under a fresh id (and a fresh token).
CreateSession(u, s) ==
  /\ session[s] = "absent"
  /\ session' = [session EXCEPT ![s] = "live"]
  /\ owner' = [owner EXCEPT ![s] = u]
  /\ root' = [root EXCEPT ![s] = s]

\* Mutation: the old row is given a new token instead of being replaced, which
\* clears what a revocation wrote.
RotateInPlace(old, next) ==
  /\ session[next] = "absent"
  /\ session' = [session EXCEPT ![old] = "live"]
  /\ exchanges' = [exchanges EXCEPT ![old] = @ + 1]
  /\ UNCHANGED <<owner, root>>

\* Mutation: the replacement is inserted and the old row forgotten.
RotateWithoutRevoking(old, next) ==
  /\ session[next] = "absent"
  /\ session' = [session EXCEPT ![next] = "live"]
  /\ owner' = [owner EXCEPT ![next] = owner[old]]
  /\ root' = [root EXCEPT ![next] = root[old]]
  /\ exchanges' = [exchanges EXCEPT ![old] = @ + 1]

\* One transaction: UPDATE ... WHERE id = $1, whatever state that row is in by
\* now, and INSERT of the replacement.
Rotate(old, next) ==
  /\ session[next] = "absent"
  /\ session' = [session EXCEPT ![old] = Revoked(@), ![next] = "live"]
  /\ owner' = [owner EXCEPT ![next] = owner[old]]
  /\ root' = [root EXCEPT ![next] = root[old]]
  /\ exchanges' = [exchanges EXCEPT ![old] = @ + 1]

\* UPDATE users SET password_hash: always an Argon2id hash.
SetPassword(u, pw) ==
  account' = [account EXCEPT ![u].pw = pw, ![u].legacy = FALSE]

\* UPDATE users SET active = false.
SetInactive(u) ==
  /\ ends[u] < MaxEnds
  /\ account' = [account EXCEPT ![u].active = FALSE]
  /\ ends' = [ends EXCEPT ![u] = IF account[u].active THEN @ + 1 ELSE @]

Become(p, r) == req' = [req EXCEPT ![p] = r]
Finish(p) == Become(p, Idle)

-----------------------------------------------------------------------------
(* POST /api/auth/login.  A refused attempt changes nothing and is left    *)
(* out: the step is enabled only with the right credentials.               *)

\* ByLogin: the row this handler goes on with, whatever others write meanwhile.
Found(u, stage) ==
  [at |-> stage, user |-> u, sess |-> NoSession,
   active |-> account[u].active, pw |-> account[u].pw, seen |-> 0]

LoginLookup(p, u) ==
  /\ req[p] = Idle
  /\ account[u].pw # NoPassword
  /\ \/ account[u].legacy /\ Become(p, Found(u, "upgrade"))
     \/ ~account[u].legacy /\ account[u].active /\ Become(p, Found(u, "open"))
  /\ UNCHANGED <<tables, history>>

\* The bcrypt hash that just verified is re-stored with Argon2id; a failure to
\* is only logged.  Whether the account is active is what the row read before
\* said.
LoginUpgrade(p) ==
  LET u == req[p].user
  IN  /\ req[p].at = "upgrade"
      /\ SetPassword(u, req[p].pw) \/ UNCHANGED account
      /\ IF req[p].active THEN Become(p, [req[p] EXCEPT !.at = "open"]) ELSE Finish(p)
      /\ UNCHANGED <<session, owner, history>>

\* Active Directory and OIDC vouch for the person; the account is read last.
LoginDirectory(p, u) ==
  /\ req[p] = Idle
  /\ account[u].active
  /\ Become(p, [Idle EXCEPT !.at = "open", !.user = u, !.active = TRUE])
  /\ UNCHANGED <<tables, history>>

OpenSession(p, s) ==
  /\ req[p].at = "open"
  /\ CreateSession(req[p].user, s)
  /\ Finish(p)
  /\ UNCHANGED <<account, exchanges, ends>>

-----------------------------------------------------------------------------
(* POST /api/auth/refresh                                                  *)

\* ByToken.  Requests of one page share one refresh (lib/api.ts); two tabs, or a
\* copied cookie, present the same token side by side.
RefreshByToken(p, s) ==
  /\ req[p] = Idle
  /\ IsLive(s)
  /\ Become(p, [Idle EXCEPT !.at = "refreshUser", !.user = owner[s], !.sess = s])
  /\ UNCHANGED <<tables, history>>

RefreshUser(p) ==
  /\ req[p].at = "refreshUser"
  /\ Become(p, [req[p] EXCEPT
                  !.at = IF account[req[p].user].active THEN "rotate" ELSE "refreshRevoke"])
  /\ UNCHANGED <<tables, history>>

RefreshRevoke(p) ==
  /\ req[p].at = "refreshRevoke"
  /\ Revoke(req[p].sess)
  /\ Finish(p)
  /\ UNCHANGED <<account, owner, history>>

RefreshRotate(p, s) ==
  /\ req[p].at = "rotate"
  /\ Rotate(req[p].sess, s)
  /\ Finish(p)
  /\ UNCHANGED <<account, ends>>

-----------------------------------------------------------------------------
(* RequireAuth: the session first, then the account behind it.             *)

AuthSession(p, s) ==
  /\ req[p] = Idle
  /\ IsLive(s)
  /\ Become(p, [Idle EXCEPT !.at = "authUser", !.user = owner[s], !.sess = s,
                            !.seen = ends[owner[s]]])
  /\ UNCHANGED <<tables, history>>

\* Mutation: a live session is taken for an active account.
AuthUserTrustingSession(p) ==
  /\ req[p].at = "authUser"
  /\ Become(p, [req[p] EXCEPT !.at = "authed", !.pw = account[req[p].user].pw])
  /\ UNCHANGED <<tables, history>>

AuthUser(p) ==
  LET a == account[req[p].user]
  IN  /\ req[p].at = "authUser"
      /\ IF a.active
           THEN Become(p, [req[p] EXCEPT !.at = "authed", !.pw = a.pw])
           ELSE Finish(p)
      /\ UNCHANGED <<tables, history>>

-----------------------------------------------------------------------------
(* Authenticated handlers.                                                 *)

\* Any handler that leaves accounts and sessions alone.
Serve(p) ==
  /\ req[p].at = "authed"
  /\ Finish(p)
  /\ UNCHANGED <<tables, history>>

\* DELETE /api/auth/sessions/{id}: only a session of one's own.
RevokeSession(p, s) ==
  /\ req[p].at = "authed"
  /\ IsLive(s) /\ owner[s] = req[p].user
  /\ Revoke(s)
  /\ Finish(p)
  /\ UNCHANGED <<account, owner, history>>

\* POST /api/auth/logout sits outside RequireAuth: it ends the session of the
\* refresh cookie it was sent.
Logout(s) ==
  /\ IsLive(s)
  /\ Revoke(s)
  /\ UNCHANGED <<account, owner, req, history>>

\* POST /api/users/{id}/password on one's own account, the current password
\* having been checked against the row the middleware read.
ChangeOwnPassword(p, pw) ==
  LET u == req[p].user
  IN  /\ req[p].at = "authed"
      /\ req[p].pw # NoPassword
      /\ SetPassword(u, pw)
      /\ Become(p, [req[p] EXCEPT !.at = "sweepOthers"])
      /\ UNCHANGED <<session, owner, history>>

SweepOthers(p) ==
  /\ req[p].at = "sweepOthers"
  /\ RevokeAllForUserExcept(req[p].user, req[p].sess)
  /\ Finish(p)
  /\ UNCHANGED <<account, owner, history>>

\* What an administrator's handler goes on with: the account it acts on.
SweepOf(target) == [Idle EXCEPT !.at = "sweepAll", !.user = target]

AdminActsOn(p, target) ==
  /\ req[p].at = "authed"
  /\ req[p].user \in Admins
  /\ target # req[p].user

ResetPassword(p, target, pw) ==
  /\ AdminActsOn(p, target)
  /\ SetPassword(target, pw)
  /\ Become(p, SweepOf(target))
  /\ UNCHANGED <<session, owner, history>>

\* PUT /api/users/{id} with active = false.  The last-administrator check is a
\* statement of its own whose answer may be stale by now (module Accounts); it is
\* left out here, so the handler may deactivate anybody, its caller included.
Deactivate(p, target) ==
  /\ req[p].at = "authed"
  /\ req[p].user \in Admins
  /\ SetInactive(target)
  /\ Become(p, SweepOf(target))
  /\ UNCHANGED <<session, owner, root, exchanges>>

\* SCIM PATCH and PUT with active = true: no session is looked at.
ScimReactivate(target) ==
  /\ ~account[target].active
  /\ account' = [account EXCEPT ![target].active = TRUE]
  /\ UNCHANGED <<session, owner, req, history>>

\* SCIM PATCH, PUT and DELETE: a service token, no session, the same two steps.
ScimDeactivate(p, target) ==
  /\ req[p] = Idle
  /\ SetInactive(target)
  /\ Become(p, SweepOf(target))
  /\ UNCHANGED <<session, owner, root, exchanges>>

Reactivate(p, target) ==
  /\ req[p].at = "authed"
  /\ req[p].user \in Admins
  /\ ~account[target].active
  /\ account' = [account EXCEPT ![target].active = TRUE]
  /\ Finish(p)
  /\ UNCHANGED <<session, owner, history>>

SweepAll(p) ==
  /\ req[p].at = "sweepAll"
  /\ RevokeAllForUser(req[p].user)
  /\ Finish(p)
  /\ UNCHANGED <<account, owner, history>>

\* POST /api/users/{id}/erase: account and sessions in one transaction.  An
\* account erased before is left as it is, even if reactivated since.
Erase(p, target) ==
  /\ AdminActsOn(p, target)
  /\ ends[target] < MaxEnds
  /\ ~account[target].erased
  /\ account' = [account EXCEPT ![target] =
                   [active |-> FALSE, erased |-> TRUE, legacy |-> FALSE, pw |-> NoPassword]]
  /\ ends' = [ends EXCEPT ![target] = IF account[target].active THEN @ + 1 ELSE @]
  /\ RevokeAllForUser(target)
  /\ Finish(p)
  /\ UNCHANGED <<owner, root, exchanges>>

-----------------------------------------------------------------------------
(* Time and failure.                                                       *)

\* expires_at passes.
Expire(s) ==
  /\ IsLive(s)
  /\ session' = [session EXCEPT ![s] = "expired"]
  /\ UNCHANGED <<account, owner, req, history>>

\* DeleteExpired, run hourly by pruneSessions of every replica.
Prune(s) ==
  /\ session[s] \in {"revoked", "expired"}
  /\ session' = [session EXCEPT ![s] = "deleted"]
  /\ UNCHANGED <<account, owner, req, history>>

\* The process dies, the client hangs up (which cancels the request's context)
\* or a statement fails: what was committed stays, the rest does not happen.
Abandon(p) ==
  /\ Faults
  /\ req[p] # Idle
  /\ Finish(p)
  /\ UNCHANGED <<tables, history>>

-----------------------------------------------------------------------------
SignIn(p) ==
  \/ \E u \in Users : LoginLookup(p, u) \/ LoginDirectory(p, u)
  \/ LoginUpgrade(p)
  \/ \E s \in SessionIds : OpenSession(p, s)

Refresh(p) ==
  \/ RefreshUser(p)
  \/ RefreshRevoke(p)
  \/ \E s \in SessionIds : RefreshByToken(p, s) \/ RefreshRotate(p, s)

Authenticate(p) == AuthUser(p) \/ \E s \in SessionIds : AuthSession(p, s)

Administer(p) ==
  \/ SweepAll(p)
  \/ \E u \in Users :
       \/ Deactivate(p, u)
       \/ ScimDeactivate(p, u)
       \/ Reactivate(p, u)
       \/ Erase(p, u)
       \/ \E pw \in Passwords : ResetPassword(p, u, pw)

SelfService(p) ==
  \/ Serve(p)
  \/ SweepOthers(p)
  \/ \E s \in SessionIds : RevokeSession(p, s)
  \/ \E pw \in Passwords : ChangeOwnPassword(p, pw)

Environment ==
  \/ \E s \in SessionIds : Logout(s) \/ Expire(s) \/ Prune(s)
  \/ \E u \in Users : ScimReactivate(u)
  \/ \E p \in Workers : Abandon(p)

Next ==
  \/ \E p \in Workers :
       SignIn(p) \/ Refresh(p) \/ Authenticate(p) \/ SelfService(p) \/ Administer(p)
  \/ Environment

Spec == Init /\ [][Next]_vars

-----------------------------------------------------------------------------
(* Properties.                                                             *)

\* A session that was revoked, expired or pruned never grants access again,
\* whatever a handler that looked it up earlier does later (Rotate updates the
\* old row by id alone).
RevocationIsFinal ==
  [][\A s \in SessionIds : session[s] \in Dead => session'[s] \in Dead]_vars

\* Nobody is served on an ended account: a request inside a handler belongs to
\* an active account, or had arrived before the account was last ended.  It
\* holds although a login or refresh in flight may insert a session after the
\* deactivation's sweep, because RequireAuth reads the account after the session.
EndedAccountGetsNoService ==
  \A p \in Workers :
    req[p].at = "authed" =>
      account[req[p].user].active \/ req[p].seen < ends[req[p].user]

\* A refresh token that has bought a replacement is dead, however many
\* exchanges of it were in flight.
ExchangedTokenIsDead ==
  \A s \in SessionIds : exchanges[s] > 0 => session[s] \in Dead

\* One sign-in never grows into two devices by itself: along the chain of
\* rotations that starts at a sign-in two sessions are live only when some token
\* of the chain was exchanged twice (see TokenUsedOnce).
OneLivePerSignIn ==
  \A s, t \in SessionIds :
    session[s] = "live" /\ session[t] = "live" /\ root[s] = root[t] =>
      s = t \/ \E r \in SessionIds : root[r] = root[s] /\ exchanges[r] > 1

\* What Rotate's comment promises: a refresh token is usable at most once.
TokenUsedOnce == \A s \in SessionIds : exchanges[s] <= 1
=============================================================================
