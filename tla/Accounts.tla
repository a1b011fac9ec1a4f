------------------------------ MODULE Accounts ------------------------------
(***************************************************************************)
(* Accounts, who may administer the installation and what an erased        *)
(* account can still be signed in to with.                                 *)
(*                                                                         *)
(* Every change of an account reads first (who asks, the account it is     *)
(* about, how many other administrators there are) and writes in a later   *)
(* statement; nothing holds what was read until then.  A directory's PUT   *)
(* reads nothing that it uses.                                             *)
(***************************************************************************)
CONSTANTS
  Accounts,
  Requests,  \* calls in flight
  Patches,   \* bound: the changes of role and activation that are asked for
  None

ASSUME AccountsAssumption ==
  /\ Patches \subseteq [role : {"keep", "member", "admin"}, active : {"keep", "on", "off"}]
  /\ None \notin Accounts

VARIABLES
  users,
  request,
  exceptions,  \* history: how the rule about the last administrator was passed
  rekeyed      \* history: erased accounts that were given a key knowingly, or
               \* by a call that had begun before the erasure

accountVars == <<users, request, exceptions, rekeyed>>

\* What an account is signed in to with: its e-mail address or the subject at
\* the identity provider, and the local password.
Keys == {"mail", "link", "password"}

User == [role : {"none", "member", "admin"}, active : BOOLEAN,
            erased : BOOLEAN, keys : SUBSET Keys]

\* `stale`, for the properties: what the call relies on has changed since it
\* read it.
Call == [at : {"free", "load", "count", "write"},
            kind : {"change", "erase", "password", "adopt"},
            by : Accounts \cup {None}, target : Accounts \cup {None},
            patch : Patches \cup {None}, stale : BOOLEAN]

Free == [at |-> "free", kind |-> "change", by |-> None, target |-> None,
         patch |-> None, stale |-> FALSE]

Absent == [role |-> "none", active |-> FALSE, erased |-> FALSE, keys |-> {}]

Exists(u) == users[u].role # "none"

\* isAdmin, behind RequireAuth.
MayAdminister(u) == users[u].role = "admin" /\ users[u].active

\* What OtherActiveAdmins counts.
Administers(a) == a.role = "admin" /\ a.active /\ ~a.erased

Administrators == {u \in Accounts : Administers(users[u])}

-----------------------------------------------------------------------------
(* New accounts.                                                           *)

New(role, keys) == [role |-> role, active |-> TRUE, erased |-> FALSE, keys |-> keys]

Register(u, role) ==
  /\ ~Exists(u) /\ \E by \in Accounts : MayAdminister(by)
  /\ users' = [users EXCEPT ![u] = New(role, {"mail", "password"})]
  /\ UNCHANGED <<request, exceptions, rekeyed>>

\* SCIM, single sign-on with automatic accounts, and Active Directory.
Provision(u, keys) ==
  /\ ~Exists(u)
  /\ users' = [users EXCEPT ![u] = New("member", {"mail"} \cup keys)]
  /\ UNCHANGED <<request, exceptions, rekeyed>>

-----------------------------------------------------------------------------
(* Calls up to their write.                                                *)

Begin(r, at, kind, by, target, patch) ==
  /\ request[r].at = "free"
  /\ request' = [request EXCEPT ![r] =
       [at |-> at, kind |-> kind, by |-> by, target |-> target,
        patch |-> patch, stale |-> FALSE]]
  /\ UNCHANGED <<users, exceptions, rekeyed>>

LosesAdmin(patch) == patch.role = "member" \/ patch.active = "off"

\* UpdateUser: only what may take an administrator is looked at twice.
BeginUpdate(r, by, target, patch) ==
  /\ MayAdminister(by) /\ Exists(target)
  /\ Begin(r, IF LosesAdmin(patch) THEN "load" ELSE "write", "change", None, target, patch)

\* otherAdminRemains: the account, in a first statement.
Load(r) ==
  /\ request[r].at = "load"
  /\ request' = [request EXCEPT ![r].at =
       IF MayAdminister(request[r].target) THEN "count" ELSE "write"]
  /\ UNCHANGED <<users, exceptions, rekeyed>>

\* Mutation: the account itself is counted too.
OthersCountsAll(u) == Administrators

Others(u) == Administrators \ {u}

\* The others, in a second; 409 if there is none.
Count(r) ==
  /\ request[r].at = "count"
  /\ request' = [request EXCEPT ![r] =
       IF Others(request[r].target) = {} THEN Free ELSE [@ EXCEPT !.at = "write"]]
  /\ UNCHANGED <<users, exceptions, rekeyed>>

\* SCIM PATCH and DELETE: the account is loaded at the start.
BeginPatch(r, target, patch) ==
  /\ Exists(target) /\ patch.role = "keep"
  /\ Begin(r, IF LosesAdmin(patch) /\ MayAdminister(target) THEN "count" ELSE "write",
           "change", None, target, patch)

\* The other administrator of an erasure is the one who asks for it.
BeginErase(r, by, target) ==
  /\ MayAdminister(by) /\ Exists(target) /\ by # target
  /\ Begin(r, "write", "erase", by, target, None)

\* One's own password, proved by the old one (a change, or a sign-in that
\* upgrades an old hash before it looks at activation), or somebody's, as
\* administrator.
BeginPassword(r, by, target) ==
  /\ Exists(target)
  /\ IF by = target THEN "password" \in users[by].keys ELSE MayAdminister(by)
  /\ Begin(r, "write", "password", by, target, None)

\* resolveSSOUser: found by e-mail, about to be linked to its subject.
BeginAdopt(r, target) ==
  /\ users[target].active /\ "mail" \in users[target].keys
  /\ Begin(r, "write", "adopt", None, target, None)

-----------------------------------------------------------------------------
(* Writes.                                                                 *)

\* Mutation: the link to the identity provider outlives the erasure.
ErasedKeepsLink(a) ==
  [a EXCEPT !.active = FALSE, !.erased = TRUE, !.keys = a.keys \cap {"link"}]

\* Anonymize; nothing to do a second time.
Erased(a) ==
  IF a.erased THEN a
  ELSE [a EXCEPT !.active = FALSE, !.erased = TRUE, !.keys = {}]

Patched(a, patch) ==
  [a EXCEPT !.role = IF patch.role = "keep" THEN a.role ELSE patch.role,
            !.active = IF patch.active = "keep" THEN a.active ELSE patch.active = "on"]

WithKeys(a, keys) == [a EXCEPT !.keys = a.keys \cup keys]

Written(q, a) ==
  CASE q.kind = "change" -> Patched(a, q.patch)
    [] q.kind = "erase" -> Erased(a)
    [] q.kind = "password" -> WithKeys(a, {"password"})
    [] q.kind = "adopt" -> WithKeys(a, {"link"})

Takes(a, b) == Administers(a) /\ ~Administers(b)

\* What the write of b over the account t, which was a, changes for a call q.
Overtaken(q, t, a, b) ==
  IF q.kind \in {"password", "adopt"} THEN q.target = t /\ ~a.erased /\ b.erased
  ELSE Takes(a, b)

Overtake(t, b) == [q \in Requests |->
  IF request[q].at # "free" /\ Overtaken(request[q], t, users[t], b)
  THEN [request[q] EXCEPT !.stale = TRUE] ELSE request[q]]

Write(r) == LET q == request[r]
                t == q.target
                b == Written(q, users[t]) IN
  /\ q.at = "write"
  /\ users' = [users EXCEPT ![t] = b]
  /\ request' = [Overtake(t, b) EXCEPT ![r] = Free]
  /\ exceptions' = exceptions
       \cup {e \in {"overlap"} : Takes(users[t], b) /\ q.stale}
       \cup {e \in {"tombstone"} : /\ Takes(users[t], b)
                                   /\ q.kind = "erase" /\ users[q.by].erased}
  /\ rekeyed' = rekeyed \cup {u \in {t} :
       /\ users[t].erased /\ q.kind \in {"password", "adopt"}
       /\ q.stale \/ (q.kind = "password" /\ q.by # t)}

\* SCIM PUT: whatever the account is.
Put(u, active, keys) ==
  LET b == WithKeys([users[u] EXCEPT !.active = active], keys) IN
  /\ Exists(u)
  /\ users' = [users EXCEPT ![u] = b]
  /\ request' = Overtake(u, b)
  /\ exceptions' = exceptions \cup {e \in {"put"} : Takes(users[u], b)}
  /\ rekeyed' = IF users[u].erased /\ keys # {} THEN rekeyed \cup {u} ELSE rekeyed

-----------------------------------------------------------------------------
\* seed: one administrator.
AccountsInit ==
  /\ \E u \in Accounts :
       users = [v \in Accounts |->
         IF v = u THEN New("admin", {"mail", "password"}) ELSE Absent]
  /\ request = [r \in Requests |-> Free]
  /\ exceptions = {} /\ rekeyed = {}

Creating(u) ==
  \/ \E role \in {"member", "admin"} : Register(u, role)
  \/ \E keys \in SUBSET {"link"} : Provision(u, keys)

Calling(r, u) ==
  \/ \E by \in Accounts, patch \in Patches : BeginUpdate(r, by, u, patch)
  \/ \E patch \in Patches : BeginPatch(r, u, patch)
  \/ \E by \in Accounts : BeginErase(r, by, u)
  \/ \E by \in Accounts : BeginPassword(r, by, u)
  \/ BeginAdopt(r, u)

Replacing(u) ==
  \E active \in BOOLEAN, keys \in SUBSET {"mail", "link"} : Put(u, active, keys)

AccountsNext ==
  \/ \E u \in Accounts : Creating(u) \/ Replacing(u)
  \/ \E r \in Requests, u \in Accounts : Calling(r, u)
  \/ \E r \in Requests : Load(r) \/ Count(r) \/ Write(r)

AccountsSpec == AccountsInit /\ [][AccountsNext]_accountVars

-----------------------------------------------------------------------------
(* Properties.                                                             *)

AccountsTypeOK ==
  /\ users \in [Accounts -> User]
  /\ request \in [Requests -> Call]
  /\ exceptions \subseteq {"overlap", "tombstone", "put"}
  /\ rekeyed \subseteq Accounts

\* "Demoting or deactivating the last active administrator is refused"
\* (BACKLOG.md:31), for every writer that asks: unless two calls that took an
\* administrator overlapped, a directory replaced one, or an erased account
\* asked for an erasure.
AdministratorRemains == exceptions = {} => Administrators # {}

\* "Enforced on the SCIM path too" (BACKLOG.md:32): one call after the other.
LastAdministratorKept == "overlap" \notin exceptions => Administrators # {}

\* "an erased tombstone cannot sign in" (BACKLOG.md:33): an erased account has
\* nothing to be signed in to with, unless an administrator or a directory gave
\* it a key since, or a call that had read it before the erasure wrote after.
ErasedHasNoKey ==
  \A u \in Accounts : users[u].erased /\ users[u].keys # {} => u \in rekeyed
=============================================================================
