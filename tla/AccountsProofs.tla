--------------------------- MODULE AccountsProofs ---------------------------
(***************************************************************************)
(* What Accounts keeps for any number of accounts and calls: somebody can  *)
(* administer the installation unless one of three named exceptions        *)
(* happened, and an erased account is not signed in to by chance.          *)
(*                                                                         *)
(* What a call found when it looked is true until another write makes it   *)
(* stale; a call that is not stale when it writes leaves an administrator. *)
(***************************************************************************)
EXTENDS Accounts, TLAPS

\* A call that may take an administrator and still can rely on what it read.
Guarded(r) ==
  LET q == request[r] IN
  q.at = "write" /\ ~q.stale /\ exceptions = {} =>
    /\ q.kind = "change" /\ LosesAdmin(q.patch) => Others(q.target) # {}
    /\ q.kind = "erase" => Others(q.target) # {} \/ users[q.by].erased

\* A call about to give a key to an erased account knows that it is erased.
Knowing(r) ==
  LET q == request[r] IN
  /\ q.at = "write" /\ q.kind \in {"password", "adopt"} /\ ~q.stale
  /\ users[q.target].erased
  => q.target \in rekeyed \/ (q.kind = "password" /\ q.by # q.target)

\* What a call in flight is made of.
WellFormed(r) ==
  LET q == request[r] IN
  q.at # "free" =>
    /\ q.target \in Accounts
    /\ q.at \in {"load", "count"} => q.kind = "change"
    /\ q.kind = "change" => q.patch \in Patches
    /\ q.kind \in {"erase", "password"} => q.by \in Accounts /\ Exists(q.by)

\* The inductive invariant.
IInv ==
  /\ AccountsTypeOK
  /\ AdministratorRemains
  /\ ErasedHasNoKey
  /\ \A r \in Requests : Guarded(r) /\ Knowing(r) /\ WellFormed(r)

-----------------------------------------------------------------------------
(* Operators.                                                              *)

LEMMA FreeIsRequest == Free \in Call /\ Free.at = "free"
  BY DEF Free, Call

LEMMA PatchedIsAccount ==
  ASSUME NEW a \in User, NEW patch \in Patches
  PROVE  /\ Patched(a, patch) \in User
         /\ Patched(a, patch).erased = a.erased
         /\ Patched(a, patch).keys = a.keys
         /\ a.role # "none" => Patched(a, patch).role # "none"
         /\ Takes(a, Patched(a, patch)) => LosesAdmin(patch)
  <1>1. /\ patch.role \in {"keep", "member", "admin"}
        /\ patch.active \in {"keep", "on", "off"}
    BY AccountsAssumption
  <1> QED BY <1>1 DEF Patched, User, Takes, Administers, LosesAdmin

LEMMA ErasedIsAccount ==
  ASSUME NEW a \in User
  PROVE  /\ Erased(a) \in User /\ Erased(a).erased /\ Erased(a).role = a.role
         /\ ~a.erased => Erased(a).keys = {}
         /\ a.erased => Erased(a) = a
  BY DEF Erased, User

LEMMA WithKeysIsAccount ==
  ASSUME NEW a \in User, NEW keys \in SUBSET Keys
  PROVE  /\ WithKeys(a, keys) \in User
         /\ WithKeys(a, keys).erased = a.erased /\ WithKeys(a, keys).role = a.role
         /\ WithKeys(a, keys).keys = a.keys \cup keys
         /\ ~Takes(a, WithKeys(a, keys))
  BY DEF WithKeys, User, Takes, Administers

\* The record that a write leaves.
LEMMA WrittenIsAccount ==
  ASSUME NEW a \in User, NEW r \in Requests, IInv, request[r].at = "write"
  PROVE  LET q == request[r]
             b == Written(q, a) IN
         /\ b \in User
         /\ a.erased => b.erased
         /\ a.role # "none" => b.role # "none"
         /\ q.kind \in {"password", "adopt"} => b.erased = a.erased
         /\ q.kind \in {"change", "erase"} /\ b.erased =>
              b.keys = {} \/ (a.erased /\ b.keys = a.keys)
         /\ Takes(a, b) => q.kind = "erase" \/ (q.kind = "change" /\ LosesAdmin(q.patch))
  <1> DEFINE q == request[r]
  <1>1. q.kind \in {"change", "erase", "password", "adopt"}
    BY DEF IInv, AccountsTypeOK, Call
  <1>2. CASE q.kind = "change"
    <2>1. q.patch \in Patches
      BY <1>2 DEF IInv, WellFormed
    <2> QED BY <1>2, <2>1, PatchedIsAccount DEF Written
  <1>3. CASE q.kind = "erase"
    BY <1>3, ErasedIsAccount DEF Written
  <1>4. CASE q.kind = "password"
    BY <1>4, WithKeysIsAccount DEF Written, Keys
  <1>5. CASE q.kind = "adopt"
    BY <1>5, WithKeysIsAccount DEF Written, Keys
  <1> QED BY <1>1, <1>2, <1>3, <1>4, <1>5

-----------------------------------------------------------------------------
(* What a write of one account does to the others' calls.                  *)

LEMMA OvertakeKeepsCalls ==
  ASSUME IInv, NEW t \in Accounts, NEW b
  PROVE  /\ Overtake(t, b) \in [Requests -> Call]
         /\ \A p \in Requests :
              LET q == Overtake(t, b)[p] IN
              /\ q.at = request[p].at /\ q.kind = request[p].kind
              /\ q.by = request[p].by /\ q.target = request[p].target
              /\ q.patch = request[p].patch
              /\ ~q.stale /\ request[p].at # "free" =>
                   ~request[p].stale /\ ~Overtaken(request[p], t, users[t], b)
  <1> SUFFICES ASSUME NEW p \in Requests
               PROVE  LET x == [request[p] EXCEPT !.stale = TRUE] IN
                      /\ request[p] \in Call /\ x \in Call
                      /\ x.at = request[p].at /\ x.kind = request[p].kind
                      /\ x.by = request[p].by /\ x.target = request[p].target
                      /\ x.patch = request[p].patch /\ x.stale
                      /\ request[p].at # "free" /\ ~request[p].stale
                         /\ Overtaken(request[p], t, users[t], b) => x.stale
    BY DEF Overtake
  <1>1. request[p] \in Call
    BY DEF IInv, AccountsTypeOK
  <1> QED BY <1>1 DEF Call

\* The heart of it: an account changes, no administrator is taken from a call
\* that does not notice.
LEMMA OthersRemain ==
  ASSUME IInv, NEW t \in Accounts, NEW b \in User,
         users' = [users EXCEPT ![t] = b],
         NEW u \in Accounts, Others(u) # {}, ~Takes(users[t], b)
  PROVE  Others(u)' # {}
  <1>1. PICK v \in Administrators : v # u
    BY DEF Others
  <1>2. v \in Accounts /\ Administers(users[v])
    BY <1>1 DEF Administrators
  <1>3. Administers(users'[v])
    <2>1. CASE v = t
      BY <1>2, <2>1 DEF Takes, IInv, AccountsTypeOK
    <2>2. CASE v # t
      BY <1>2, <2>2 DEF IInv, AccountsTypeOK
    <2> QED BY <2>1, <2>2
  <1> QED BY <1>1, <1>2, <1>3 DEF Others, Administrators

LEMMA CallsAreOvertaken ==
  ASSUME IInv, NEW t \in Accounts, NEW b \in User,
         users[t].erased => b.erased,
         users[t].role # "none" => b.role # "none",
         users' = [users EXCEPT ![t] = b],
         exceptions \subseteq exceptions', rekeyed \subseteq rekeyed',
         NEW p \in Requests, request'[p] = Overtake(t, b)[p]
  PROVE  Guarded(p)' /\ Knowing(p)' /\ WellFormed(p)'
  <1>1. /\ request'[p].at = request[p].at /\ request'[p].kind = request[p].kind
        /\ request'[p].by = request[p].by /\ request'[p].target = request[p].target
        /\ request'[p].patch = request[p].patch
        /\ ~request'[p].stale /\ request[p].at # "free" =>
             ~request[p].stale /\ ~Overtaken(request[p], t, users[t], b)
    BY OvertakeKeepsCalls
  <1>2. Guarded(p) /\ Knowing(p) /\ WellFormed(p)
    BY DEF IInv
  <1>3. \A u \in Accounts : /\ users[u].erased => users'[u].erased
                            /\ Exists(u) => Exists(u)'
                            /\ u # t => users'[u] = users[u]
    BY DEF IInv, AccountsTypeOK, Exists
  <1>4. WellFormed(p)'
    BY <1>1, <1>2, <1>3 DEF WellFormed
  <1>5. Guarded(p)'
    <2>1. SUFFICES ASSUME request[p].at = "write", ~request'[p].stale, exceptions' = {},
                          request[p].kind \in {"change", "erase"}
                   PROVE  /\ request[p].kind = "change" /\ LosesAdmin(request[p].patch)
                               => Others(request[p].target)' # {}
                          /\ request[p].kind = "erase"
                               => \/ Others(request[p].target)' # {}
                                  \/ users'[request[p].by].erased
      BY <1>1 DEF Guarded
    <2>2. ~request[p].stale /\ exceptions = {} /\ request[p].target \in Accounts
      BY <1>1, <1>2, <2>1 DEF WellFormed
    <2>3. ~Takes(users[t], b)
      BY <1>1, <2>1 DEF Overtaken
    <2>4. \A u \in Accounts : Others(u) # {} => Others(u)' # {}
      BY <2>3, OthersRemain
    <2> QED BY <1>1, <1>2, <1>3, <2>1, <2>2, <2>4 DEF Guarded, WellFormed
  <1>6. Knowing(p)'
    <2>1. SUFFICES ASSUME request[p].at = "write", ~request'[p].stale,
                          request[p].kind \in {"password", "adopt"},
                          users'[request[p].target].erased
                   PROVE  \/ request[p].target \in rekeyed'
                          \/ request[p].kind = "password" /\ request[p].by # request[p].target
      BY <1>1 DEF Knowing
    <2>2. request[p].target \in Accounts /\ ~request[p].stale
      BY <1>1, <1>2, <2>1 DEF WellFormed
    <2>3. users[request[p].target].erased
      <3>1. CASE request[p].target = t
        <4>1. users'[t] = b
          BY DEF IInv, AccountsTypeOK
        <4> QED BY <1>1, <2>1, <3>1, <4>1 DEF Overtaken
      <3>2. CASE request[p].target # t
        BY <1>3, <2>1, <2>2, <3>2
      <3> QED BY <3>1, <3>2
    <2> QED BY <1>2, <2>1, <2>2, <2>3 DEF Knowing
  <1> QED BY <1>4, <1>5, <1>6

-----------------------------------------------------------------------------
(* New accounts.                                                           *)

LEMMA CreateKeeps ==
  ASSUME IInv, NEW u \in Accounts, ~Exists(u),
         NEW b \in User, b.role # "none", ~b.erased,
         users' = [users EXCEPT ![u] = b],
         UNCHANGED <<request, exceptions, rekeyed>>
  PROVE  IInv'
  <1>1. AccountsTypeOK'
    BY DEF IInv, AccountsTypeOK
  <1>2. ~Takes(users[u], b)
    BY DEF Exists, Takes, Administers
  <1>3. \A v \in Accounts : /\ v # u => users'[v] = users[v]
                            /\ users'[u] = b
                            /\ Exists(v) => Exists(v)' /\ v # u
    BY DEF IInv, AccountsTypeOK, Exists
  <1>4. AdministratorRemains'
    <2>1. SUFFICES ASSUME exceptions = {} PROVE Administrators' # {}
      BY DEF AdministratorRemains
    <2>2. PICK v \in Accounts : Administers(users[v])
      BY <2>1 DEF IInv, AdministratorRemains, Administrators
    <2>3. Administers(users'[v])
      BY <1>2, <1>3, <2>2 DEF Takes
    <2> QED BY <2>3 DEF Administrators
  <1>5. ErasedHasNoKey'
    BY <1>3 DEF IInv, ErasedHasNoKey
  <1>6. ASSUME NEW p \in Requests PROVE Guarded(p)' /\ Knowing(p)' /\ WellFormed(p)'
    <2>1. Guarded(p) /\ Knowing(p) /\ WellFormed(p)
      BY DEF IInv
    <2>2. \A v \in Accounts : Others(v) # {} => Others(v)' # {}
      BY <1>2, OthersRemain
    <2>3. Guarded(p)'
      BY <1>3, <2>1, <2>2 DEF Guarded, WellFormed
    <2>4. Knowing(p)'
      BY <1>3, <2>1 DEF Knowing, WellFormed
    <2>5. WellFormed(p)'
      BY <1>3, <2>1 DEF WellFormed
    <2> QED BY <2>3, <2>4, <2>5
  <1> QED BY <1>1, <1>4, <1>5, <1>6 DEF IInv

LEMMA CreatingKeeps == ASSUME IInv, NEW u \in Accounts, Creating(u) PROVE IInv'
  <1>1. CASE \E role \in {"member", "admin"} : Register(u, role)
    <2>1. PICK role \in {"member", "admin"} : Register(u, role)
      BY <1>1
    <2>2. LET b == New(role, {"mail", "password"}) IN
          b \in User /\ b.role # "none" /\ ~b.erased
      BY DEF New, User, Keys
    <2> QED BY <2>1, <2>2, CreateKeeps DEF Register
  <1>2. CASE \E keys \in SUBSET {"link"} : Provision(u, keys)
    <2>1. PICK keys \in SUBSET {"link"} : Provision(u, keys)
      BY <1>2
    <2>2. LET b == New("member", {"mail"} \cup keys) IN
          b \in User /\ b.role # "none" /\ ~b.erased
      BY DEF New, User, Keys
    <2> QED BY <2>1, <2>2, CreateKeeps DEF Provision
  <1> QED BY <1>1, <1>2 DEF Creating

-----------------------------------------------------------------------------
(* Calls up to their write.                                                *)

\* Only r's call changes: what it is now has to be established, nothing else.
LEMMA CallKeeps ==
  ASSUME IInv, NEW r \in Requests, NEW q \in Call,
         request' = [request EXCEPT ![r] = q],
         UNCHANGED <<users, exceptions, rekeyed>>,
         Guarded(r)' /\ Knowing(r)' /\ WellFormed(r)'
  PROVE  IInv'
  <1>1. AccountsTypeOK'
    BY DEF IInv, AccountsTypeOK
  <1>2. AdministratorRemains' /\ ErasedHasNoKey'
    BY DEF IInv, AdministratorRemains, ErasedHasNoKey, Administrators
  <1>3. ASSUME NEW p \in Requests PROVE Guarded(p)' /\ Knowing(p)' /\ WellFormed(p)'
    <2>1. CASE p = r
      BY <2>1
    <2>2. CASE p # r
      <3>1. request'[p] = request[p]
        BY <2>2 DEF IInv, AccountsTypeOK
      <3> QED BY <3>1 DEF IInv, Guarded, Knowing, WellFormed, Others, Administrators, Exists
    <2> QED BY <2>1, <2>2
  <1> QED BY <1>1, <1>2, <1>3 DEF IInv

\* While there is no exception, an account that does not administer leaves
\* others who do.
LEMMA OthersOfAMember ==
  ASSUME IInv, exceptions = {}, NEW u \in Accounts, ~Administers(users[u])
  PROVE  Others(u) # {}
  BY DEF IInv, AdministratorRemains, Others, Administrators

LEMMA BeginUpdateKeeps ==
  ASSUME IInv, NEW r \in Requests, NEW by \in Accounts, NEW u \in Accounts,
         NEW patch \in Patches, BeginUpdate(r, by, u, patch)
  PROVE  IInv'
  <1> DEFINE q == [at |-> IF LosesAdmin(patch) THEN "load" ELSE "write",
                   kind |-> "change", by |-> None, target |-> u,
                   patch |-> patch, stale |-> FALSE]
  <1>1. q \in Call
    BY DEF Call
  <1>2. request' = [request EXCEPT ![r] = q] /\ UNCHANGED <<users, exceptions, rekeyed>>
    BY DEF BeginUpdate, Begin
  <1>3. request'[r] = q
    BY <1>2 DEF IInv, AccountsTypeOK
  <1>4. q.kind = "change" /\ q.target = u /\ q.patch = patch
        /\ (q.at = "write" => ~LosesAdmin(patch))
    OBVIOUS
  <1> HIDE DEF q
  <1>5. Guarded(r)' /\ Knowing(r)' /\ WellFormed(r)'
    BY <1>3, <1>4 DEF Guarded, Knowing, WellFormed, LosesAdmin
  <1> QED BY <1>1, <1>2, <1>5, CallKeeps

LEMMA BeginPatchKeeps ==
  ASSUME IInv, NEW r \in Requests, NEW u \in Accounts,
         NEW patch \in Patches, BeginPatch(r, u, patch)
  PROVE  IInv'
  <1> DEFINE q == [at |-> IF LosesAdmin(patch) /\ MayAdminister(u) THEN "count" ELSE "write",
                   kind |-> "change", by |-> None, target |-> u,
                   patch |-> patch, stale |-> FALSE]
  <1>1. q \in Call
    BY DEF Call
  <1>2. request' = [request EXCEPT ![r] = q] /\ UNCHANGED <<users, exceptions, rekeyed>>
    BY DEF BeginPatch, Begin
  <1>3. request'[r] = q
    BY <1>2 DEF IInv, AccountsTypeOK
  <1>4. q.kind = "change" /\ q.target = u /\ q.patch = patch
        /\ (q.at = "write" => ~LosesAdmin(patch) \/ ~MayAdminister(u))
    OBVIOUS
  <1>5. exceptions = {} /\ ~MayAdminister(u) => Others(u)' # {}
    BY <1>2, OthersOfAMember DEF MayAdminister, Administers, Others, Administrators
  <1> HIDE DEF q
  <1>6. Guarded(r)' /\ Knowing(r)' /\ WellFormed(r)'
    BY <1>2, <1>3, <1>4, <1>5 DEF Guarded, Knowing, WellFormed, LosesAdmin
  <1> QED BY <1>1, <1>2, <1>6, CallKeeps

LEMMA BeginEraseKeeps ==
  ASSUME IInv, NEW r \in Requests, NEW by \in Accounts, NEW u \in Accounts,
         BeginErase(r, by, u)
  PROVE  IInv'
  <1> DEFINE q == [at |-> "write", kind |-> "erase", by |-> by, target |-> u,
                   patch |-> None, stale |-> FALSE]
  <1>1. q \in Call
    BY DEF Call
  <1>2. request' = [request EXCEPT ![r] = q] /\ UNCHANGED <<users, exceptions, rekeyed>>
    BY DEF BeginErase, Begin
  <1>3. request'[r] = q
    BY <1>2 DEF IInv, AccountsTypeOK
  <1>4. q.at = "write" /\ q.kind = "erase" /\ q.target = u /\ q.by = by
    OBVIOUS
  <1>5. Others(u)' # {} \/ users'[by].erased
    BY <1>2 DEF BeginErase, MayAdminister, Others, Administrators, Administers
  <1>6. Exists(by)'
    BY <1>2 DEF BeginErase, MayAdminister, Exists
  <1> HIDE DEF q
  <1>7. Guarded(r)' /\ Knowing(r)' /\ WellFormed(r)'
    BY <1>3, <1>4, <1>5, <1>6 DEF Guarded, Knowing, WellFormed
  <1> QED BY <1>1, <1>2, <1>7, CallKeeps

LEMMA BeginPasswordKeeps ==
  ASSUME IInv, NEW r \in Requests, NEW by \in Accounts, NEW u \in Accounts,
         BeginPassword(r, by, u)
  PROVE  IInv'
  <1> DEFINE q == [at |-> "write", kind |-> "password", by |-> by, target |-> u,
                   patch |-> None, stale |-> FALSE]
  <1>1. q \in Call
    BY DEF Call
  <1>2. request' = [request EXCEPT ![r] = q] /\ UNCHANGED <<users, exceptions, rekeyed>>
    BY DEF BeginPassword, Begin
  <1>3. request'[r] = q
    BY <1>2 DEF IInv, AccountsTypeOK
  <1>4. q.at = "write" /\ q.kind = "password" /\ q.target = u /\ q.by = by
    OBVIOUS
  <1>5. users'[u].erased => u \in rekeyed' \/ by # u
    BY <1>2 DEF BeginPassword, IInv, ErasedHasNoKey
  <1>6. Exists(by)'
    BY <1>2 DEF BeginPassword, MayAdminister, Exists
  <1> HIDE DEF q
  <1>7. Guarded(r)' /\ Knowing(r)' /\ WellFormed(r)'
    BY <1>3, <1>4, <1>5, <1>6 DEF Guarded, Knowing, WellFormed
  <1> QED BY <1>1, <1>2, <1>7, CallKeeps

LEMMA BeginAdoptKeeps ==
  ASSUME IInv, NEW r \in Requests, NEW u \in Accounts, BeginAdopt(r, u)
  PROVE  IInv'
  <1> DEFINE q == [at |-> "write", kind |-> "adopt", by |-> None, target |-> u,
                   patch |-> None, stale |-> FALSE]
  <1>1. q \in Call
    BY DEF Call
  <1>2. request' = [request EXCEPT ![r] = q] /\ UNCHANGED <<users, exceptions, rekeyed>>
    BY DEF BeginAdopt, Begin
  <1>3. request'[r] = q
    BY <1>2 DEF IInv, AccountsTypeOK
  <1>4. q.at = "write" /\ q.kind = "adopt" /\ q.target = u
    OBVIOUS
  <1>5. users'[u].erased => u \in rekeyed'
    BY <1>2 DEF BeginAdopt, IInv, ErasedHasNoKey
  <1> HIDE DEF q
  <1>6. Guarded(r)' /\ Knowing(r)' /\ WellFormed(r)'
    BY <1>3, <1>4, <1>5 DEF Guarded, Knowing, WellFormed
  <1> QED BY <1>1, <1>2, <1>6, CallKeeps

LEMMA CallingKeeps ==
  ASSUME IInv, NEW r \in Requests, NEW u \in Accounts, Calling(r, u)
  PROVE  IInv'
  BY BeginUpdateKeeps, BeginPatchKeeps, BeginEraseKeeps, BeginPasswordKeeps,
     BeginAdoptKeeps DEF Calling

LEMMA LoadKeeps == ASSUME IInv, NEW r \in Requests, Load(r) PROVE IInv'
  <1>1. request[r] \in Call /\ WellFormed(r) /\ request[r].at = "load"
    BY DEF Load, IInv, AccountsTypeOK
  <1>2. PICK u \in Accounts : u = request[r].target /\ request[r].kind = "change"
                              /\ request[r].patch \in Patches
    BY <1>1 DEF WellFormed
  <1> DEFINE q == [request[r] EXCEPT !.at = IF MayAdminister(u) THEN "count" ELSE "write"]
  <1>3. q \in Call /\ q.kind = "change" /\ q.target = u /\ q.patch = request[r].patch
        /\ q.at \in {"count", "write"} /\ (q.at = "write" => ~MayAdminister(u))
    BY <1>1, <1>2 DEF Call
  <1>4. request' = [request EXCEPT ![r] = q] /\ UNCHANGED <<users, exceptions, rekeyed>>
    BY <1>1, <1>2 DEF Load, Call
  <1>5. request'[r] = q
    BY <1>4 DEF IInv, AccountsTypeOK
  <1>6. exceptions = {} /\ ~MayAdminister(u) => Others(u)' # {}
    BY <1>2, <1>4, OthersOfAMember DEF MayAdminister, Administers, Others, Administrators
  <1> HIDE DEF q
  <1>7. Guarded(r)' /\ Knowing(r)' /\ WellFormed(r)'
    BY <1>2, <1>3, <1>4, <1>5, <1>6 DEF Guarded, Knowing, WellFormed
  <1> QED BY <1>3, <1>4, <1>7, CallKeeps

LEMMA CountKeeps == ASSUME IInv, NEW r \in Requests, Count(r) PROVE IInv'
  <1>1. request[r] \in Call /\ WellFormed(r) /\ request[r].at = "count"
    BY DEF Count, IInv, AccountsTypeOK
  <1>2. PICK u \in Accounts : u = request[r].target /\ request[r].kind = "change"
                              /\ request[r].patch \in Patches
    BY <1>1 DEF WellFormed
  <1> DEFINE q == [request[r] EXCEPT !.at = "write"]
  <1>3. UNCHANGED <<users, exceptions, rekeyed>>
    BY DEF Count
  <1>4. CASE Others(u) = {}
    <2>1. request' = [request EXCEPT ![r] = Free]
      BY <1>2, <1>4 DEF Count
    <2>2. request'[r] = Free
      BY <2>1 DEF IInv, AccountsTypeOK
    <2>3. Guarded(r)' /\ Knowing(r)' /\ WellFormed(r)'
      BY <2>2, FreeIsRequest DEF Guarded, Knowing, WellFormed
    <2> QED BY <1>3, <2>1, <2>3, FreeIsRequest, CallKeeps
  <1>5. CASE Others(u) # {}
    <2>1. q \in Call /\ q.at = "write" /\ q.kind = "change" /\ q.target = u
          /\ q.patch = request[r].patch
      BY <1>1, <1>2 DEF Call
    <2>2. request' = [request EXCEPT ![r] = q]
      BY <1>2, <1>5 DEF Count
    <2>3. request'[r] = q
      BY <2>2 DEF IInv, AccountsTypeOK
    <2>4. Others(u)' # {}
      BY <1>3, <1>5 DEF Others, Administrators
    <2> HIDE DEF q
    <2>5. Guarded(r)' /\ Knowing(r)' /\ WellFormed(r)'
      BY <1>2, <2>1, <2>3, <2>4 DEF Guarded, Knowing, WellFormed
    <2> QED BY <1>3, <2>1, <2>2, <2>5, CallKeeps
  <1> QED BY <1>4, <1>5

-----------------------------------------------------------------------------
(* Writes.                                                                 *)

LEMMA WriteKeeps == ASSUME IInv, NEW r \in Requests, Write(r) PROVE IInv'
  <1> DEFINE q == request[r]
             t == q.target
             b == Written(q, users[t])
  <1>1. q \in Call /\ q.at = "write" /\ t \in Accounts /\ users[t] \in User
        /\ WellFormed(r) /\ Guarded(r) /\ Knowing(r)
    BY DEF Write, IInv, AccountsTypeOK, WellFormed
  <1>2. /\ b \in User
        /\ users[t].erased => b.erased
        /\ users[t].role # "none" => b.role # "none"
        /\ q.kind \in {"password", "adopt"} => b.erased = users[t].erased
        /\ q.kind \in {"change", "erase"} /\ b.erased =>
             b.keys = {} \/ (users[t].erased /\ b.keys = users[t].keys)
        /\ Takes(users[t], b) =>
             q.kind = "erase" \/ (q.kind = "change" /\ LosesAdmin(q.patch))
    BY <1>1, WrittenIsAccount
  <1>3. /\ users' = [users EXCEPT ![t] = b]
        /\ request' = [Overtake(t, b) EXCEPT ![r] = Free]
        /\ exceptions \subseteq exceptions' /\ rekeyed \subseteq rekeyed'
        /\ Takes(users[t], b) /\ q.stale => "overlap" \in exceptions'
        /\ Takes(users[t], b) /\ q.kind = "erase" /\ users[q.by].erased
             => "tombstone" \in exceptions'
        /\ users[t].erased /\ q.kind \in {"password", "adopt"}
             /\ (q.stale \/ (q.kind = "password" /\ q.by # t)) => t \in rekeyed'
    BY DEF Write
  <1>4. exceptions' \subseteq {"overlap", "tombstone", "put"} /\ rekeyed' \subseteq Accounts
    BY <1>1 DEF Write, IInv, AccountsTypeOK
  <1> HIDE DEF q, t, b
  <1>5. AccountsTypeOK'
    <2>1. request' \in [Requests -> Call]
      BY <1>1, <1>3, OvertakeKeepsCalls, FreeIsRequest
    <2> QED BY <1>2, <1>3, <1>4, <2>1 DEF IInv, AccountsTypeOK
  <1>6. \A u \in Accounts : users'[u] = IF u = t THEN b ELSE users[u]
    BY <1>3 DEF IInv, AccountsTypeOK
  <1>7. AdministratorRemains'
    <2>1. SUFFICES ASSUME exceptions' = {} PROVE Administrators' # {}
      BY DEF AdministratorRemains
    <2>2. CASE Takes(users[t], b)
      <3>1. Others(t) # {}
        BY <1>1, <1>2, <1>3, <2>1, <2>2 DEF Guarded, q, t
      <3>2. PICK v \in Accounts : v # t /\ Administers(users[v])
        BY <3>1 DEF Others, Administrators
      <3> QED BY <1>6, <3>2 DEF Administrators
    <2>3. CASE ~Takes(users[t], b)
      <3>1. PICK v \in Accounts : Administers(users[v])
        BY <1>3, <2>1 DEF IInv, AdministratorRemains, Administrators
      <3>2. Administers(users'[v])
        BY <1>6, <2>3, <3>1 DEF Takes
      <3> QED BY <3>2 DEF Administrators
    <2> QED BY <2>2, <2>3
  <1>8. ErasedHasNoKey'
    <2>1. SUFFICES ASSUME NEW u \in Accounts, users'[u].erased, users'[u].keys # {}
                   PROVE  u \in rekeyed'
      BY DEF ErasedHasNoKey
    <2>2. CASE u # t
      BY <1>3, <1>6, <2>1, <2>2 DEF IInv, ErasedHasNoKey
    <2>3. CASE u = t /\ q.kind \in {"change", "erase"}
      BY <1>2, <1>3, <1>6, <2>1, <2>3 DEF IInv, ErasedHasNoKey
    <2>4. CASE u = t /\ q.kind \in {"password", "adopt"}
      <3>1. users[t].erased
        BY <1>2, <1>6, <2>1, <2>4
      <3> QED BY <1>1, <1>3, <2>4, <3>1 DEF Knowing, q, t
    <2>5. q.kind \in {"change", "erase", "password", "adopt"}
      BY <1>1 DEF Call
    <2> QED BY <2>2, <2>3, <2>4, <2>5
  <1>9. ASSUME NEW p \in Requests PROVE Guarded(p)' /\ Knowing(p)' /\ WellFormed(p)'
    <2>1. Overtake(t, b) \in [Requests -> Call]
      BY <1>1, OvertakeKeepsCalls
    <2>2. CASE p = r
      <3>1. request'[p] = Free
        BY <1>3, <2>1, <2>2
      <3> QED BY <3>1, FreeIsRequest DEF Guarded, Knowing, WellFormed
    <2>3. CASE p # r
      <3>1. request'[p] = Overtake(t, b)[p]
        BY <1>3, <2>1, <2>3
      <3> QED BY <1>1, <1>2, <1>3, <3>1, CallsAreOvertaken
    <2> QED BY <2>2, <2>3
  <1> QED BY <1>5, <1>7, <1>8, <1>9 DEF IInv

LEMMA PutKeeps ==
  ASSUME IInv, NEW u \in Accounts, NEW active \in BOOLEAN,
         NEW keys \in SUBSET {"mail", "link"}, Put(u, active, keys)
  PROVE  IInv'
  <1> DEFINE a == [users[u] EXCEPT !.active = active]
             b == WithKeys(a, keys)
  <1>1. users[u] \in User
    BY DEF IInv, AccountsTypeOK
  <1>2. a \in User /\ a.erased = users[u].erased /\ a.role = users[u].role
        /\ a.keys = users[u].keys
    BY <1>1 DEF User
  <1>3. b \in User /\ b.erased = users[u].erased /\ b.role = users[u].role
        /\ b.keys = users[u].keys \cup keys
    <2>1. keys \in SUBSET Keys
      BY DEF Keys
    <2> HIDE DEF a
    <2> QED BY <1>2, <2>1, WithKeysIsAccount
  <1>4. /\ users' = [users EXCEPT ![u] = b]
        /\ request' = Overtake(u, b)
        /\ exceptions' = exceptions \cup {e \in {"put"} : Takes(users[u], b)}
        /\ rekeyed' = IF users[u].erased /\ keys # {} THEN rekeyed \cup {u} ELSE rekeyed
    BY DEF Put
  <1> HIDE DEF a, b
  <1>5. AccountsTypeOK'
    BY <1>3, <1>4, OvertakeKeepsCalls DEF IInv, AccountsTypeOK
  <1>6. \A v \in Accounts : users'[v] = IF v = u THEN b ELSE users[v]
    BY <1>4 DEF IInv, AccountsTypeOK
  <1>7. AdministratorRemains'
    <2>1. SUFFICES ASSUME exceptions' = {} PROVE Administrators' # {}
      BY DEF AdministratorRemains
    <2>2. ~Takes(users[u], b) /\ exceptions = {}
      BY <1>4, <2>1
    <2>3. PICK v \in Accounts : Administers(users[v])
      BY <2>2 DEF IInv, AdministratorRemains, Administrators
    <2>4. Administers(users'[v])
      BY <1>6, <2>2, <2>3 DEF Takes
    <2> QED BY <2>4 DEF Administrators
  <1>8. ErasedHasNoKey'
    BY <1>3, <1>4, <1>6 DEF IInv, ErasedHasNoKey
  <1>9. ASSUME NEW p \in Requests PROVE Guarded(p)' /\ Knowing(p)' /\ WellFormed(p)'
    BY <1>3, <1>4, CallsAreOvertaken
  <1> QED BY <1>5, <1>7, <1>8, <1>9 DEF IInv

-----------------------------------------------------------------------------
(* The specification.                                                      *)

LEMMA InitIInv == AccountsInit => IInv
  <1> SUFFICES ASSUME AccountsInit PROVE IInv
    OBVIOUS
  <1> USE FreeIsRequest DEF AccountsInit
  <1>1. PICK u \in Accounts :
          users = [v \in Accounts |->
            IF v = u THEN New("admin", {"mail", "password"}) ELSE Absent]
    OBVIOUS
  <1>2. /\ New("admin", {"mail", "password"}) \in User /\ Absent \in User
        /\ Administers(New("admin", {"mail", "password"}))
        /\ ~New("admin", {"mail", "password"}).erased /\ ~Absent.erased
    BY DEF New, Absent, User, Keys, Administers
  <1>3. AccountsTypeOK
    BY <1>1, <1>2 DEF AccountsTypeOK
  <1>4. AdministratorRemains /\ ErasedHasNoKey
    BY <1>1, <1>2 DEF AdministratorRemains, ErasedHasNoKey, Administrators
  <1>5. \A r \in Requests : Guarded(r) /\ Knowing(r) /\ WellFormed(r)
    BY DEF Guarded, Knowing, WellFormed
  <1> QED BY <1>3, <1>4, <1>5 DEF IInv

LEMMA NextIInv == IInv /\ [AccountsNext]_accountVars => IInv'
  <1> SUFFICES ASSUME IInv, [AccountsNext]_accountVars PROVE IInv'
    OBVIOUS
  <1>1. ASSUME NEW u \in Accounts, Creating(u) PROVE IInv'
    BY <1>1, CreatingKeeps
  <1>2. ASSUME NEW u \in Accounts, Replacing(u) PROVE IInv'
    BY <1>2, PutKeeps DEF Replacing
  <1>3. ASSUME NEW r \in Requests, NEW u \in Accounts, Calling(r, u) PROVE IInv'
    BY <1>3, CallingKeeps
  <1>4. ASSUME NEW r \in Requests, Load(r) \/ Count(r) \/ Write(r) PROVE IInv'
    BY <1>4, LoadKeeps, CountKeeps, WriteKeeps
  <1>5. CASE UNCHANGED accountVars
    BY <1>5 DEF accountVars, IInv, AccountsTypeOK, AdministratorRemains, ErasedHasNoKey, Administrators,
                Guarded, Knowing, WellFormed, Others, Exists
  <1> QED BY <1>1, <1>2, <1>3, <1>4, <1>5 DEF AccountsNext

LEMMA Invariance == AccountsSpec => []IInv
  BY InitIInv, NextIInv, PTL DEF AccountsSpec

\* Every state of Accounts is well typed.
THEOREM TypeCorrect == AccountsSpec => []AccountsTypeOK
  <1>1. IInv => AccountsTypeOK
    BY DEF IInv
  <1> QED BY <1>1, Invariance, PTL

\* However many accounts there are and however many calls overlap, somebody
\* can administer the installation (OtherActiveAdmins, ErasePersonalData), but
\* for the exceptions that AdministratorRemains names.
THEOREM AnAdministratorRemains == AccountsSpec => []AdministratorRemains
  <1>1. IInv => AdministratorRemains
    BY DEF IInv
  <1> QED BY <1>1, Invariance, PTL

\* What Anonymize empties stays empty, but for those who fill it knowingly or
\* had read the account before.
THEOREM ErasedIsNotSignedIn == AccountsSpec => []ErasedHasNoKey
  <1>1. IInv => ErasedHasNoKey
    BY DEF IInv
  <1> QED BY <1>1, Invariance, PTL
=============================================================================
