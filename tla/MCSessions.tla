----------------------------- MODULE MCSessions -----------------------------
(* Small instances of Sessions and of Accounts for TLC, side by side: which  *)
(* one runs is chosen at the start, and the other stays as it begins.        *)
EXTENDS Sessions, MCAccounts, TLC

VARIABLE part

bothVars == <<vars, accountVars, part>>

\* Accounts are interchangeable: it does not matter which of them is the first,
\* nor to Accounts with which passwords Sessions begins.
BothInit ==
  /\ part \in {"sessions", "accounts"} /\ Init /\ AccountsInit
  /\ Exists(CHOOSE u \in Accounts : TRUE)
  /\ part = "accounts" => \A u \in Users : account[u].pw = NoPassword

BothNext ==
  \/ part = "sessions" /\ Next /\ UNCHANGED <<accountVars, part>>
  \/ part = "accounts" /\ AccountsNext /\ UNCHANGED <<vars, part>>

BothSpec == BothInit /\ [][BothNext]_bothVars

\* Sessions alone.
SessionsSpec == part = "sessions" /\ BothSpec

\* Session ids and workers are interchangeable: no action distinguishes
\* them.
Symmetry == Permutations(SessionIds) \cup Permutations(Workers)

\* Bound: administrators sign in once, through the directory; the sign-ins,
\* rotations and passwords of everybody else are the interesting ones.
AdminsSignInOnce ==
  \A a \in Admins :
    /\ account[a].pw = NoPassword
    /\ Cardinality({s \in SessionIds : owner[s] = a}) <= 1

Bounds == AdminsSignInOnce /\ FewExceptions
=============================================================================
