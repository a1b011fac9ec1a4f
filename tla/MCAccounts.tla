----------------------------- MODULE MCAccounts -----------------------------
(* Small instances of Accounts for TLC.                                    *)
EXTENDS Accounts, TLC

SomePatches ==
  {[role |-> role, active |-> "keep"] : role \in {"member", "admin"}}
    \cup {[role |-> "keep", active |-> active] : active \in {"on", "off"}}

\* What happens after the first exception is not looked at further.
FewExceptions == exceptions = {}

Alike == Permutations(Accounts) \cup Permutations(Requests)
=============================================================================
