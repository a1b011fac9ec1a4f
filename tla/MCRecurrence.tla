---------------------------- MODULE MCRecurrence ----------------------------
(* Small instances of Recurrence for TLC.                                  *)
EXTENDS Recurrence, TLC

\* Task ids after the first, requests and replicas are interchangeable.
Symmetry ==
  Permutations(Tasks \ First) \cup Permutations(Requests)
    \cup Permutations(Replicas)

\* Bounds: two workers at a time, of whatever kinds, and one mishap: a sweep
\* without the lock, a task that is disturbed or deleted, a rule that was saved
\* while a worker had its task in hand or whose end date has passed.
AtWork == {w \in Workers : work[w].at # "idle"}
Upset(r) == r.touched \/ r.until = "past"
Mishaps ==
  disturbed \cup (IF unlocked THEN {None} ELSE {})
    \cup {t \in Tasks : task[t].at = "gone"}
    \cup {t \in Tasks : Carries(t) /\ Upset(rule[t])}
OneMishap == Cardinality(AtWork) <= 2 /\ Cardinality(Mishaps) <= 1
=============================================================================
