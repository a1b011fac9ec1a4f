------------------------------- MODULE MCWork -------------------------------
(* Small instances for TLC of the rows people work on and of the hub, side   *)
(* by side: which one runs is chosen at the start, and the other stays as it *)
(* begins.                                                                   *)
EXTENDS Work, Hub, TLC

CONSTANTS u1, u2,                 \* people at work
          ana, bo, x1, x2, y1     \* people at their tabs

VARIABLE part

allVars == <<vars, hubVars, part>>

\* Two rules that undo each other's status, the second of which assigns too;
\* one on a missed deadline.
SomeRules ==
  << [on |-> "changed", when |-> {"doing"},
      acts |-> <<[kind |-> "set_status", to |-> "done"]>>],
     [on |-> "changed", when |-> {"done"},
      acts |-> <<[kind |-> "set_status", to |-> "doing"], [kind |-> "assign", to |-> u2]>>],
     [on |-> "overdue", when |-> Statuses,
      acts |-> <<[kind |-> "assign", to |-> u2]>>] >>

\* Finishing the task; starting it, handed to u2 and put forward or off.
SomePatches ==
  { [status |-> "done", assignees |-> None, due |-> None],
    [status |-> "doing", assignees |-> {u2}, due |-> "soon"] }

SomeAnswers == {"empty", u1}

Whose == x1 :> ana @@ x2 :> ana @@ y1 :> bo

AllInit ==
  /\ part \in {"work", "hub"}
  /\ Init /\ HubInit

AllNext ==
  \/ part = "work" /\ Next /\ UNCHANGED <<hubVars, part>>
  \/ part = "hub" /\ HubNext /\ UNCHANGED <<vars, part>>

\* That of FairSpec, which asks nothing of work when something else runs.
WorkFairness ==
  /\ \A w \in Workers : WF_vars(part = "work" /\ Step(w))
  /\ WF_vars(part = "work" /\ \E w \in Workers : AlertSweep(w) /\ holder' # holder)
  /\ WF_vars(part = "work" /\ \E w \in Workers : TriageSweep(w) /\ holder' # holder)

\* A hub that stays as it begins has nothing to do.
AllSpec == AllInit /\ [][AllNext]_allVars /\ WorkFairness /\ HubFairness
=============================================================================
