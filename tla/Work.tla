-------------------------------- MODULE Work --------------------------------
(***************************************************************************)
(* One task and everything that writes to it without asking whether anyone *)
(* else does: people, the rules of the automation engine, the sweep that   *)
(* alerts assignees to a deadline, and the intake form the task may have   *)
(* come from, whose submission a model triages and a person accepts.       *)
(*                                                                         *)
(* A worker is a goroutine: a request, or a sweep of some replica.  Each   *)
(* reads first and acts on what it read, one database call at a time.      *)
(***************************************************************************)
EXTENDS Integers, Sequences

CONSTANTS
  Users,
  Workers,
  Rules,        \* the enabled automations of the project, by created_at
  Answers,      \* of the model: "empty", "priority", or a priority and a person
  Patches,      \* what requests ask for, None for a field left out
  MaxRequests,  \* bound: requests about the task, sweeps after a (re)start
  MaxFaults,    \* bound: calls that fail, processes that die, locks lost
  None

Statuses == {"todo", "doing", "done"}
Dues == {"far", "soon", "overdue"}  \* "soon": inside the warning window
Triggers == {"created", "changed", "assigned", "due_soon", "overdue"}
Alerts == Users \X {"due_soon", "overdue"}

\* A rule's conditions come down to the statuses they hold in; of its actions,
\* those that write the status or the assignees are kept.
Actions == [kind : {"set_status"}, to : Statuses] \cup [kind : {"assign"}, to : Users]
Rule == [on : Triggers, when : SUBSET Statuses, acts : Seq(Actions)]

Patch == [status : Statuses \cup {None}, assignees : {None} \cup SUBSET Users,
          due : Dues \cup {None}]

ASSUME WorkAssumption ==
  /\ Rules \in Seq(Rule)
  /\ Answers \subseteq {"empty", "priority"} \cup Users
  /\ Patches \subseteq Patch
  /\ MaxRequests \in Nat /\ MaxFaults \in Nat
  /\ None \notin Users \cup Workers \cup Statuses \cup Dues \cup Answers
  /\ None \notin {"alerts", "triage"}
  /\ \A x \in SUBSET Users : x # None
  /\ \A x \in Alerts : x # None

\* Rules of different triggers are never looked up together; those on a change
\* of status are listed before those on an assignment, the order of UpdateTask.
ASSUME RulesInOrder ==
  \A i, j \in DOMAIN Rules :
    Rules[i].on = "assigned" /\ Rules[j].on = "changed" => j < i

VARIABLES
  task,       \* the row of tasks and of task_assignees
  marked,     \* task_alerts_sent
  sub,        \* the row of intake_submissions
  proc,       \* what each worker is at
  holder,     \* the worker whose session holds the advisory lock of a sweep
  asked,      \* requests so far
  faults,     \* faults so far
  delivered,  \* history: alerts somebody was notified of
  repeated,   \* history: those notified of twice
  excused     \* history: those whose mark was lost, or that two sweeps, not
              \* both under the lock, had in hand at once

vars == <<task, marked, sub, proc, holder, asked, faults, delivered, repeated, excused>>
alerts == <<marked, delivered, repeated, excused>>

-----------------------------------------------------------------------------
Task == [at : {"none", "live", "gone"}, status : Statuses,
         assignees : SUBSET Users, due : Dues]

\* For the properties: `shown`, what the person who accepted was looking at;
\* `agreed`, acceptances in the audit trail; `excused`, two people had it in
\* hand at once or its mark was lost; `doubled`, two sweeps had, not both under
\* the lock.
Submission == [at : {"none", "stored"}, suggestion : Answers \cup {None},
               accepted : BOOLEAN, shown : Answers \cup {None},
               agreed : Nat, excused : BOOLEAN, doubled : BOOLEAN]

Steps == UNION {{r} \X DOMAIN Rules[r].acts : r \in DOMAIN Rules}

Proc == [at : {"idle", "patch", "reread", "rules", "record", "apply", "agree",
               "sweep", "mark", "fire", "ask"},
         patch : {None} \cup Patches,      \* the request
         was : Statuses \cup {None},      \* the status it found
         on : SUBSET Triggers,            \* events to raise
         seen : SUBSET Users,             \* assignees of the event's task
         plan : SUBSET Steps,             \* actions its rules have left
         todo : SUBSET Alerts,            \* alerts a sweep has left
         cur : {None} \cup Alerts,        \* the one it is at
         fired : BOOLEAN,                 \* its automation ran in this sweep
         sweep : {None, "alerts", "triage"},
         guarded : BOOLEAN,               \* the sweep holds its lock
         read : Answers \cup {None}]      \* the suggestion being accepted

Idle == [at |-> "idle", patch |-> None, was |-> None, on |-> {}, seen |-> {},
         plan |-> {}, todo |-> {}, cur |-> None, fired |-> FALSE, sweep |-> None,
         guarded |-> FALSE, read |-> None]

Live == task.at = "live"
Goes(w, p) == proc' = [proc EXCEPT ![w] = p]

Request(w) ==
  /\ proc[w].at = "idle" /\ asked < MaxRequests
  /\ asked' = asked + 1

Fault == faults < MaxFaults /\ faults' = faults + 1

\* A patch writes the fields it has.
Or(old, new) == IF new = None THEN old ELSE new

-----------------------------------------------------------------------------
(* Tasks: one transaction each for Create and Update.                      *)

CreateTask(w, p) ==
  /\ proc[w].at = "idle" /\ task.at = "none"
  /\ task' = [at |-> "live", status |-> Or("todo", p.status),
              assignees |-> Or({}, p.assignees), due |-> Or("far", p.due)]
  /\ Goes(w, [Idle EXCEPT !.at = "reread", !.on = {"created"}])
  /\ UNCHANGED <<alerts, sub, holder, asked, faults>>

\* PUT /tasks/:id and PATCH /tasks/:id/move, which patches the status alone.
UpdateTask(w, p) ==
  /\ Request(w) /\ Live
  /\ Goes(w, [Idle EXCEPT !.at = "patch", !.patch = p, !.was = task.status])
  /\ UNCHANGED <<task, alerts, sub, holder, faults>>

Update(w) ==
  LET p == proc[w].patch IN
  /\ proc[w].at = "patch" /\ Live
  /\ task' = [task EXCEPT !.status = Or(@, p.status), !.assignees = Or(@, p.assignees),
                          !.due = Or(@, p.due)]
  /\ Goes(w, [proc[w] EXCEPT !.at = "reread", !.patch = None,
       !.on = {e \in {"changed", "assigned"} :
                 \/ e = "changed" /\ p.status \notin {None, proc[w].was}
                 \/ e = "assigned" /\ p.assignees # None}])
  /\ UNCHANGED <<alerts, sub, holder, asked, faults>>

UpdateMissing(w) ==
  /\ proc[w].at = "patch" /\ ~Live
  /\ Goes(w, Idle)
  /\ UNCHANGED <<task, alerts, sub, holder, asked, faults>>

\* Deleting cascades to the alerts and leaves the submission without a task.
DeleteTask(w) ==
  /\ Request(w) /\ Live
  /\ task' = [task EXCEPT !.at = "gone"]
  /\ marked' = {}
  /\ UNCHANGED <<sub, proc, holder, faults, delivered, repeated, excused>>

Time ==
  /\ Live /\ task.due # "overdue"
  /\ task' = [task EXCEPT !.due = IF @ = "far" THEN "soon" ELSE "overdue"]
  /\ UNCHANGED <<alerts, sub, proc, holder, asked, faults>>

-----------------------------------------------------------------------------
(* Automations: every rule is judged on the task the event carries, as it  *)
(* was read once, and no action raises an event of its own.                *)

Act(s) == Rules[s[1]].acts[s[2]]

Applies(s, w) ==
  LET a == Act(s) IN
  \/ /\ a.kind = "set_status" /\ a.to # task.status
     /\ ~(Rules[s[1]].on = "changed" /\ a.to = proc[w].was)
  \/ a.kind = "assign" /\ a.to \notin task.assignees

Plan(w) ==
  {s \in Steps : /\ Rules[s[1]].on \in proc[w].on
                 /\ task.status \in Rules[s[1]].when
                 /\ Applies(s, w)}

\* Where a worker goes on with `plan` left to do.
Continue(w, plan, seen) ==
  IF plan = {} /\ proc[w].sweep = None THEN Idle
  ELSE [proc[w] EXCEPT !.at = IF plan = {} THEN "sweep" ELSE "rules",
                       !.plan = plan, !.seen = seen, !.on = {}, !.was = None]

Reread(w) ==
  /\ proc[w].at = "reread"
  /\ Goes(w, IF Live THEN Continue(w, Plan(w), task.assignees)
                     ELSE Continue(w, {}, {}))
  /\ UNCHANGED <<task, alerts, sub, holder, asked, faults>>

Earliest(s, plan) ==
  \A t \in plan : s[1] < t[1] \/ (s[1] = t[1] /\ s[2] <= t[2])

\* Mutation: the person a rule assigns replaces those there are.
AssigningAlone(w, a) ==
  IF a.kind = "assign" THEN [task EXCEPT !.assignees = {a.to}]
                       ELSE [task EXCEPT !.status = a.to]

Performed(w, a) ==
  IF a.kind = "assign" THEN [task EXCEPT !.assignees = proc[w].seen \cup {a.to}]
                       ELSE [task EXCEPT !.status = a.to]

\* Mutation: what a rule sets raises the events a person's change would.
RuleRaisingEvents(w) ==
  \E s \in proc[w].plan :
    /\ proc[w].at = "rules" /\ Live /\ Earliest(s, proc[w].plan)
    /\ task' = Performed(w, Act(s))
    /\ Goes(w, [proc[w] EXCEPT !.at = "reread", !.plan = {}, !.on = {"changed", "assigned"}])
    /\ UNCHANGED <<alerts, sub, holder, asked, faults>>

RuleActs(w) ==
  \E s \in proc[w].plan :
    /\ proc[w].at = "rules" /\ Live /\ Earliest(s, proc[w].plan)
    /\ task' = Performed(w, Act(s))
    /\ Goes(w, Continue(w, proc[w].plan \ {s}, proc[w].seen))
    /\ UNCHANGED <<alerts, sub, holder, asked, faults>>

\* A failed action ends its rule, not the ones after it.
RuleFails(w) ==
  \E s \in proc[w].plan :
    /\ proc[w].at = "rules" /\ Earliest(s, proc[w].plan)
    /\ \/ ~Live /\ UNCHANGED faults
       \/ Fault
    /\ Goes(w, Continue(w, {t \in proc[w].plan : t[1] # s[1]}, proc[w].seen))
    /\ UNCHANGED <<task, alerts, sub, holder, asked>>

-----------------------------------------------------------------------------
(* Deadline alerts.                                                        *)

Kind == IF task.due = "overdue" THEN "overdue" ELSE "due_soon"

\* Mutation: the query does not look at what was sent already.
PendingUnfiltered ==
  IF Live /\ task.status # "done" /\ task.due # "far"
  THEN task.assignees \X {Kind} ELSE {}

PendingDeadlineAlerts ==
  IF Live /\ task.status # "done" /\ task.due # "far"
  THEN (task.assignees \X {Kind}) \ marked ELSE {}

\* What SweepGuard does: a sweep that cannot reach the lock runs all the same.
TryLock(w, s) ==
  \/ holder[s] = None /\ holder' = [holder EXCEPT ![s] = w] /\ UNCHANGED faults
  \/ Fault /\ UNCHANGED holder

\* Mutation: the lock is not given back.
UnlockNever(w, s) == UNCHANGED holder

Unlock(w, s) ==
  holder' = [holder EXCEPT ![s] = IF proc[w].guarded THEN None ELSE @]

InHand(w, a) == a \in proc[w].todo \/ proc[w].cur = a

\* Alerts that a sweep about to start shares with one that is running, unless
\* the lock keeps both.
Shared(guarded) ==
  {a \in PendingDeadlineAlerts :
     \E v \in Workers : InHand(v, a) /\ ~(guarded /\ proc[v].guarded)}

StartSweep(w, guarded) ==
  /\ excused' = excused \cup Shared(guarded)
  /\ Goes(w, [Idle EXCEPT !.at = "sweep", !.sweep = "alerts", !.guarded = guarded,
                          !.todo = PendingDeadlineAlerts])
  /\ UNCHANGED <<task, sub, marked, delivered, repeated>>

\* The sweep of the cron expression, where there is something to alert to.
AlertSweep(w) ==
  /\ proc[w].at = "idle" /\ PendingDeadlineAlerts # {}
  /\ TryLock(w, "alerts")
  /\ StartSweep(w, holder' # holder)
  /\ UNCHANGED asked

\* The one 15 seconds after every Start, Restart included, asks for no lock.
BootSweep(w) ==
  /\ Request(w) /\ PendingDeadlineAlerts # {}
  /\ StartSweep(w, FALSE)
  /\ UNCHANGED <<holder, faults>>

NotifyUser(w, a) ==
  /\ proc[w].at = "sweep" /\ a \in proc[w].todo /\ Live
  /\ delivered' = delivered \cup {a}
  /\ repeated' = repeated \cup ({a} \cap delivered)
  /\ Goes(w, [proc[w] EXCEPT !.at = "mark", !.cur = a, !.todo = @ \ {a}])
  /\ UNCHANGED <<task, marked, excused, sub, holder, asked, faults>>

\* One that cannot be stored, always where the task is gone, is left unmarked
\* for the next sweep.
NotifyFails(w, a) ==
  /\ proc[w].at = "sweep" /\ a \in proc[w].todo
  /\ \/ ~Live /\ UNCHANGED faults
     \/ Fault
  /\ Goes(w, [proc[w] EXCEPT !.todo = @ \ {a}])
  /\ UNCHANGED <<task, alerts, sub, holder, asked>>

\* The mark needs its task (a foreign key); failing is only logged.
MarkAlertSent(w) ==
  LET a == proc[w].cur IN
  /\ proc[w].at = "mark"
  /\ \/ Live /\ marked' = marked \cup {a} /\ UNCHANGED <<excused, faults>>
     \/ ~Live /\ UNCHANGED <<marked, excused, faults>>
     \/ Fault /\ excused' = excused \cup {a} /\ UNCHANGED marked
  /\ Goes(w, IF proc[w].fired THEN [proc[w] EXCEPT !.at = "sweep", !.cur = None]
             ELSE [proc[w] EXCEPT !.at = "reread", !.cur = None, !.fired = TRUE,
                                  !.on = {a[2]}])
  /\ UNCHANGED <<task, delivered, repeated, sub, holder, asked>>

EndSweep(w) ==
  /\ proc[w].at = "sweep" /\ proc[w].todo = {}
  /\ Unlock(w, "alerts")
  /\ Goes(w, Idle)
  /\ UNCHANGED <<task, alerts, sub, asked, faults>>

-----------------------------------------------------------------------------
(* Intake: a task first, then the record of what was asked for, then a     *)
(* suggestion, then a person who accepts it.                               *)

SubmitIntakeForm(w) ==
  /\ proc[w].at = "idle" /\ task.at = "none"
  /\ task' = [at |-> "live", status |-> "todo", assignees |-> {}, due |-> "far"]
  /\ Goes(w, [Idle EXCEPT !.at = "record"])
  /\ UNCHANGED <<alerts, sub, holder, asked, faults>>

\* A task deleted meanwhile fails the insert (a foreign key), which is audited.
RecordSubmission(w) ==
  /\ proc[w].at = "record"
  /\ \/ Live /\ sub' = [sub EXCEPT !.at = "stored"] /\ UNCHANGED faults
     \/ ~Live /\ UNCHANGED <<sub, faults>>
     \/ Fault /\ UNCHANGED sub
  /\ Goes(w, Idle)
  /\ UNCHANGED <<task, alerts, holder, asked>>

\* Mutation: the query does not look at suggested_at.
AwaitingAny == sub.at = "stored"

AwaitingTriage == sub.at = "stored" /\ sub.suggestion = None

TriageSweep(w) ==
  /\ proc[w].at = "idle" /\ AwaitingTriage
  /\ TryLock(w, "triage")
  /\ sub' = [sub EXCEPT !.doubled = @ \/ \E v \in Workers :
       proc[v].at = "ask" /\ ~(holder' # holder /\ proc[v].guarded)]
  /\ Goes(w, [Idle EXCEPT !.at = "ask", !.sweep = "triage", !.guarded = holder' # holder])
  /\ UNCHANGED <<task, alerts, asked>>

\* The answer is stored by id alone; a model that fails is asked again.
StoreSuggestion(w) ==
  /\ proc[w].at = "ask"
  /\ \/ \E s \in Answers : sub' = [sub EXCEPT !.suggestion = s] /\ UNCHANGED faults
     \/ Fault /\ UNCHANGED sub
  /\ Unlock(w, "triage")
  /\ Goes(w, Idle)
  /\ UNCHANGED <<task, alerts, asked>>

\* Mutation: a suggestion that was accepted may be accepted again.
AcceptAgain(w) ==
  /\ Request(w) /\ Live /\ sub.suggestion \notin {None, "empty"}
  /\ sub' = [sub EXCEPT !.excused = @ \/ \E v \in Workers : proc[v].at \in {"apply", "agree"}]
  /\ Goes(w, [Idle EXCEPT !.at = "apply", !.read = sub.suggestion])
  /\ UNCHANGED <<task, alerts, holder, faults>>

AcceptIntakeSuggestion(w) ==
  /\ Request(w) /\ Live /\ sub.suggestion \notin {None, "empty"} /\ ~sub.accepted
  /\ sub' = [sub EXCEPT !.excused = @ \/ \E v \in Workers : proc[v].at \in {"apply", "agree"}]
  /\ Goes(w, [Idle EXCEPT !.at = "apply", !.read = sub.suggestion])
  /\ UNCHANGED <<task, alerts, holder, faults>>

\* The person suggested takes the place of all assignees, if still active; if
\* not, a priority suggested too is applied alone, or nothing is left to apply.
ApplySuggestion(w) ==
  /\ proc[w].at = "apply"
  /\ \/ /\ Live
        /\ \/ UNCHANGED task
           \/ /\ proc[w].read \in Users
              /\ task' = [task EXCEPT !.assignees = {proc[w].read}]
        /\ Goes(w, [proc[w] EXCEPT !.at = "agree"])
     \/ /\ ~Live \/ proc[w].read # "priority"
        /\ Goes(w, Idle)
        /\ UNCHANGED task
  /\ UNCHANGED <<alerts, sub, holder, asked, faults>>

\* A mark that fails is logged and the acceptance audited all the same.
MarkAccepted(w) ==
  /\ proc[w].at = "agree"
  /\ \/ /\ sub' = [sub EXCEPT !.accepted = TRUE, !.shown = proc[w].read, !.agreed = @ + 1]
        /\ UNCHANGED faults
     \/ /\ Fault
        /\ sub' = [sub EXCEPT !.agreed = @ + 1, !.excused = TRUE]
  /\ Goes(w, Idle)
  /\ UNCHANGED <<task, alerts, holder, asked>>

-----------------------------------------------------------------------------
(* Processes.                                                              *)

\* A process dies, or a request's transaction fails: its locks are released.
Crash(w) ==
  /\ proc[w].at # "idle" /\ Fault
  /\ Goes(w, Idle)
  /\ holder' = [s \in DOMAIN holder |-> IF holder[s] = w THEN None ELSE holder[s]]
  /\ excused' = excused \cup IF proc[w].at = "mark" THEN {proc[w].cur} ELSE {}
  /\ UNCHANGED <<task, marked, sub, asked, delivered, repeated>>

\* The connection that holds a sweep's lock drops; the sweep goes on.
LoseLock(w) ==
  /\ proc[w].guarded /\ Fault
  /\ Goes(w, [proc[w] EXCEPT !.guarded = FALSE])
  /\ Unlock(w, proc[w].sweep)
  /\ UNCHANGED <<task, alerts, sub, asked>>

Init ==
  /\ task = [at |-> "none", status |-> "todo", assignees |-> {}, due |-> "far"]
  /\ sub = [at |-> "none", suggestion |-> None, accepted |-> FALSE, shown |-> None,
            agreed |-> 0, excused |-> FALSE, doubled |-> FALSE]
  /\ proc = [w \in Workers |-> Idle]
  /\ holder = [s \in {"alerts", "triage"} |-> None]
  /\ asked = 0 /\ faults = 0
  /\ marked = {} /\ delivered = {} /\ repeated = {} /\ excused = {}

\* What a worker does next once it has begun; a call that fails is a step too.
Step(w) ==
  \/ Update(w) \/ UpdateMissing(w) \/ Reread(w)
  \/ RuleActs(w) \/ RuleFails(w)
  \/ \E a \in Alerts : NotifyUser(w, a) \/ NotifyFails(w, a)
  \/ MarkAlertSent(w) \/ EndSweep(w)
  \/ RecordSubmission(w) \/ StoreSuggestion(w)
  \/ ApplySuggestion(w) \/ MarkAccepted(w)

Next ==
  \/ Time
  \/ \E w \in Workers :
       \/ \E p \in Patches : CreateTask(w, p) \/ UpdateTask(w, p)
       \/ DeleteTask(w) \/ SubmitIntakeForm(w) \/ AcceptIntakeSuggestion(w)
       \/ AlertSweep(w) \/ BootSweep(w) \/ TriageSweep(w)
       \/ Step(w)
       \/ Crash(w) \/ LoseLock(w)

Spec == Init /\ [][Next]_vars

\* Handlers and sweeps go on, and the timers start sweeps for ever; people,
\* faults and restarts are under no obligation.
FairSpec ==
  /\ Spec
  /\ \A w \in Workers : WF_vars(Step(w))
  /\ WF_vars(\E w \in Workers : AlertSweep(w) /\ holder' # holder)
  /\ WF_vars(\E w \in Workers : TriageSweep(w) /\ holder' # holder)

-----------------------------------------------------------------------------
(* Properties.                                                             *)

\* The rows, what workers hold of them, and the histories have their types.
TypeOK ==
  /\ task \in Task
  /\ sub \in Submission
  /\ proc \in [Workers -> Proc]
  /\ holder \in [{"alerts", "triage"} -> Workers \cup {None}]
  /\ asked \in 0..MaxRequests /\ faults \in 0..MaxFaults
  /\ marked \in SUBSET Alerts /\ delivered \in SUBSET Alerts
  /\ repeated \in SUBSET Alerts /\ excused \in SUBSET Alerts

\* Each person is alerted once to each state of the deadline, however many
\* replicas sweep and however often the task's status, assignees and due date
\* change: a second time takes a mark that was lost, or two sweeps with the
\* alert in hand at once, one of them outside the lock (alerts.go, SweepGuard).
AlertedOnce == repeated \subseteq excused

\* A suggestion is accepted once, and the trail says so once: twice takes two
\* people at it at the same time or a mark that failed (AcceptIntakeSuggestion
\* checks accepted_at and writes it three calls later).
AcceptedOnce == sub.agreed <= 1 \/ sub.excused

\* The suggestion on file is the one the person who accepted it was shown: the
\* sweep never answers again on what it has answered, though StoreSuggestion
\* would overwrite it, unless two sweeps asked at once outside the lock.
AcceptedAsShown == sub.accepted /\ ~sub.doubled => sub.suggestion = sub.shown

\* An automation takes nobody off a task who was on it in the event: it may
\* lose those put on meanwhile, by people, by an acceptance or by a rule of the
\* same event (applyActions writes the event's assignees and one more).
RulesKeepAssignees ==
  [][\A w \in Workers :
       RuleActs(w) => proc[w].seen \cap task.assignees \subseteq task'.assignees]_vars

\* Once people leave the task alone, all who are to be alerted are and the
\* submission is answered: no sweep that failed half-way, lost its lock or died
\* keeps the next ones from the rest.
NothingLeftOver ==
  (PendingDeadlineAlerts # {} \/ AwaitingTriage)
    ~> (PendingDeadlineAlerts = {} /\ ~AwaitingTriage)

\* Requests and sweeps end: rules that undo one another's statuses do not go on
\* for ever ("the two would trigger each other forever", automation.go).
AllAnswered == (\E w \in Workers : proc[w].at # "idle")
                 ~> (\A w \in Workers : proc[w].at = "idle")

=============================================================================
