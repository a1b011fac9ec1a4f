----------------------------- MODULE WorkProofs -----------------------------
(***************************************************************************)
(* What Work guarantees for any number of users, workers and rules: an     *)
(* alert is repeated, a suggestion accepted twice or answered anew only    *)
(* where two workers had it in hand at once outside the lock or a mark was *)
(* lost, and an automation takes nobody off who was on its event's task.   *)
(*                                                                         *)
(* The invariant says what a worker's copy still has in common with the    *)
(* rows it was read from.  Then what Hub guarantees for any number of tabs *)
(* and users.                                                              *)
(***************************************************************************)
EXTENDS Work, Hub, TLAPS

\* Any step of a worker.
StepOf(w) ==
  \/ \E p \in Patches : CreateTask(w, p) \/ UpdateTask(w, p)
  \/ DeleteTask(w) \/ SubmitIntakeForm(w) \/ AcceptIntakeSuggestion(w)
  \/ AlertSweep(w) \/ BootSweep(w) \/ TriageSweep(w)
  \/ Step(w)
  \/ Crash(w) \/ LoseLock(w)

\* What a worker holds at each point.
InOrder(p) ==
  /\ p.at = "patch" => p.patch \in Patches
  /\ p.at = "mark" => p.cur \in Alerts
  /\ p.cur # None => p.at = "mark"
  /\ p.todo # {} => p.sweep = "alerts"
  /\ p.at \in {"sweep", "mark"} => p.sweep = "alerts"
  /\ p.at = "ask" <=> p.sweep = "triage"
  /\ p.at \in {"apply", "agree"} => p.read \in Answers
  /\ p.guarded => p.sweep # None

TypeInv == TypeOK /\ \A w \in Workers : InOrder(proc[w])

LEMMA GoesSets ==
  ASSUME TypeOK, NEW w \in Workers, NEW p \in Proc, Goes(w, p)
  PROVE  /\ proc' \in [Workers -> Proc]
         /\ proc'[w] = p
         /\ \A v \in Workers : v # w => proc'[v] = proc[v]
  BY DEF TypeOK, Goes

\* A step that leaves the rows alone, or rightly typed, keeps the types.
LEMMA GoesInOrder ==
  ASSUME TypeInv, NEW w \in Workers, NEW p \in Proc, InOrder(p), Goes(w, p)
  PROVE  proc' \in [Workers -> Proc] /\ (\A v \in Workers : InOrder(proc[v]))'
  <1>1. proc' \in [Workers -> Proc]
    BY GoesSets DEF TypeInv
  <1>2. ASSUME NEW v \in Workers PROVE InOrder(proc'[v])
    BY GoesSets DEF TypeInv
  <1> QED BY <1>1, <1>2

LEMMA IdleInOrder == Idle \in Proc /\ InOrder(Idle)
  BY WorkAssumption DEF Idle, Proc, InOrder

LEMMA ContinueInOrder ==
  ASSUME TypeInv, NEW w \in Workers, NEW plan \in SUBSET Steps, NEW seen \in SUBSET Users,
         proc[w].at \in {"reread", "rules"}
  PROVE  Continue(w, plan, seen) \in Proc /\ InOrder(Continue(w, plan, seen))
  <1>1. proc[w] \in Proc /\ InOrder(proc[w])
    BY DEF TypeInv, TypeOK
  <1>2. CASE plan = {} /\ proc[w].sweep = None
    BY <1>2, IdleInOrder DEF Continue
  <1>3. CASE ~(plan = {} /\ proc[w].sweep = None)
    <2> DEFINE at == IF plan = {} THEN "sweep" ELSE "rules"
    <2>1. Continue(w, plan, seen) =
            [proc[w] EXCEPT !.at = at, !.plan = plan, !.seen = seen, !.on = {}, !.was = None]
      BY <1>3 DEF Continue
    <2>2. at \in {"sweep", "rules"} /\ (at = "sweep" => proc[w].sweep # None)
      BY <1>3
    <2> HIDE DEF at
    <2>3. Continue(w, plan, seen) \in Proc
      BY <1>1, <2>1, <2>2 DEF Proc
    <2>4. proc[w].sweep \in {None, "alerts"}
      BY <1>1 DEF Proc, InOrder
    <2>5. InOrder(Continue(w, plan, seen))
      BY <1>1, <2>1, <2>2, <2>4 DEF Proc, InOrder
    <2> QED BY <2>3, <2>5
  <1> QED BY <1>2, <1>3

LEMMA ActsAreActions ==
  ASSUME NEW s \in Steps
  PROVE  Act(s) \in Actions
  <1>1. PICK r \in DOMAIN Rules : s \in {r} \X DOMAIN Rules[r].acts
    BY DEF Steps
  <1>2. Rules[r] \in Rule
    BY <1>1, WorkAssumption
  <1>3. s[1] = r /\ s[2] \in DOMAIN Rules[r].acts
    BY <1>1
  <1> QED BY <1>2, <1>3 DEF Act, Rule

LEMMA PendingAreAlerts == TypeOK => PendingDeadlineAlerts \in SUBSET Alerts
  BY DEF TypeOK, Task, PendingDeadlineAlerts, Kind, Alerts

LEMMA InitType == Init => TypeInv
  <1> SUFFICES ASSUME Init PROVE TypeInv
    OBVIOUS
  <1>1. task \in Task
    BY DEF Init, Task, Statuses, Dues
  <1>2. sub \in Submission
    BY DEF Init, Submission
  <1>3. proc \in [Workers -> Proc]
    BY IdleInOrder DEF Init
  <1>4. asked \in 0..MaxRequests /\ faults \in 0..MaxFaults
    BY WorkAssumption DEF Init
  <1> QED BY <1>1, <1>2, <1>3, <1>4, IdleInOrder DEF Init, TypeInv, TypeOK


-----------------------------------------------------------------------------
(* Types, one lemma for each group of steps.                               *)

LEMMA Counting ==
  ASSUME TypeInv
  PROVE  /\ \A w : Request(w) => asked' \in 0..MaxRequests
         /\ Fault => faults' \in 0..MaxFaults
  <1>1. asked \in 0..MaxRequests /\ faults \in 0..MaxFaults
    BY DEF TypeInv, TypeOK
  <1>2. MaxRequests \in Nat /\ MaxFaults \in Nat
    BY WorkAssumption
  <1> QED BY <1>1, <1>2 DEF Request, Fault

LEMMA PatchIsTask ==
  ASSUME task \in Task, NEW p \in Patches, NEW t,
         t = [task EXCEPT !.status = Or(@, p.status), !.assignees = Or(@, p.assignees),
                          !.due = Or(@, p.due)]
  PROVE  t \in Task
  <1>1. p \in Patch
    BY WorkAssumption
  <1>2. /\ Or(task.status, p.status) \in Statuses
        /\ Or(task.assignees, p.assignees) \in SUBSET Users
        /\ Or(task.due, p.due) \in Dues
    BY <1>1 DEF Or, Task, Patch
  <1> QED BY <1>2 DEF Task

LEMMA TaskStepsType ==
  ASSUME TypeInv, NEW w \in Workers,
         \/ \E p \in Patches : CreateTask(w, p) \/ UpdateTask(w, p)
         \/ Update(w) \/ UpdateMissing(w) \/ DeleteTask(w) \/ SubmitIntakeForm(w)
  PROVE  TypeInv'
  <1>0. proc[w] \in Proc /\ InOrder(proc[w])
    BY DEF TypeInv, TypeOK
  <1>1. CASE \E p \in Patches : CreateTask(w, p)
    <2>1. PICK p \in Patches : CreateTask(w, p)
      BY <1>1
    <2> DEFINE q == [Idle EXCEPT !.at = "reread", !.on = {"created"}]
    <2>2. q \in Proc /\ InOrder(q)
      BY WorkAssumption DEF Idle, Proc, InOrder, Triggers
    <2>3. p \in Patch
      BY WorkAssumption
    <2>4. task' \in Task
      BY <2>1, <2>3 DEF CreateTask, Or, Task, Patch, Statuses, Dues
    <2>5. Goes(w, q)
      BY <2>1 DEF CreateTask
    <2> HIDE DEF q
    <2> QED BY <2>1, <2>2, <2>4, <2>5, GoesInOrder DEF CreateTask, TypeInv, TypeOK, alerts
  <1>2. CASE \E p \in Patches : UpdateTask(w, p)
    <2>1. PICK p \in Patches : UpdateTask(w, p)
      BY <1>2
    <2> DEFINE q == [Idle EXCEPT !.at = "patch", !.patch = p, !.was = task.status]
    <2>2. q \in Proc /\ InOrder(q)
      BY WorkAssumption DEF Idle, Proc, InOrder, TypeInv, TypeOK, Task
    <2>5. Goes(w, q) /\ asked' \in 0..MaxRequests
      BY <2>1, Counting DEF UpdateTask
    <2> HIDE DEF q
    <2> QED BY <2>1, <2>2, <2>5, GoesInOrder DEF UpdateTask, TypeInv, TypeOK, alerts
  <1>3. CASE Update(w)
    <2> DEFINE p == proc[w].patch
               on == {e \in {"changed", "assigned"} :
                 \/ e = "changed" /\ p.status \notin {None, proc[w].was}
                 \/ e = "assigned" /\ p.assignees # None}
               q == [proc[w] EXCEPT !.at = "reread", !.patch = None, !.on = on]
    <2>1. p \in Patches
      BY <1>0, <1>3 DEF InOrder, Update
    <2>2. task' \in Task
      BY <1>3, <2>1, PatchIsTask DEF Update, TypeInv, TypeOK
    <2>3. on \in SUBSET Triggers
      BY DEF Triggers
    <2>4. Goes(w, q)
      BY <1>3 DEF Update
    <2> HIDE DEF on
    <2>5. q \in Proc
      BY <1>0, <2>3 DEF Proc
    <2>6. InOrder(q)
      BY <1>0, <1>3, <2>3 DEF Proc, InOrder, Update
    <2> HIDE DEF q
    <2> QED BY <1>3, <2>2, <2>4, <2>5, <2>6, GoesInOrder DEF Update, TypeInv, TypeOK, alerts
  <1>4. CASE UpdateMissing(w)
    BY <1>4, IdleInOrder, GoesInOrder DEF UpdateMissing, TypeInv, TypeOK, alerts
  <1>5. CASE DeleteTask(w)
    <2>1. task' \in Task /\ asked' \in 0..MaxRequests
      BY <1>5, Counting DEF DeleteTask, TypeInv, TypeOK, Task
    <2> QED BY <1>5, <2>1 DEF DeleteTask, TypeInv, TypeOK
  <1>6. CASE SubmitIntakeForm(w)
    <2> DEFINE q == [Idle EXCEPT !.at = "record"]
    <2>2. q \in Proc /\ InOrder(q)
      BY WorkAssumption DEF Idle, Proc, InOrder
    <2>4. task' \in Task
      BY <1>6 DEF SubmitIntakeForm, Task, Statuses, Dues
    <2>5. Goes(w, q)
      BY <1>6 DEF SubmitIntakeForm
    <2> HIDE DEF q
    <2> QED BY <1>6, <2>2, <2>4, <2>5, GoesInOrder DEF SubmitIntakeForm, TypeInv, TypeOK, alerts
  <1> QED BY <1>1, <1>2, <1>3, <1>4, <1>5, <1>6

LEMMA EngineStepsType ==
  ASSUME TypeInv, NEW w \in Workers, Reread(w) \/ RuleActs(w) \/ RuleFails(w)
  PROVE  TypeInv'
  <1>0. proc[w] \in Proc /\ InOrder(proc[w]) /\ task \in Task
    BY DEF TypeInv, TypeOK
  <1>1. CASE Reread(w)
    <2> DEFINE q == IF Live THEN Continue(w, Plan(w), task.assignees)
                            ELSE Continue(w, {}, {})
    <2>1. Plan(w) \in SUBSET Steps /\ task.assignees \in SUBSET Users
      BY <1>0 DEF Plan, Task
    <2>2. q \in Proc /\ InOrder(q)
      BY <1>1, <2>1, ContinueInOrder DEF Reread
    <2>3. Goes(w, q)
      BY <1>1 DEF Reread
    <2> HIDE DEF q
    <2> QED BY <1>1, <2>2, <2>3, GoesInOrder DEF Reread, TypeInv, TypeOK, alerts
  <1>2. CASE RuleActs(w)
    <2>1. PICK s \in proc[w].plan :
            /\ proc[w].at = "rules"
            /\ task' = Performed(w, Act(s))
            /\ Goes(w, Continue(w, proc[w].plan \ {s}, proc[w].seen))
            /\ UNCHANGED <<alerts, sub, holder, asked, faults>>
      BY <1>2 DEF RuleActs
    <2>2. s \in Steps /\ proc[w].plan \in SUBSET Steps /\ proc[w].seen \in SUBSET Users
      BY <1>0, <2>1 DEF Proc
    <2>3. Act(s) \in Actions
      BY <2>2, ActsAreActions
    <2>4. task' \in Task
      BY <1>0, <2>1, <2>2, <2>3 DEF Performed, Actions, Task
    <2> DEFINE q == Continue(w, proc[w].plan \ {s}, proc[w].seen)
    <2>5. q \in Proc /\ InOrder(q)
      BY <2>1, <2>2, ContinueInOrder
    <2> HIDE DEF q
    <2>6. Goes(w, q)
      BY <2>1 DEF q
    <2> QED BY <2>1, <2>4, <2>5, <2>6, GoesInOrder DEF TypeInv, TypeOK, alerts
  <1>3. CASE RuleFails(w)
    <2>1. PICK s \in proc[w].plan :
            /\ proc[w].at = "rules"
            /\ UNCHANGED faults \/ Fault
            /\ Goes(w, Continue(w, {t \in proc[w].plan : t[1] # s[1]}, proc[w].seen))
            /\ UNCHANGED <<task, alerts, sub, holder, asked>>
      BY <1>3 DEF RuleFails
    <2> DEFINE q == Continue(w, {t \in proc[w].plan : t[1] # s[1]}, proc[w].seen)
    <2>2. {t \in proc[w].plan : t[1] # s[1]} \in SUBSET Steps /\ proc[w].seen \in SUBSET Users
      BY <1>0 DEF Proc
    <2>3. q \in Proc /\ InOrder(q)
      BY <2>1, <2>2, ContinueInOrder
    <2>4. Goes(w, q) /\ faults' \in 0..MaxFaults
      BY <2>1, Counting DEF TypeInv, TypeOK
    <2> HIDE DEF q
    <2> QED BY <2>1, <2>3, <2>4, GoesInOrder DEF TypeInv, TypeOK, alerts
  <1> QED BY <1>1, <1>2, <1>3

LEMMA LockIsTyped ==
  ASSUME TypeInv, NEW w \in Workers, NEW s \in {"alerts", "triage"}
  PROVE  /\ TryLock(w, s) => /\ holder' \in [{"alerts", "triage"} -> Workers \cup {None}]
                             /\ faults' \in 0..MaxFaults
         /\ Unlock(w, s) => holder' \in [{"alerts", "triage"} -> Workers \cup {None}]
  <1>1. holder \in [{"alerts", "triage"} -> Workers \cup {None}] /\ faults \in 0..MaxFaults
    BY DEF TypeInv, TypeOK
  <1> QED BY <1>1, Counting DEF TryLock, Unlock

LEMMA SweepInOrder ==
  ASSUME TypeInv, NEW w \in Workers, NEW guarded \in BOOLEAN,
         NEW p, p = [Idle EXCEPT !.at = "sweep", !.sweep = "alerts", !.guarded = guarded,
                                 !.todo = PendingDeadlineAlerts]
  PROVE  p \in Proc /\ InOrder(p)
  <1>1. PendingDeadlineAlerts \in SUBSET Alerts
    BY PendingAreAlerts DEF TypeInv
  <1> QED BY <1>1, WorkAssumption DEF Idle, Proc, InOrder

LEMMA AlertStepsType ==
  ASSUME TypeInv, NEW w \in Workers,
         \/ AlertSweep(w) \/ BootSweep(w) \/ MarkAlertSent(w) \/ EndSweep(w)
         \/ \E a \in Alerts : NotifyUser(w, a) \/ NotifyFails(w, a)
  PROVE  TypeInv'
  <1>0. proc[w] \in Proc /\ InOrder(proc[w])
    BY DEF TypeInv, TypeOK
  <1>s. ASSUME NEW guarded \in BOOLEAN, StartSweep(w, guarded)
        PROVE  /\ proc' \in [Workers -> Proc] /\ (\A v \in Workers : InOrder(proc[v]))'
               /\ excused' \in SUBSET Alerts
               /\ UNCHANGED <<task, sub, marked, delivered, repeated>>
    <2> DEFINE q == [Idle EXCEPT !.at = "sweep", !.sweep = "alerts", !.guarded = guarded,
                                 !.todo = PendingDeadlineAlerts]
    <2>1. q \in Proc /\ InOrder(q)
      BY SweepInOrder
    <2>2. Goes(w, q)
      BY <1>s DEF StartSweep
    <2> HIDE DEF q
    <2>3. Shared(guarded) \in SUBSET Alerts
      BY PendingAreAlerts DEF Shared, TypeInv
    <2> QED BY <1>s, <2>1, <2>2, <2>3, GoesInOrder DEF StartSweep, TypeInv, TypeOK
  <1>1. CASE AlertSweep(w)
    <2>1. StartSweep(w, holder' # holder) /\ (holder' # holder) \in BOOLEAN
      BY <1>1 DEF AlertSweep
    <2> QED BY <1>1, <2>1, <1>s, LockIsTyped DEF AlertSweep, TypeInv, TypeOK
  <1>2. CASE BootSweep(w)
    BY <1>2, <1>s, Counting DEF BootSweep, TypeInv, TypeOK
  <1>3. CASE MarkAlertSent(w)
    <2> DEFINE a == proc[w].cur
               q == IF proc[w].fired THEN [proc[w] EXCEPT !.at = "sweep", !.cur = None]
                    ELSE [proc[w] EXCEPT !.at = "reread", !.cur = None, !.fired = TRUE,
                                         !.on = {a[2]}]
    <2>1. a \in Alerts
      BY <1>0, <1>3 DEF InOrder, MarkAlertSent
    <2>2. {a[2]} \in SUBSET Triggers
      BY <2>1 DEF Alerts, Triggers
    <2>3. proc[w].at = "mark" /\ Goes(w, q)
      BY <1>3 DEF MarkAlertSent
    <2>4. q \in Proc
      BY <1>0, <2>2 DEF Proc
    <2>5. InOrder(q)
      BY <1>0, <2>2, <2>3 DEF Proc, InOrder
    <2>6. faults' \in 0..MaxFaults /\ marked' \in SUBSET Alerts /\ excused' \in SUBSET Alerts
      BY <1>3, <2>1, Counting DEF MarkAlertSent, TypeInv, TypeOK
    <2> HIDE DEF q
    <2> QED BY <1>3, <2>3, <2>4, <2>5, <2>6, GoesInOrder DEF MarkAlertSent, TypeInv, TypeOK
  <1>4. CASE EndSweep(w)
    BY <1>4, IdleInOrder, GoesInOrder, LockIsTyped DEF EndSweep, TypeInv, TypeOK, alerts
  <1>5. CASE \E a \in Alerts : NotifyUser(w, a)
    <2>1. PICK a \in Alerts : NotifyUser(w, a)
      BY <1>5
    <2> DEFINE q == [proc[w] EXCEPT !.at = "mark", !.cur = a, !.todo = @ \ {a}]
    <2>2. Goes(w, q)
      BY <2>1 DEF NotifyUser
    <2>3. q \in Proc /\ InOrder(q)
      BY <1>0, <2>1 DEF Proc, InOrder, NotifyUser
    <2> HIDE DEF q
    <2> QED BY <2>1, <2>2, <2>3, GoesInOrder DEF NotifyUser, TypeInv, TypeOK
  <1>6. CASE \E a \in Alerts : NotifyFails(w, a)
    <2>1. PICK a \in Alerts : NotifyFails(w, a)
      BY <1>6
    <2> DEFINE q == [proc[w] EXCEPT !.todo = @ \ {a}]
    <2>2. Goes(w, q)
      BY <2>1 DEF NotifyFails
    <2>3. q \in Proc /\ InOrder(q)
      BY <1>0, <2>1 DEF Proc, InOrder, NotifyFails
    <2> HIDE DEF q
    <2> QED BY <2>1, <2>2, <2>3, GoesInOrder, Counting DEF NotifyFails, TypeInv, TypeOK, alerts
  <1> QED BY <1>1, <1>2, <1>3, <1>4, <1>5, <1>6

LEMMA IntakeStepsType ==
  ASSUME TypeInv, NEW w \in Workers,
         \/ RecordSubmission(w) \/ TriageSweep(w) \/ StoreSuggestion(w)
         \/ AcceptIntakeSuggestion(w) \/ ApplySuggestion(w) \/ MarkAccepted(w)
  PROVE  TypeInv'
  <1>0. proc[w] \in Proc /\ InOrder(proc[w]) /\ sub \in Submission /\ task \in Task
    BY DEF TypeInv, TypeOK
  <1>1. CASE RecordSubmission(w)
    <2>1. sub' \in Submission /\ faults' \in 0..MaxFaults
      BY <1>0, <1>1, Counting DEF RecordSubmission, Submission, TypeInv, TypeOK
    <2> QED BY <1>1, <2>1, IdleInOrder, GoesInOrder DEF RecordSubmission, TypeInv, TypeOK, alerts
  <1>2. CASE TriageSweep(w)
    <2> DEFINE q == [Idle EXCEPT !.at = "ask", !.sweep = "triage", !.guarded = holder' # holder]
    <2>1. Goes(w, q)
      BY <1>2 DEF TriageSweep
    <2>2. q \in Proc /\ InOrder(q)
      BY WorkAssumption DEF Idle, Proc, InOrder
    <2>3. sub' \in Submission
      BY <1>0, <1>2 DEF TriageSweep, Submission
    <2> HIDE DEF q
    <2> QED BY <1>2, <2>1, <2>2, <2>3, GoesInOrder, LockIsTyped DEF TriageSweep, TypeInv, TypeOK, alerts
  <1>3. CASE StoreSuggestion(w)
    <2>1. sub' \in Submission /\ faults' \in 0..MaxFaults
      BY <1>0, <1>3, Counting DEF StoreSuggestion, Submission, TypeInv, TypeOK
    <2> QED BY <1>3, <2>1, IdleInOrder, GoesInOrder, LockIsTyped DEF StoreSuggestion, TypeInv, TypeOK, alerts
  <1>4. CASE AcceptIntakeSuggestion(w)
    <2> DEFINE q == [Idle EXCEPT !.at = "apply", !.read = sub.suggestion]
    <2>1. Goes(w, q)
      BY <1>4 DEF AcceptIntakeSuggestion
    <2>2. sub.suggestion \in Answers
      BY <1>0, <1>4 DEF AcceptIntakeSuggestion, Submission
    <2>3. q \in Proc /\ InOrder(q)
      BY <2>2, WorkAssumption DEF Idle, Proc, InOrder
    <2>4. sub' \in Submission
      BY <1>0, <1>4 DEF AcceptIntakeSuggestion, Submission
    <2> HIDE DEF q
    <2> QED BY <1>4, <2>1, <2>3, <2>4, GoesInOrder, Counting DEF AcceptIntakeSuggestion, TypeInv, TypeOK, alerts
  <1>5. CASE ApplySuggestion(w)
    <2> DEFINE q == [proc[w] EXCEPT !.at = "agree"]
    <2>1. Goes(w, q) \/ Goes(w, Idle)
      BY <1>5 DEF ApplySuggestion
    <2>2. q \in Proc /\ InOrder(q)
      BY <1>0, <1>5 DEF Proc, InOrder, ApplySuggestion
    <2>3. task' \in Task
      BY <1>0, <1>5 DEF ApplySuggestion, Task
    <2> HIDE DEF q
    <2> QED BY <1>5, <2>1, <2>2, <2>3, IdleInOrder, GoesInOrder DEF ApplySuggestion, TypeInv, TypeOK, alerts
  <1>6. CASE MarkAccepted(w)
    <2>1. sub.agreed \in Nat /\ proc[w].read \in Answers
      BY <1>0, <1>6 DEF MarkAccepted, Submission, InOrder
    <2> DEFINE n == sub.agreed + 1
    <2>n. n \in Nat
      BY <2>1
    <2> HIDE DEF n
    <2>3. [sub EXCEPT !.accepted = TRUE, !.shown = proc[w].read, !.agreed = n] \in Submission
      BY <1>0, <2>1, <2>n DEF Submission
    <2>4. [sub EXCEPT !.agreed = n, !.excused = TRUE] \in Submission
      BY <1>0, <2>n DEF Submission
    <2>5. sub' \in Submission
      BY <1>6, <2>3, <2>4 DEF MarkAccepted, n
    <2>6. faults' \in 0..MaxFaults
      BY <1>6, Counting DEF MarkAccepted, TypeInv, TypeOK
    <2>2. sub' \in Submission /\ faults' \in 0..MaxFaults
      BY <2>5, <2>6
    <2> QED BY <1>6, <2>2, IdleInOrder, GoesInOrder DEF MarkAccepted, TypeInv, TypeOK, alerts
  <1> QED BY <1>1, <1>2, <1>3, <1>4, <1>5, <1>6

LEMMA ProcessStepsType ==
  ASSUME TypeInv, Time \/ \E w \in Workers : Crash(w) \/ LoseLock(w)
  PROVE  TypeInv'
  <1>1. CASE Time
    <2>1. task' \in Task
      BY <1>1 DEF Time, Task, Dues, TypeInv, TypeOK
    <2> QED BY <1>1, <2>1 DEF Time, TypeInv, TypeOK, alerts
  <1>2. CASE \E w \in Workers : Crash(w)
    <2>1. PICK w \in Workers : Crash(w)
      BY <1>2
    <2>2. proc[w].at = "mark" => proc[w].cur \in Alerts
      BY DEF TypeInv, InOrder
    <2>3. excused' \in SUBSET Alerts
      BY <2>1, <2>2 DEF Crash, TypeInv, TypeOK
    <2>4. holder' \in [{"alerts", "triage"} -> Workers \cup {None}]
      BY <2>1 DEF Crash, TypeInv, TypeOK
    <2> QED BY <2>1, <2>3, <2>4, IdleInOrder, GoesInOrder, Counting DEF Crash, TypeInv, TypeOK
  <1>3. CASE \E w \in Workers : LoseLock(w)
    <2>1. PICK w \in Workers : LoseLock(w)
      BY <1>3
    <2>2. proc[w] \in Proc /\ InOrder(proc[w])
      BY DEF TypeInv, TypeOK
    <2> DEFINE q == [proc[w] EXCEPT !.guarded = FALSE]
    <2> DEFINE old == proc[w]
    <2>a. old \in Proc /\ InOrder(old) /\ q = [old EXCEPT !.guarded = FALSE]
      BY <2>2
    <2> HIDE DEF old, q
    <2>b. q \in Proc
      BY <2>a DEF Proc
    <2>c. /\ ~q.guarded /\ q.at = old.at /\ q.patch = old.patch /\ q.cur = old.cur
          /\ q.todo = old.todo /\ q.sweep = old.sweep /\ q.read = old.read
      BY <2>a DEF Proc
    <2>3. q \in Proc /\ InOrder(q)
      BY <2>a, <2>b, <2>c DEF InOrder
    <2> USE DEF q
    <2>4. Goes(w, q) /\ proc[w].sweep \in {"alerts", "triage"}
      BY <2>1, <2>2 DEF LoseLock, Proc, InOrder
    <2> HIDE DEF q
    <2> QED BY <2>1, <2>3, <2>4, GoesInOrder, Counting, LockIsTyped DEF LoseLock, TypeInv, TypeOK, alerts
  <1> QED BY <1>1, <1>2, <1>3

LEMMA TypeStep == TypeInv /\ [Next]_vars => TypeInv'
  <1> SUFFICES ASSUME TypeInv, [Next]_vars PROVE TypeInv'
    OBVIOUS
  <1>1. CASE UNCHANGED vars
    BY <1>1 DEF vars, TypeInv, TypeOK
  <1>2. CASE Next
    BY <1>2, TaskStepsType, EngineStepsType, AlertStepsType, IntakeStepsType, ProcessStepsType
    DEF Next, Step
  <1> QED BY <1>1, <1>2

\* The rows, the workers' copies and the histories have their types.
THEOREM Typed == Spec => []TypeOK
  <1>1. TypeInv => TypeOK
    BY DEF TypeInv
  <1> QED BY InitType, TypeStep, <1>1, PTL DEF Spec

\* No automation takes off a task somebody who was on it in its event.
THEOREM RulesKeep == Spec => RulesKeepAssignees
  <1>1. ASSUME TypeInv, NEW w \in Workers, RuleActs(w)
        PROVE  proc[w].seen \cap task.assignees \subseteq task'.assignees
    <2>1. PICK s \in proc[w].plan : task' = Performed(w, Act(s))
      BY <1>1 DEF RuleActs
    <2>2. task \in Task
      BY <1>1 DEF TypeInv, TypeOK
    <2> QED BY <2>1, <2>2 DEF Performed, Task
  <1>2. TypeInv => (\A w \in Workers : RuleActs(w) =>
                      proc[w].seen \cap task.assignees \subseteq task'.assignees)
    BY <1>1
  <1> QED BY InitType, TypeStep, <1>2, PTL DEF Spec, RulesKeepAssignees

-----------------------------------------------------------------------------
(* The lock: a worker that thinks it holds it does.                        *)

Locked == \A w \in Workers : proc[w].guarded => holder[proc[w].sweep] = w

\* A worker that gets a lock nobody has, or none.
LEMMA LockTaken ==
  ASSUME TypeInv, Locked, NEW w \in Workers, NEW s \in {"alerts", "triage"}, NEW p \in Proc,
         TryLock(w, s), Goes(w, p), p.guarded = (holder' # holder), p.sweep = s
  PROVE  Locked'
  <1>1. holder \in [{"alerts", "triage"} -> Workers \cup {None}]
    BY DEF TypeInv, TypeOK
  <1> SUFFICES ASSUME NEW v \in Workers, proc'[v].guarded
               PROVE  holder'[proc'[v].sweep] = v
    BY DEF Locked
  <1>t. \A u \in Workers : proc[u].guarded => proc[u].sweep \in {"alerts", "triage"}
    BY DEF TypeInv, TypeOK, InOrder, Proc
  <1>2. CASE v = w
    <2>1. proc'[v] = p
      BY <1>2, GoesSets DEF TypeInv
    <2>2. holder' # holder
      BY <2>1
    <2>3. holder' = [holder EXCEPT ![s] = w]
      BY <2>2 DEF TryLock
    <2>4. holder'[s] = w
      BY <1>1, <2>3
    <2> QED BY <1>2, <2>1, <2>4
  <1>3. CASE v # w
    <2>1. proc'[v] = proc[v]
      BY <1>3, GoesSets DEF TypeInv
    <2>2. holder[proc[v].sweep] = v
      BY <2>1 DEF Locked
    <2>3. v # None
      BY WorkAssumption
    <2>4. proc[v].sweep = s => holder' = holder
      BY <2>2, <2>3 DEF TryLock
    <2>5. holder' = holder \/ holder' = [holder EXCEPT ![s] = w]
      BY DEF TryLock
    <2>6. proc[v].sweep \in {"alerts", "triage"}
      BY <2>1, <1>t
    <2> QED BY <1>1, <2>1, <2>2, <2>4, <2>5, <2>6
  <1> QED BY <1>2, <1>3

\* A worker that gives back what it holds, and only that.
LEMMA LockGiven ==
  ASSUME TypeInv, Locked, NEW w \in Workers, NEW s \in {"alerts", "triage"}, NEW p \in Proc,
         Unlock(w, s), proc[w].sweep = s, Goes(w, p), ~p.guarded
  PROVE  Locked'
  <1>1. holder \in [{"alerts", "triage"} -> Workers \cup {None}]
    BY DEF TypeInv, TypeOK
  <1> SUFFICES ASSUME NEW v \in Workers, proc'[v].guarded
               PROVE  holder'[proc'[v].sweep] = v
    BY DEF Locked
  <1>2. v # w /\ proc'[v] = proc[v]
    BY GoesSets DEF TypeInv
  <1>3. holder[proc[v].sweep] = v
    BY <1>2 DEF Locked
  <1>4. proc[w].guarded => holder[s] = w
    BY DEF Locked
  <1> QED BY <1>1, <1>2, <1>3, <1>4 DEF Unlock

LEMMA LockStep == TypeInv /\ Locked /\ [Next]_vars => Locked'
  <1> SUFFICES ASSUME TypeInv, Locked, [Next]_vars PROVE Locked'
    OBVIOUS
  <1>t. ASSUME NEW w \in Workers PROVE proc[w] \in Proc /\ InOrder(proc[w])
    BY DEF TypeInv, TypeOK
  <1>i. Idle \in Proc /\ ~Idle.guarded
    BY IdleInOrder DEF Idle
  <1>u. CASE UNCHANGED vars \/ Time
    BY <1>u DEF vars, Time, Locked
  <1>w. ASSUME NEW w \in Workers, StepOf(w) PROVE Locked'
    <2>0. proc[w] \in Proc /\ InOrder(proc[w]) /\ proc \in [Workers -> Proc]
      BY <1>t DEF TypeInv, TypeOK
    <2>g. ASSUME NEW q, Goes(w, q), ~q.guarded, holder' = holder
          PROVE  Locked'
      BY <2>g, <2>0 DEF Goes, Locked
    <2>1. CASE \E p \in Patches : CreateTask(w, p) \/ UpdateTask(w, p)
      <3>1. PICK p \in Patches : CreateTask(w, p) \/ UpdateTask(w, p)
        BY <2>1
      <3>2. CASE CreateTask(w, p)
        <4> DEFINE q == [Idle EXCEPT !.at = "reread", !.on = {"created"}]
        <4>1. Goes(w, q) /\ holder' = holder
          BY <3>2 DEF CreateTask
        <4>2. ~q.guarded
          BY DEF Idle
        <4> HIDE DEF q
        <4> QED BY <4>1, <4>2, <2>g
      <3>3. CASE UpdateTask(w, p)
        <4> DEFINE q == [Idle EXCEPT !.at = "patch", !.patch = p, !.was = task.status]
        <4>1. Goes(w, q) /\ holder' = holder
          BY <3>3 DEF UpdateTask
        <4>2. ~q.guarded
          BY DEF Idle
        <4> HIDE DEF q
        <4> QED BY <4>1, <4>2, <2>g
      <3> QED BY <3>1, <3>2, <3>3
    <2>2. CASE \/ DeleteTask(w) \/ SubmitIntakeForm(w) \/ AcceptIntakeSuggestion(w) \/ BootSweep(w)
      <3>1. CASE DeleteTask(w)
        BY <3>1 DEF DeleteTask, Locked
      <3>2. CASE SubmitIntakeForm(w)
        <4> DEFINE q == [Idle EXCEPT !.at = "record"]
        <4>1. Goes(w, q) /\ holder' = holder
          BY <3>2 DEF SubmitIntakeForm
        <4>2. ~q.guarded
          BY DEF Idle
        <4> HIDE DEF q
        <4> QED BY <4>1, <4>2, <2>g
      <3>3. CASE AcceptIntakeSuggestion(w)
        <4> DEFINE q == [Idle EXCEPT !.at = "apply", !.read = sub.suggestion]
        <4>1. Goes(w, q) /\ holder' = holder
          BY <3>3 DEF AcceptIntakeSuggestion
        <4>2. ~q.guarded
          BY DEF Idle
        <4> HIDE DEF q
        <4> QED BY <4>1, <4>2, <2>g
      <3>4. CASE BootSweep(w)
        <4> DEFINE q == [Idle EXCEPT !.at = "sweep", !.sweep = "alerts", !.guarded = FALSE,
                                  !.todo = PendingDeadlineAlerts]
        <4>1. Goes(w, q) /\ holder' = holder
          BY <3>4 DEF BootSweep, StartSweep
        <4>2. ~q.guarded
          BY DEF Idle
        <4> HIDE DEF q
        <4> QED BY <4>1, <4>2, <2>g
      <3> QED BY <2>2, <3>1, <3>2, <3>3, <3>4
    <2>3. CASE AlertSweep(w)
      <3> DEFINE p == [Idle EXCEPT !.at = "sweep", !.sweep = "alerts",
                         !.guarded = (holder' # holder), !.todo = PendingDeadlineAlerts]
      <3>1. p \in Proc /\ p.guarded = (holder' # holder) /\ p.sweep = "alerts"
        BY SweepInOrder DEF Idle
      <3>2. TryLock(w, "alerts") /\ Goes(w, p)
        BY <2>3 DEF AlertSweep, StartSweep
      <3> HIDE DEF p
      <3> QED BY <3>1, <3>2, LockTaken
    <2>4. CASE TriageSweep(w)
      <3> DEFINE p == [Idle EXCEPT !.at = "ask", !.sweep = "triage", !.guarded = holder' # holder]
      <3>1. p \in Proc /\ p.guarded = (holder' # holder) /\ p.sweep = "triage"
        BY DEF Idle, Proc
      <3>2. TryLock(w, "triage") /\ Goes(w, p)
        BY <2>4 DEF TriageSweep
      <3> HIDE DEF p
      <3> QED BY <3>1, <3>2, LockTaken
    <2>5. CASE Reread(w) \/ RuleActs(w) \/ RuleFails(w)
      <3>1. PICK plan, seen : Goes(w, Continue(w, plan, seen)) /\ UNCHANGED holder
        BY <2>5 DEF Reread, RuleActs, RuleFails
      <3>2. \/ ~Continue(w, plan, seen).guarded
            \/ /\ Continue(w, plan, seen).guarded = proc[w].guarded
               /\ Continue(w, plan, seen).sweep = proc[w].sweep
        BY <2>0 DEF Continue, Idle, Proc
      <3> QED BY <3>1, <3>2, <2>0 DEF Goes, Locked
    <2>6. CASE Update(w) \/ UpdateMissing(w)
      <3>1. CASE Update(w)
        <4>1. PICK on : Goes(w, [proc[w] EXCEPT !.at = "reread", !.patch = None, !.on = on])
          BY <3>1 DEF Update
        <4> QED BY <3>1, <4>1, <2>0 DEF Update, Goes, Proc, Locked
      <3>2. CASE UpdateMissing(w)
        BY <3>2, <2>0 DEF UpdateMissing, Goes, Idle, Locked
      <3> QED BY <2>6, <3>1, <3>2
    <2>7. CASE EndSweep(w)
      BY <2>7, <2>0, <1>i, LockGiven DEF EndSweep, InOrder
    <2>8. CASE StoreSuggestion(w)
      BY <2>8, <2>0, <1>i, LockGiven DEF StoreSuggestion, InOrder
    <2>9. CASE \E a \in Alerts : NotifyUser(w, a) \/ NotifyFails(w, a)
      <3>1. PICK a \in Alerts : NotifyUser(w, a) \/ NotifyFails(w, a)
        BY <2>9
      <3>2. CASE NotifyUser(w, a)
        BY <3>2, <2>0 DEF NotifyUser, Goes, Proc, Locked
      <3>3. CASE NotifyFails(w, a)
        BY <3>3, <2>0 DEF NotifyFails, Goes, Proc, Locked
      <3> QED BY <3>1, <3>2, <3>3
    <2>10. CASE MarkAlertSent(w)
      BY <2>10, <2>0 DEF MarkAlertSent, Goes, Proc, Locked
    <2>11. CASE RecordSubmission(w) \/ ApplySuggestion(w) \/ MarkAccepted(w)
      BY <2>11, <2>0 DEF RecordSubmission, ApplySuggestion, MarkAccepted, Goes, Idle, Proc, Locked
    <2>12. CASE Crash(w)
      <3> SUFFICES ASSUME NEW v \in Workers, proc'[v].guarded
                   PROVE  holder'[proc'[v].sweep] = v
        BY DEF Locked
      <3>1. v # w /\ proc'[v] = proc[v]
        BY <2>12, <2>0, <1>i DEF Crash, Goes
      <3>2. proc[v].sweep \in {"alerts", "triage"}
        BY <3>1, <1>t DEF InOrder, Proc
      <3>3. holder[proc[v].sweep] = v
        BY <3>1 DEF Locked
      <3>4. holder \in [{"alerts", "triage"} -> Workers \cup {None}]
        BY DEF TypeInv, TypeOK
      <3> QED BY <2>12, <3>1, <3>2, <3>3, <3>4 DEF Crash
    <2>13. CASE LoseLock(w)
      <3> DEFINE p == [proc[w] EXCEPT !.guarded = FALSE]
      <3>1. p \in Proc /\ ~p.guarded
        BY <2>0 DEF Proc
      <3>2. proc[w].sweep \in {"alerts", "triage"} /\ Unlock(w, proc[w].sweep) /\ Goes(w, p)
        BY <2>13, <2>0 DEF LoseLock, InOrder, Proc
      <3> HIDE DEF p
      <3> QED BY <3>1, <3>2, LockGiven
    <2> QED BY <1>w, <2>1, <2>2, <2>3, <2>4, <2>5, <2>6, <2>7, <2>8, <2>9, <2>10, <2>11,
               <2>12, <2>13 DEF StepOf, Step
  <1> QED BY <1>u, <1>w DEF Next, StepOf

-----------------------------------------------------------------------------
(* Alerts.                                                                 *)

\* What a sweep has left was not delivered; two do not have the same left; what
\* was delivered is marked, or about to be.
Listed == \A w \in Workers : \A a \in proc[w].todo : a \in delivered => a \in excused

Apart ==
  \A v, w \in Workers : \A a \in Alerts :
    v # w /\ InHand(v, a) /\ InHand(w, a) => a \in excused

Accounted ==
  task.at # "gone" =>
    \A a \in delivered : a \in marked \/ a \in excused \/ \E w \in Workers : proc[w].cur = a

Begun == task.at = "none" => \A w \in Workers : proc[w].todo = {} /\ proc[w].cur = None

AlertInv == Listed /\ Apart /\ Accounted /\ Begun /\ AlertedOnce

\* Steps that are not the sweep's.
LEMMA HandKept ==
  ASSUME TypeInv, AlertInv, NEW w \in Workers, NEW p \in Proc, Goes(w, p),
         p.todo \subseteq proc[w].todo, p.cur = proc[w].cur,
         task'.at \in {task.at, "live"}, task.at = "gone" => task'.at = "gone",
         UNCHANGED alerts
  PROVE  AlertInv'
  <1>1. \A v \in Workers : proc'[v].todo \subseteq proc[v].todo /\ proc'[v].cur = proc[v].cur
    BY GoesSets DEF TypeInv
  <1>2. Listed' /\ Apart' /\ AlertedOnce'
    BY <1>1 DEF AlertInv, Listed, Apart, AlertedOnce, InHand, alerts
  <1>3. Accounted'
    BY <1>1 DEF AlertInv, Accounted, alerts
  <1>4. Begun'
    BY <1>1 DEF AlertInv, Begun
  <1> QED BY <1>2, <1>3, <1>4 DEF AlertInv

\* Where a request, or a sweep of triage, ends.
LEMMA IdleKept ==
  ASSUME TypeInv, AlertInv, NEW w \in Workers, NEW p \in Proc, Goes(w, p),
         p.todo = {}, p.cur = None, proc[w].at # "mark",
         task'.at \in {task.at, "live"}, task.at = "gone" => task'.at = "gone",
         UNCHANGED alerts
  PROVE  AlertInv'
  <1>1. proc[w].cur = None
    BY DEF TypeInv, InOrder
  <1> QED BY <1>1, HandKept

\* A sweep starts: what it shares with another it shares outside the lock.
LEMMA StartKeeps ==
  ASSUME TypeInv, Locked, AlertInv, NEW w \in Workers, NEW guarded \in BOOLEAN,
         proc[w].at = "idle", StartSweep(w, guarded),
         guarded => holder["alerts"] = None
  PROVE  AlertInv'
  <1> DEFINE p == [Idle EXCEPT !.at = "sweep", !.sweep = "alerts", !.guarded = guarded,
                               !.todo = PendingDeadlineAlerts]
             pending == PendingDeadlineAlerts
  <1>1. /\ Goes(w, p) /\ excused' = excused \cup Shared(guarded)
        /\ UNCHANGED <<task, sub, marked, delivered, repeated>>
    BY DEF StartSweep
  <1>2. p \in Proc /\ p.todo = pending /\ p.cur = None
    BY SweepInOrder DEF Idle
  <1>3. pending \in SUBSET Alerts /\ (pending # {} => Live) /\ pending \cap marked = {}
    BY PendingAreAlerts DEF PendingDeadlineAlerts, TypeInv
  <1>4. ASSUME NEW a \in pending, NEW v \in Workers, InHand(v, a)
        PROVE  a \in excused'
    <2>1. proc[v].sweep = "alerts"
      <3>1. proc[v].todo # {} \/ proc[v].cur # None
        BY <1>3, <1>4, WorkAssumption DEF InHand
      <3> QED BY <3>1 DEF TypeInv, InOrder
    <2>2. guarded => ~proc[v].guarded
      BY <2>1, WorkAssumption DEF Locked
    <2> QED BY <1>1, <1>4, <2>2 DEF Shared
  <1> HIDE DEF p
  <1>5. proc'[w] = p /\ \A v \in Workers : v # w => proc'[v] = proc[v]
    BY <1>1, <1>2, GoesSets DEF TypeInv
  <1>6. proc[w].cur = None
    BY DEF TypeInv, InOrder
  <1>7. ASSUME NEW a \in pending, a \in delivered PROVE a \in excused'
    <2>1. a \in excused \/ \E v \in Workers : proc[v].cur = a
      BY <1>3, <1>7 DEF AlertInv, Accounted, Live
    <2> QED BY <1>1, <1>4, <1>7, <2>1 DEF InHand
  <1>8. Listed'
    BY <1>1, <1>2, <1>5, <1>7 DEF AlertInv, Listed
  <1>9. Apart'
    <2> SUFFICES ASSUME NEW u \in Workers, NEW v \in Workers, NEW a \in Alerts, u # v,
                        InHand(u, a)', InHand(v, a)'
                 PROVE  a \in excused'
      BY DEF Apart
    <2>1. CASE u # w /\ v # w
      BY <1>1, <1>5, <2>1 DEF AlertInv, Apart, InHand
    <2>2. CASE u = w
      <3>1. a \in pending
        BY <1>2, <1>5, <2>2, WorkAssumption DEF InHand
      <3>2. InHand(v, a)
        BY <1>5, <2>2 DEF InHand
      <3> QED BY <3>1, <3>2, <1>4
    <2>3. CASE v = w
      <3>1. a \in pending
        BY <1>2, <1>5, <2>3, WorkAssumption DEF InHand
      <3>2. InHand(u, a)
        BY <1>5, <2>3 DEF InHand
      <3> QED BY <3>1, <3>2, <1>4
    <2> QED BY <2>1, <2>2, <2>3
  <1>10. Accounted'
    <2>1. \A a \in Alerts, v \in Workers : proc[v].cur = a => proc'[v].cur = a
      BY <1>5, <1>6, WorkAssumption
    <2>2. delivered \in SUBSET Alerts
      BY DEF TypeInv, TypeOK
    <2> QED BY <1>1, <2>1, <2>2 DEF AlertInv, Accounted
  <1>11. Begun'
    BY <1>1, <1>2, <1>3, <1>5 DEF AlertInv, Begun, Live
  <1>12. AlertedOnce'
    BY <1>1 DEF AlertInv, AlertedOnce
  <1> QED BY <1>8, <1>9, <1>10, <1>11, <1>12 DEF AlertInv

\* Delivering: whoever else has the alert in hand has it excused.
LEMMA NotifyKeeps ==
  ASSUME TypeInv, AlertInv, NEW w \in Workers, NEW a \in Alerts, NotifyUser(w, a)
  PROVE  AlertInv'
  <1> DEFINE p == [proc[w] EXCEPT !.at = "mark", !.cur = a, !.todo = @ \ {a}]
  <1>0. proc[w] \in Proc /\ InOrder(proc[w])
    BY DEF TypeInv, TypeOK
  <1>1. /\ Goes(w, p) /\ a \in proc[w].todo /\ proc[w].cur = None
        /\ delivered' = delivered \cup {a} /\ repeated' = repeated \cup ({a} \cap delivered)
        /\ UNCHANGED <<task, marked, excused>>
    BY <1>0 DEF NotifyUser, InOrder
  <1>2. p \in Proc /\ p.todo = proc[w].todo \ {a} /\ p.cur = a
    BY <1>0 DEF Proc
  <1> HIDE DEF p
  <1>3. proc'[w] = p /\ \A v \in Workers : v # w => proc'[v] = proc[v]
    BY <1>1, <1>2, GoesSets DEF TypeInv
  <1>4. \A v \in Workers, b \in Alerts : InHand(v, b)' => InHand(v, b)
    BY <1>1, <1>2, <1>3 DEF InHand
  <1>5. Listed'
    <2> SUFFICES ASSUME NEW v \in Workers, NEW b \in proc'[v].todo, b \in delivered'
                 PROVE  b \in excused
      BY <1>1 DEF Listed
    <2>1. b \in proc[v].todo
      BY <1>2, <1>3
    <2>2. CASE b \in delivered
      BY <2>1, <2>2 DEF AlertInv, Listed
    <2>3. CASE b = a
      <3>1. v # w
        BY <1>2, <1>3, <2>3
      <3> QED BY <1>1, <2>1, <2>3, <3>1 DEF AlertInv, Apart, InHand
    <2> QED BY <1>1, <2>2, <2>3
  <1>6. Apart'
    BY <1>1, <1>4 DEF AlertInv, Apart
  <1>7. Accounted'
    <2>1. \A b \in Alerts, v \in Workers : proc[v].cur = b => proc'[v].cur = b
      BY <1>1, <1>3, WorkAssumption
    <2>2. delivered \in SUBSET Alerts /\ proc'[w].cur = a
      BY <1>2, <1>3 DEF TypeInv, TypeOK
    <2> QED BY <1>1, <2>1, <2>2 DEF AlertInv, Accounted
  <1>8. task.at # "none"
    BY <1>1 DEF AlertInv, Begun
  <1>9. AlertedOnce'
    BY <1>1 DEF AlertInv, Listed, AlertedOnce
  <1> QED BY <1>1, <1>5, <1>6, <1>7, <1>8, <1>9 DEF AlertInv, Begun

\* An alert that leaves a worker's hand is marked, excused, or its task gone.
LEMMA HandedOver ==
  ASSUME TypeInv, AlertInv, NEW w \in Workers, NEW p \in Proc, Goes(w, p),
         p.todo \subseteq proc[w].todo, p.cur = None, UNCHANGED <<task, delivered, repeated>>,
         marked \subseteq marked', excused \subseteq excused',
         proc[w].cur # None => \/ proc[w].cur \in marked' \/ proc[w].cur \in excused'
                               \/ ~Live
  PROVE  AlertInv'
  <1>1. proc'[w] = p /\ \A v \in Workers : v # w => proc'[v] = proc[v]
    BY GoesSets DEF TypeInv
  <1>2. \A v \in Workers, a \in Alerts : InHand(v, a)' => InHand(v, a)
    BY <1>1, WorkAssumption DEF InHand
  <1>3. Listed'
    BY <1>1 DEF AlertInv, Listed
  <1>4. Apart' /\ AlertedOnce'
    BY <1>2 DEF AlertInv, Apart, AlertedOnce
  <1>5. Begun'
    BY <1>1 DEF AlertInv, Begun
  <1>6. Accounted'
    <2> SUFFICES ASSUME task.at # "gone", NEW a \in delivered
                 PROVE  a \in marked' \/ a \in excused' \/ \E v \in Workers : proc'[v].cur = a
      BY DEF Accounted
    <2>1. a # None
      BY WorkAssumption DEF TypeInv, TypeOK
    <2>2. CASE proc[w].cur = a
      <3>1. task.at = "live"
        BY <2>1, <2>2 DEF AlertInv, Begun, TypeInv, TypeOK, Task
      <3> QED BY <2>1, <2>2, <3>1 DEF Live
    <2>3. CASE \E v \in Workers : v # w /\ proc[v].cur = a
      BY <1>1, <2>3
    <2> QED BY <2>2, <2>3 DEF AlertInv, Accounted
  <1> QED BY <1>3, <1>4, <1>5, <1>6 DEF AlertInv

LEMMA MarkKeeps ==
  ASSUME TypeInv, AlertInv, NEW w \in Workers, MarkAlertSent(w)
  PROVE  AlertInv'
  <1> DEFINE a == proc[w].cur
             p == IF proc[w].fired THEN [proc[w] EXCEPT !.at = "sweep", !.cur = None]
                  ELSE [proc[w] EXCEPT !.at = "reread", !.cur = None, !.fired = TRUE,
                                       !.on = {a[2]}]
  <1>0. proc[w] \in Proc /\ a \in Alerts
    BY DEF TypeInv, TypeOK, InOrder, MarkAlertSent
  <1>1. {a[2]} \in SUBSET Triggers
    BY <1>0 DEF Alerts, Triggers
  <1>2. Goes(w, p)
    BY DEF MarkAlertSent
  <1>3. p \in Proc /\ p.todo = proc[w].todo /\ p.cur = None
    BY <1>0, <1>1 DEF Proc
  <1>4. /\ UNCHANGED <<task, delivered, repeated>>
        /\ marked \subseteq marked' /\ excused \subseteq excused'
        /\ a \in marked' \/ a \in excused' \/ ~Live
    BY DEF MarkAlertSent
  <1> HIDE DEF p
  <1> QED BY <1>2, <1>3, <1>4, HandedOver

LEMMA CrashKeeps ==
  ASSUME TypeInv, AlertInv, NEW w \in Workers, Crash(w)
  PROVE  AlertInv'
  <1>1. Goes(w, Idle) /\ UNCHANGED <<task, marked, delivered, repeated>>
    BY DEF Crash
  <1>2. excused \subseteq excused' /\ (proc[w].at = "mark" => proc[w].cur \in excused')
    BY DEF Crash
  <1>3. proc[w].cur # None => proc[w].at = "mark"
    BY DEF TypeInv, InOrder
  <1>4. Idle \in Proc /\ Idle.todo = {} /\ Idle.cur = None
    BY IdleInOrder DEF Idle
  <1> QED BY <1>1, <1>2, <1>3, <1>4, HandedOver

LEMMA ContinueHands ==
  ASSUME TypeInv, NEW w \in Workers, proc[w].at \in {"reread", "rules"}, NEW plan, NEW seen
  PROVE  /\ Continue(w, plan, seen).todo \subseteq proc[w].todo
         /\ Continue(w, plan, seen).cur = proc[w].cur
  <1>1. proc[w] \in Proc /\ proc[w].cur = None
    BY DEF TypeInv, TypeOK, InOrder
  <1> QED BY <1>1 DEF Continue, Idle, Proc

LEMMA AlertInit == Init => AlertInv
  BY WorkAssumption
  DEF Init, Idle, AlertInv, Listed, Apart, Accounted, Begun, AlertedOnce, InHand

LEMMA AlertStep == TypeInv /\ Locked /\ AlertInv /\ [Next]_vars => AlertInv'
  <1> SUFFICES ASSUME TypeInv, Locked, AlertInv, [Next]_vars PROVE AlertInv'
    OBVIOUS
  <1>t. task.at \in {"none", "live", "gone"}
    BY DEF TypeInv, TypeOK, Task
  <1>i. Idle \in Proc /\ Idle.todo = {} /\ Idle.cur = None
    BY IdleInOrder DEF Idle
  <1>1. CASE UNCHANGED vars
    BY <1>1 DEF vars, alerts, AlertInv, Listed, Apart, Accounted, Begun, AlertedOnce, InHand
  <1>2. CASE Time
    <2>1. task'.at = task.at /\ UNCHANGED <<proc, alerts>>
      BY <1>2 DEF Time, TypeInv, TypeOK, Task
    <2> QED BY <2>1 DEF alerts, AlertInv, Listed, Apart, Accounted, Begun, AlertedOnce, InHand
  <1>w. ASSUME NEW w \in Workers, StepOf(w) PROVE AlertInv'
    <2>0. proc[w] \in Proc /\ InOrder(proc[w])
      BY DEF TypeInv, TypeOK
    <2>1. CASE \E p \in Patches : CreateTask(w, p) \/ UpdateTask(w, p)
      <3>1. PICK p \in Patches : CreateTask(w, p) \/ UpdateTask(w, p)
        BY <2>1
      <3>2. CASE CreateTask(w, p)
        <4> DEFINE q == [Idle EXCEPT !.at = "reread", !.on = {"created"}]
        <4>1. q \in Proc /\ q.todo = {} /\ q.cur = None
          BY <1>i DEF Idle, Proc, Triggers
        <4>2. Goes(w, q) /\ proc[w].at # "mark" /\ task.at = "none" /\ task'.at = "live" /\ UNCHANGED alerts
          BY <3>2 DEF CreateTask
        <4> HIDE DEF q
        <4> QED BY <4>1, <4>2, IdleKept
      <3>3. CASE UpdateTask(w, p)
        <4> DEFINE q == [Idle EXCEPT !.at = "patch", !.patch = p, !.was = task.status]
        <4>1. q \in Proc /\ q.todo = {} /\ q.cur = None
          BY <1>i DEF Idle, Proc, TypeInv, TypeOK, Task
        <4>2. Goes(w, q) /\ proc[w].at # "mark" /\ UNCHANGED <<task, alerts>>
          BY <3>3 DEF UpdateTask, Request
        <4> HIDE DEF q
        <4> QED BY <4>1, <4>2, IdleKept
      <3> QED BY <3>1, <3>2, <3>3
    <2>2. CASE DeleteTask(w)
      <3>1. task.at = "live" /\ task'.at = "gone" /\ UNCHANGED <<proc, delivered, repeated, excused>>
        BY <2>2 DEF DeleteTask, Live, TypeInv, TypeOK, Task
      <3> QED BY <3>1 DEF AlertInv, Listed, Apart, Accounted, Begun, AlertedOnce, InHand
    <2>3. CASE SubmitIntakeForm(w)
      <3> DEFINE q == [Idle EXCEPT !.at = "record"]
      <3>1. q \in Proc /\ q.todo = {} /\ q.cur = None
        BY <1>i DEF Idle, Proc
      <3>2. Goes(w, q) /\ proc[w].at # "mark" /\ task.at = "none" /\ task'.at = "live" /\ UNCHANGED alerts
        BY <2>3 DEF SubmitIntakeForm
      <3> HIDE DEF q
      <3> QED BY <3>1, <3>2, IdleKept
    <2>4. CASE AcceptIntakeSuggestion(w)
      <3> DEFINE q == [Idle EXCEPT !.at = "apply", !.read = sub.suggestion]
      <3>1. q \in Proc /\ q.todo = {} /\ q.cur = None
        BY <1>i DEF Idle, Proc, TypeInv, TypeOK, Submission
      <3>2. Goes(w, q) /\ proc[w].at # "mark" /\ UNCHANGED <<task, alerts>>
        BY <2>4 DEF AcceptIntakeSuggestion, Request
      <3> HIDE DEF q
      <3> QED BY <3>1, <3>2, IdleKept
    <2>5. CASE AlertSweep(w)
      <3>1. /\ proc[w].at = "idle" /\ StartSweep(w, holder' # holder)
            /\ holder' # holder => holder["alerts"] = None
            /\ (holder' # holder) \in BOOLEAN
        BY <2>5 DEF AlertSweep, TryLock
      <3> QED BY <3>1, StartKeeps
    <2>6. CASE BootSweep(w)
      BY <2>6, StartKeeps DEF BootSweep, Request
    <2>7. CASE TriageSweep(w)
      <3> DEFINE q == [Idle EXCEPT !.at = "ask", !.sweep = "triage", !.guarded = holder' # holder]
      <3>1. q \in Proc /\ q.todo = {} /\ q.cur = None
        BY <1>i DEF Idle, Proc
      <3>2. Goes(w, q) /\ proc[w].at # "mark" /\ UNCHANGED <<task, alerts>>
        BY <2>7 DEF TriageSweep
      <3> HIDE DEF q
      <3> QED BY <3>1, <3>2, IdleKept
    <2>8. CASE Update(w)
      <3>1. PICK on \in SUBSET Triggers :
              Goes(w, [proc[w] EXCEPT !.at = "reread", !.patch = None, !.on = on])
        BY <2>8 DEF Update, Triggers
      <3> DEFINE q == [proc[w] EXCEPT !.at = "reread", !.patch = None, !.on = on]
      <3>2. q \in Proc /\ q.todo = proc[w].todo /\ q.cur = proc[w].cur
        BY <2>0 DEF Proc
      <3>3. task'.at = task.at /\ UNCHANGED alerts
        BY <2>8 DEF Update, TypeInv, TypeOK, Task
      <3>4. Goes(w, q)
        BY <3>1
      <3> HIDE DEF q
      <3> QED BY <3>2, <3>3, <3>4, HandKept
    <2>9. CASE UpdateMissing(w) \/ RecordSubmission(w) \/ StoreSuggestion(w) \/ MarkAccepted(w)
      BY <2>9, <1>i, IdleKept
      DEF UpdateMissing, RecordSubmission, StoreSuggestion, MarkAccepted
    <2>10. CASE Reread(w)
      <3>1. PICK plan \in SUBSET Steps, seen \in SUBSET Users :
              Goes(w, Continue(w, plan, seen))
        BY <2>10 DEF Reread, Plan, TypeInv, TypeOK, Task
      <3>2. proc[w].at = "reread" /\ UNCHANGED <<task, alerts>>
        BY <2>10 DEF Reread
      <3> DEFINE q == Continue(w, plan, seen)
      <3>3. q \in Proc /\ q.todo \subseteq proc[w].todo /\ q.cur = proc[w].cur
        BY <3>2, ContinueInOrder, ContinueHands
      <3> HIDE DEF q
      <3>4. Goes(w, q)
        BY <3>1 DEF q
      <3> QED BY <3>2, <3>3, <3>4, HandKept
    <2>11. CASE RuleActs(w) \/ RuleFails(w)
      <3>1. PICK plan \in SUBSET Steps, seen \in SUBSET Users :
              Goes(w, Continue(w, plan, seen))
        BY <2>0, <2>11 DEF RuleActs, RuleFails, Proc
      <3>2. proc[w].at = "rules" /\ task'.at = task.at /\ UNCHANGED alerts
        BY <2>11 DEF RuleActs, RuleFails, Performed, TypeInv, TypeOK, Task
      <3> DEFINE q == Continue(w, plan, seen)
      <3>3. q \in Proc /\ q.todo \subseteq proc[w].todo /\ q.cur = proc[w].cur
        BY <3>2, ContinueInOrder, ContinueHands
      <3> HIDE DEF q
      <3>4. Goes(w, q)
        BY <3>1 DEF q
      <3> QED BY <3>2, <3>3, <3>4, HandKept
    <2>12. CASE \E a \in Alerts : NotifyUser(w, a)
      BY <2>12, NotifyKeeps
    <2>13. CASE \E a \in Alerts : NotifyFails(w, a)
      <3>1. PICK a \in Alerts : NotifyFails(w, a)
        BY <2>13
      <3> DEFINE q == [proc[w] EXCEPT !.todo = @ \ {a}]
      <3>2. q \in Proc /\ q.todo \subseteq proc[w].todo /\ q.cur = proc[w].cur
        BY <2>0 DEF Proc
      <3>3. Goes(w, q) /\ UNCHANGED <<task, alerts>>
        BY <3>1 DEF NotifyFails
      <3> HIDE DEF q
      <3> QED BY <3>2, <3>3, HandKept
    <2>14. CASE MarkAlertSent(w)
      BY <2>14, MarkKeeps
    <2>15. CASE EndSweep(w)
      BY <2>15, <1>i, IdleKept DEF EndSweep
    <2>16. CASE ApplySuggestion(w)
      <3> DEFINE q == [proc[w] EXCEPT !.at = "agree"]
      <3>1. q \in Proc /\ q.todo = proc[w].todo /\ q.cur = proc[w].cur
        BY <2>0 DEF Proc
      <3>2. /\ Goes(w, q) \/ Goes(w, Idle)
            /\ proc[w].at = "apply" /\ task'.at = task.at /\ UNCHANGED alerts
        BY <2>16 DEF ApplySuggestion, TypeInv, TypeOK, Task
      <3> HIDE DEF q
      <3> QED BY <1>i, <3>1, <3>2, HandKept, IdleKept
    <2>17. CASE Crash(w)
      BY <2>17, CrashKeeps
    <2>18. CASE LoseLock(w)
      <3> DEFINE q == [proc[w] EXCEPT !.guarded = FALSE]
      <3>1. q \in Proc /\ q.todo = proc[w].todo /\ q.cur = proc[w].cur
        BY <2>0 DEF Proc
      <3>2. Goes(w, q) /\ UNCHANGED <<task, alerts>>
        BY <2>18 DEF LoseLock
      <3> HIDE DEF q
      <3> QED BY <3>1, <3>2, HandKept
    <2> QED BY <1>w, <2>1, <2>2, <2>3, <2>4, <2>5, <2>6, <2>7, <2>8, <2>9, <2>10, <2>11,
               <2>12, <2>13, <2>14, <2>15, <2>16, <2>17, <2>18 DEF StepOf, Step
  <1> QED BY <1>1, <1>2, <1>w DEF Next, StepOf

LEMMA LockInit == Init => Locked
  BY DEF Init, Idle, Locked

\* Nobody is alerted twice to one state of a deadline but for a lost mark or
\* two sweeps with the alert in hand at once, not both under the lock.
THEOREM AlertsOnce == Spec => []AlertedOnce
  <1>1. Init => TypeInv /\ Locked /\ AlertInv
    BY InitType, LockInit, AlertInit
  <1>2. TypeInv /\ Locked /\ AlertInv /\ [Next]_vars => (TypeInv /\ Locked /\ AlertInv)'
    BY TypeStep, LockStep, AlertStep
  <1>3. AlertInv => AlertedOnce
    BY DEF AlertInv
  <1> QED BY <1>1, <1>2, <1>3, PTL DEF Spec

-----------------------------------------------------------------------------
(* Intake.                                                                 *)

Accepting(p) == p.at \in {"apply", "agree"}

\* What people who accept and sweeps that ask still have in common with the row.
Unaccepted ==
  \A w \in Workers :
    Accepting(proc[w]) =>
      /\ sub.excused \/ (~sub.accepted /\ sub.agreed = 0)
      /\ sub.doubled \/ proc[w].read = sub.suggestion

Unasked ==
  \A w \in Workers : proc[w].at = "ask" => sub.doubled \/ sub.suggestion = None

OneEach ==
  \A v, w \in Workers :
    v # w => /\ Accepting(proc[v]) /\ Accepting(proc[w]) => sub.excused
             /\ proc[v].at = "ask" /\ proc[w].at = "ask" => sub.doubled

Agreed ==
  /\ sub.agreed = 0 \/ sub.excused \/ sub.accepted
  /\ sub.accepted => sub.shown \in Answers

IntakeInv ==
  Unaccepted /\ Unasked /\ OneEach /\ Agreed /\ AcceptedOnce /\ AcceptedAsShown

LEMMA IntakeInit == Init => IntakeInv
  BY DEF Init, Idle, IntakeInv, Accepting, Unaccepted, Unasked, OneEach, Agreed,
         AcceptedOnce, AcceptedAsShown

\* Steps that leave the submission alone and begin nothing with it.
LEMMA SubKept ==
  ASSUME TypeInv, IntakeInv, NEW w \in Workers, NEW p \in Proc, Goes(w, p), UNCHANGED sub,
         Accepting(p) => Accepting(proc[w]) /\ p.read = proc[w].read,
         p.at = "ask" => proc[w].at = "ask"
  PROVE  IntakeInv'
  <1>1. proc'[w] = p /\ \A v \in Workers : v # w => proc'[v] = proc[v]
    BY GoesSets DEF TypeInv
  <1>2. \A v \in Workers : /\ Accepting(proc'[v]) => /\ Accepting(proc[v])
                                                     /\ proc'[v].read = proc[v].read
                           /\ proc'[v].at = "ask" => proc[v].at = "ask"
    BY <1>1
  <1>3. Unaccepted' /\ Unasked'
    BY <1>2 DEF IntakeInv, Unaccepted, Unasked
  <1>4. OneEach'
    BY <1>2 DEF IntakeInv, OneEach
  <1>5. Agreed' /\ AcceptedOnce' /\ AcceptedAsShown'
    BY DEF IntakeInv, Agreed, AcceptedOnce, AcceptedAsShown
  <1> QED BY <1>3, <1>4, <1>5 DEF IntakeInv

LEMMA RecordKeeps ==
  ASSUME TypeInv, IntakeInv, NEW w \in Workers, RecordSubmission(w)
  PROVE  IntakeInv'
  <1>1. sub \in Submission /\ Idle \in Proc /\ ~Accepting(Idle) /\ Idle.at # "ask"
    BY IdleInOrder DEF TypeInv, TypeOK, Idle, Accepting
  <1>2. \A v \in Workers : proc'[v] = Idle \/ proc'[v] = proc[v]
    BY <1>1, GoesSets DEF RecordSubmission, TypeInv
  <1>3. \/ sub' = sub
        \/ sub' = [sub EXCEPT !.at = "stored"]
    BY DEF RecordSubmission
  <1>4. /\ sub'.suggestion = sub.suggestion /\ sub'.accepted = sub.accepted
        /\ sub'.shown = sub.shown /\ sub'.agreed = sub.agreed
        /\ sub'.excused = sub.excused /\ sub'.doubled = sub.doubled
    BY <1>1, <1>3 DEF Submission
  <1> QED BY <1>1, <1>2, <1>4 DEF IntakeInv, Unaccepted, Unasked, OneEach, Agreed,
                                  AcceptedOnce, AcceptedAsShown

\* A sweep begins to ask: alone, or `doubled`.
LEMMA TriageKeeps ==
  ASSUME TypeInv, Locked, IntakeInv, NEW w \in Workers, TriageSweep(w)
  PROVE  IntakeInv'
  <1> DEFINE p == [Idle EXCEPT !.at = "ask", !.sweep = "triage", !.guarded = holder' # holder]
  <1>1. p \in Proc /\ p.at = "ask" /\ ~Accepting(p)
    BY IdleInOrder DEF Idle, Proc, Accepting
  <1>2. Goes(w, p) /\ sub.suggestion = None
    BY DEF TriageSweep, AwaitingTriage
  <1> HIDE DEF p
  <1>3. proc'[w] = p /\ \A v \in Workers : v # w => proc'[v] = proc[v]
    BY <1>1, <1>2, GoesSets DEF TypeInv
  <1>4. sub \in Submission
    BY DEF TypeInv, TypeOK
  <1>5. /\ sub'.suggestion = sub.suggestion /\ sub'.accepted = sub.accepted
        /\ sub'.shown = sub.shown /\ sub'.agreed = sub.agreed
        /\ sub'.excused = sub.excused /\ (sub.doubled => sub'.doubled)
    BY <1>4 DEF TriageSweep, Submission
  <1>6. ASSUME NEW v \in Workers, v # w, proc[v].at = "ask" PROVE sub'.doubled
    <2>1. proc[v].sweep = "triage"
      BY <1>6 DEF TypeInv, InOrder
    <2>2. proc[v].guarded => holder["triage"] # None
      BY <2>1, WorkAssumption DEF Locked
    <2>3. ~(holder' # holder /\ proc[v].guarded)
      BY <2>2 DEF TriageSweep, TryLock
    <2> QED BY <1>4, <1>6, <2>3 DEF TriageSweep, Submission
  <1>7. Unaccepted'
    BY <1>1, <1>3, <1>5 DEF IntakeInv, Unaccepted
  <1>8. Unasked'
    BY <1>2, <1>5 DEF Unasked
  <1>9. OneEach'
    BY <1>1, <1>3, <1>5, <1>6 DEF IntakeInv, OneEach
  <1> QED BY <1>5, <1>7, <1>8, <1>9 DEF IntakeInv, Agreed, AcceptedOnce, AcceptedAsShown

\* An answer is stored where there was none, or `doubled`.
LEMMA StoreKeeps ==
  ASSUME TypeInv, IntakeInv, NEW w \in Workers, StoreSuggestion(w)
  PROVE  IntakeInv'
  <1>1. sub \in Submission /\ Idle \in Proc /\ ~Accepting(Idle) /\ Idle.at # "ask"
    BY IdleInOrder DEF TypeInv, TypeOK, Idle, Accepting
  <1>2. proc'[w] = Idle /\ \A v \in Workers : v # w => proc'[v] = proc[v]
    BY <1>1, GoesSets DEF StoreSuggestion, TypeInv
  <1>3. CASE sub' = sub
    BY <1>1, <1>3, SubKept DEF StoreSuggestion
  <1>4. CASE \E s \in Answers : sub' = [sub EXCEPT !.suggestion = s]
    <2>1. /\ sub'.accepted = sub.accepted
          /\ sub'.shown = sub.shown /\ sub'.agreed = sub.agreed
          /\ sub'.excused = sub.excused /\ sub'.doubled = sub.doubled
      BY <1>1, <1>4 DEF Submission
    <2>2. sub.doubled \/ sub.suggestion = None
      BY DEF IntakeInv, Unasked, StoreSuggestion
    <2>3. ASSUME NEW v \in Workers, Accepting(proc[v]) PROVE sub.doubled
      <3>1. proc[v].read \in Answers
        BY <2>3 DEF TypeInv, InOrder, Accepting
      <3> QED BY <2>2, <2>3, <3>1, WorkAssumption DEF IntakeInv, Unaccepted
    <2>4. sub.accepted => sub.doubled
      BY <2>2, WorkAssumption DEF IntakeInv, Agreed, AcceptedAsShown
    <2>5. ASSUME NEW v \in Workers, v # w, proc[v].at = "ask" PROVE sub.doubled
      BY <2>5 DEF IntakeInv, OneEach, StoreSuggestion
    <2>6. Unaccepted' /\ Unasked' /\ OneEach'
      BY <1>1, <1>2, <2>1, <2>3, <2>5 DEF IntakeInv, Unaccepted, Unasked, OneEach
    <2> QED BY <2>1, <2>4, <2>6 DEF IntakeInv, Agreed, AcceptedOnce, AcceptedAsShown
  <1> QED BY <1>3, <1>4 DEF StoreSuggestion

\* A person begins to accept: alone, or `excused`.
LEMMA AcceptKeeps ==
  ASSUME TypeInv, IntakeInv, NEW w \in Workers, AcceptIntakeSuggestion(w)
  PROVE  IntakeInv'
  <1> DEFINE p == [Idle EXCEPT !.at = "apply", !.read = sub.suggestion]
  <1>1. sub \in Submission
    BY DEF TypeInv, TypeOK
  <1>2. p \in Proc /\ p.at = "apply" /\ p.read = sub.suggestion
    BY <1>1, IdleInOrder DEF Idle, Proc, Submission
  <1>3. Goes(w, p) /\ ~sub.accepted
    BY DEF AcceptIntakeSuggestion
  <1> HIDE DEF p
  <1>4. proc'[w] = p /\ \A v \in Workers : v # w => proc'[v] = proc[v]
    BY <1>2, <1>3, GoesSets DEF TypeInv
  <1>5. /\ sub'.suggestion = sub.suggestion /\ sub'.accepted = sub.accepted
        /\ sub'.shown = sub.shown /\ sub'.agreed = sub.agreed
        /\ sub'.doubled = sub.doubled /\ (sub.excused => sub'.excused)
    BY <1>1 DEF AcceptIntakeSuggestion, Submission
  <1>6. ASSUME NEW v \in Workers, Accepting(proc[v]) PROVE sub'.excused
    BY <1>1, <1>6 DEF AcceptIntakeSuggestion, Accepting, Submission
  <1>7. Unaccepted'
    BY <1>2, <1>3, <1>4, <1>5 DEF IntakeInv, Unaccepted, Agreed
  <1>8. Unasked'
    BY <1>2, <1>4, <1>5 DEF IntakeInv, Unasked
  <1>9. OneEach'
    BY <1>2, <1>4, <1>5, <1>6 DEF IntakeInv, OneEach
  <1> QED BY <1>5, <1>7, <1>8, <1>9 DEF IntakeInv, Agreed, AcceptedOnce, AcceptedAsShown

LEMMA AgreeKeeps ==
  ASSUME TypeInv, IntakeInv, NEW w \in Workers, MarkAccepted(w)
  PROVE  IntakeInv'
  <1>1. sub \in Submission /\ Idle \in Proc /\ ~Accepting(Idle) /\ Idle.at # "ask"
    BY IdleInOrder DEF TypeInv, TypeOK, Idle, Accepting
  <1>2. proc'[w] = Idle /\ \A v \in Workers : v # w => proc'[v] = proc[v]
    BY <1>1, GoesSets DEF MarkAccepted, TypeInv
  <1>3. /\ Accepting(proc[w]) /\ proc[w].read \in Answers /\ sub.agreed \in Nat
    BY <1>1 DEF MarkAccepted, Accepting, TypeInv, InOrder, Submission
  <1>4. sub.excused \/ (sub.agreed = 0 /\ ~sub.accepted)
    BY <1>3 DEF IntakeInv, Unaccepted
  <1>5. \A v \in Workers : v # w /\ Accepting(proc[v]) => sub.excused
    BY <1>3 DEF IntakeInv, OneEach
  <1>6. sub.doubled \/ proc[w].read = sub.suggestion
    BY <1>3 DEF IntakeInv, Unaccepted
  <1>7. /\ sub'.suggestion = sub.suggestion /\ sub'.doubled = sub.doubled
        /\ sub'.agreed = sub.agreed + 1 /\ (sub.excused => sub'.excused)
        /\ \/ sub'.accepted /\ sub'.shown = proc[w].read
           \/ sub'.excused /\ sub'.accepted = sub.accepted /\ sub'.shown = sub.shown
    BY <1>1 DEF MarkAccepted, Submission
  <1>8. Unaccepted'
    BY <1>1, <1>2, <1>5, <1>7 DEF IntakeInv, Unaccepted
  <1>9. Unasked' /\ OneEach'
    BY <1>1, <1>2, <1>7 DEF IntakeInv, Unasked, OneEach
  <1>10. Agreed'
    BY <1>3, <1>7 DEF IntakeInv, Agreed
  <1>11. AcceptedOnce'
    BY <1>3, <1>4, <1>7 DEF AcceptedOnce
  <1>12. AcceptedAsShown'
    BY <1>6, <1>7 DEF IntakeInv, AcceptedAsShown
  <1> QED BY <1>8, <1>9, <1>10, <1>11, <1>12 DEF IntakeInv

LEMMA IntakeStep == TypeInv /\ Locked /\ IntakeInv /\ [Next]_vars => IntakeInv'
  <1> SUFFICES ASSUME TypeInv, Locked, IntakeInv, [Next]_vars PROVE IntakeInv'
    OBVIOUS
  <1>i. Idle \in Proc /\ ~Accepting(Idle) /\ Idle.at # "ask"
    BY IdleInOrder DEF Idle, Accepting
  <1>1. CASE UNCHANGED <<proc, sub>>
    BY <1>1 DEF IntakeInv, Accepting, Unaccepted, Unasked, OneEach, Agreed,
                AcceptedOnce, AcceptedAsShown
  <1>q. ASSUME NEW w \in Workers, NEW p \in Proc, Goes(w, p), UNCHANGED sub,
               p.at \notin {"apply", "agree", "ask"}
        PROVE  IntakeInv'
    BY <1>q, SubKept DEF Accepting
  <1>w. ASSUME NEW w \in Workers, StepOf(w) PROVE IntakeInv'
    <2>0. proc[w] \in Proc /\ InOrder(proc[w])
      BY DEF TypeInv, TypeOK
    <2>1. CASE \E p \in Patches : CreateTask(w, p) \/ UpdateTask(w, p)
      <3>1. PICK p \in Patches : CreateTask(w, p) \/ UpdateTask(w, p)
        BY <2>1
      <3>2. CASE CreateTask(w, p)
        <4> DEFINE q == [Idle EXCEPT !.at = "reread", !.on = {"created"}]
        <4>1. q \in Proc /\ q.at = "reread"
          BY <1>i DEF Idle, Proc, Triggers
        <4>2. Goes(w, q) /\ UNCHANGED sub
          BY <3>2 DEF CreateTask
        <4> HIDE DEF q
        <4> QED BY <4>1, <4>2, <1>q
      <3>3. CASE UpdateTask(w, p)
        <4> DEFINE q == [Idle EXCEPT !.at = "patch", !.patch = p, !.was = task.status]
        <4>1. q \in Proc /\ q.at = "patch"
          BY <1>i DEF Idle, Proc, TypeInv, TypeOK, Task
        <4>2. Goes(w, q) /\ UNCHANGED sub
          BY <3>3 DEF UpdateTask
        <4> HIDE DEF q
        <4> QED BY <4>1, <4>2, <1>q
      <3> QED BY <3>1, <3>2, <3>3
    <2>2. CASE DeleteTask(w)
      BY <2>2, <1>1 DEF DeleteTask
    <2>3. CASE SubmitIntakeForm(w)
      <3> DEFINE q == [Idle EXCEPT !.at = "record"]
      <3>1. q \in Proc /\ q.at = "record"
        BY <1>i DEF Idle, Proc
      <3>2. Goes(w, q) /\ UNCHANGED sub
        BY <2>3 DEF SubmitIntakeForm
      <3> HIDE DEF q
      <3> QED BY <3>1, <3>2, <1>q
    <2>4. CASE \/ RecordSubmission(w) \/ TriageSweep(w) \/ StoreSuggestion(w)
               \/ AcceptIntakeSuggestion(w) \/ MarkAccepted(w)
      BY <2>4, RecordKeeps, TriageKeeps, StoreKeeps, AcceptKeeps, AgreeKeeps
    <2>5. CASE AlertSweep(w) \/ BootSweep(w)
      <3>1. PICK guarded \in BOOLEAN : StartSweep(w, guarded)
        BY <2>5 DEF AlertSweep, BootSweep
      <3> DEFINE q == [Idle EXCEPT !.at = "sweep", !.sweep = "alerts", !.guarded = guarded,
                                   !.todo = PendingDeadlineAlerts]
      <3>2. q \in Proc /\ q.at = "sweep"
        BY SweepInOrder DEF Idle
      <3>3. Goes(w, q) /\ UNCHANGED sub
        BY <3>1 DEF StartSweep
      <3> HIDE DEF q
      <3> QED BY <3>2, <3>3, <1>q
    <2>6. CASE Update(w)
      <3>1. PICK on \in SUBSET Triggers :
              Goes(w, [proc[w] EXCEPT !.at = "reread", !.patch = None, !.on = on])
        BY <2>6 DEF Update, Triggers
      <3> DEFINE q == [proc[w] EXCEPT !.at = "reread", !.patch = None, !.on = on]
      <3>2. q \in Proc /\ q.at = "reread"
        BY <2>0 DEF Proc
      <3>3. Goes(w, q) /\ UNCHANGED sub
        BY <2>6, <3>1 DEF Update
      <3> HIDE DEF q
      <3> QED BY <3>2, <3>3, <1>q
    <2>7. CASE UpdateMissing(w) \/ EndSweep(w) \/ Crash(w)
      BY <2>7, <1>i, <1>q DEF UpdateMissing, EndSweep, Crash, Accepting
    <2>8. CASE Reread(w) \/ RuleActs(w) \/ RuleFails(w)
      <3>1. PICK plan \in SUBSET Steps, seen \in SUBSET Users :
              Goes(w, Continue(w, plan, seen)) /\ UNCHANGED sub
        BY <2>0, <2>8 DEF Reread, RuleActs, RuleFails, Plan, Proc, TypeInv, TypeOK, Task
      <3>2. proc[w].at \in {"reread", "rules"}
        BY <2>8 DEF Reread, RuleActs, RuleFails
      <3> DEFINE q == Continue(w, plan, seen)
      <3>3. q \in Proc
        BY <3>2, ContinueInOrder
      <3>4. q.at \in {"idle", "sweep", "rules"}
        BY <2>0 DEF Continue, Idle, Proc
      <3> HIDE DEF q
      <3>5. Goes(w, q)
        BY <3>1 DEF q
      <3> QED BY <3>1, <3>3, <3>4, <3>5, <1>q
    <2>9. CASE \E a \in Alerts : NotifyUser(w, a)
      <3>1. PICK a \in Alerts : NotifyUser(w, a)
        BY <2>9
      <3> DEFINE q == [proc[w] EXCEPT !.at = "mark", !.cur = a, !.todo = @ \ {a}]
      <3>2. q \in Proc /\ q.at = "mark"
        BY <2>0 DEF Proc
      <3>3. Goes(w, q) /\ UNCHANGED sub
        BY <3>1 DEF NotifyUser
      <3> HIDE DEF q
      <3> QED BY <3>2, <3>3, <1>q
    <2>10. CASE \E a \in Alerts : NotifyFails(w, a)
      <3>1. PICK a \in Alerts : NotifyFails(w, a)
        BY <2>10
      <3> DEFINE q == [proc[w] EXCEPT !.todo = @ \ {a}]
      <3>2. q \in Proc /\ q.at = "sweep"
        BY <2>0, <3>1 DEF Proc, NotifyFails
      <3>3. Goes(w, q) /\ UNCHANGED sub
        BY <3>1 DEF NotifyFails
      <3> HIDE DEF q
      <3> QED BY <3>2, <3>3, <1>q
    <2>11. CASE MarkAlertSent(w)
      <3> DEFINE a == proc[w].cur
                 q == IF proc[w].fired THEN [proc[w] EXCEPT !.at = "sweep", !.cur = None]
                      ELSE [proc[w] EXCEPT !.at = "reread", !.cur = None, !.fired = TRUE,
                                           !.on = {a[2]}]
      <3>1. {a[2]} \in SUBSET Triggers
        BY <2>0, <2>11 DEF MarkAlertSent, InOrder, Alerts, Triggers
      <3>2. q \in Proc /\ q.at \in {"sweep", "reread"}
        BY <2>0, <3>1 DEF Proc
      <3>3. Goes(w, q) /\ UNCHANGED sub
        BY <2>11 DEF MarkAlertSent
      <3> HIDE DEF q
      <3> QED BY <3>2, <3>3, <1>q
    <2>12. CASE ApplySuggestion(w)
      <3> DEFINE q == [proc[w] EXCEPT !.at = "agree"]
      <3>1. q \in Proc /\ q.at = "agree" /\ q.read = proc[w].read
        BY <2>0 DEF Proc
      <3>2. /\ Goes(w, q) \/ Goes(w, Idle)
            /\ proc[w].at = "apply" /\ UNCHANGED sub
        BY <2>12 DEF ApplySuggestion
      <3> HIDE DEF q
      <3> QED BY <1>i, <3>1, <3>2, SubKept DEF Accepting
    <2>13. CASE LoseLock(w)
      <3> DEFINE q == [proc[w] EXCEPT !.guarded = FALSE]
      <3>1. q \in Proc /\ q.at = proc[w].at /\ q.read = proc[w].read
        BY <2>0 DEF Proc
      <3>2. Goes(w, q) /\ UNCHANGED sub
        BY <2>13 DEF LoseLock
      <3> HIDE DEF q
      <3> QED BY <3>1, <3>2, SubKept DEF Accepting
    <2> QED BY <1>w, <2>1, <2>2, <2>3, <2>4, <2>5, <2>6, <2>7, <2>8, <2>9, <2>10, <2>11,
               <2>12, <2>13 DEF StepOf, Step
  <1>3. CASE Time \/ UNCHANGED vars
    BY <1>3, <1>1 DEF Time, vars
  <1> QED BY <1>3, <1>w DEF Next, StepOf

LEMMA IntakeInvariant == Spec => [](TypeInv /\ Locked /\ IntakeInv)
  <1>1. Init => TypeInv /\ Locked /\ IntakeInv
    BY InitType, LockInit, IntakeInit
  <1>2. TypeInv /\ Locked /\ IntakeInv /\ [Next]_vars => (TypeInv /\ Locked /\ IntakeInv)'
    BY TypeStep, LockStep, IntakeStep
  <1> QED BY <1>1, <1>2, PTL DEF Spec

\* A suggestion is accepted once, unless two people had it in hand at once or
\* the mark of the first was lost.
THEOREM AcceptsOnce == Spec => []AcceptedOnce
  <1>1. IntakeInv => AcceptedOnce
    BY DEF IntakeInv
  <1> QED BY IntakeInvariant, <1>1, PTL

\* What is on file is what the person who accepted it was shown, unless two
\* sweeps asked at once, not both under the lock.
THEOREM AcceptsAsShown == Spec => []AcceptedAsShown
  <1>1. IntakeInv => AcceptedAsShown
    BY DEF IntakeInv
  <1> QED BY IntakeInvariant, <1>1, PTL

-----------------------------------------------------------------------------
(* The hub: an online list is wrong only while news of it is on its way.   *)

\* Announcement i has still to come to the tab c.
Reaches(i, c) == i.topic = Presence /\ (i.to = Unsent \/ Owner[c] \in i.to)

Coming(c) == \E g \in Tellers : \E i \in news[g] : Reaches(i, c)

\* A tab that is not connected may have missed anything; the list of one that
\* is may only be wrong while news of it is on its way, or due, or missed.
TabIsServed(c) ==
  /\ c \notin clients => <<c, Presence>> \in missed
  /\ \/ c \in due \/ <<c, Presence>> \in missed \/ list[c] = OnlineUsers
     \/ Coming(c)

AllServed == \A c \in Observers : TabIsServed(c)

HubInv == HubTypeOK /\ TypingIsOnline /\ AllServed

-----------------------------------------------------------------------------

LEMMA NewsIsItem ==
  ASSUME NEW topic \in Topics, NEW on \in BOOLEAN
  PROVE  News(topic, on) \in Item /\ News(topic, on).topic = topic /\ News(topic, on).to = Unsent
BY Zenon DEF News, Item, Crossed

LEMMA DisturbedIsItem ==
  ASSUME NEW i \in Item, NEW said
  PROVE  /\ Disturbed(i, said) \in Item
         /\ Disturbed(i, said).topic = i.topic /\ Disturbed(i, said).to = i.to
BY DEF Disturbed, Item

\* Whoever announces keeps what others announce, to whomever it is to come.
LEMMA AnnounceKeeps ==
  ASSUME HubTypeOK, NEW g \in Tellers, NEW said \in SUBSET Item, Announce(g, said)
  PROVE  /\ news' \in [Tellers -> SUBSET Item]
         /\ said \subseteq news'[g]
         /\ \A c \in Observers : Coming(c) => Coming(c)'
<1> DEFINE Kept(x) == {Disturbed(i, said) : i \in news[x]}
<1>1. news' = [x \in Tellers |-> IF x = g THEN Kept(x) \cup said ELSE Kept(x)]
  BY DEF Announce
<1>2. ASSUME NEW x \in Tellers PROVE Kept(x) \in SUBSET Item
  BY DisturbedIsItem DEF HubTypeOK
<1> HIDE DEF Kept
<1>3. news' \in [Tellers -> SUBSET Item] /\ said \subseteq news'[g]
  BY <1>1, <1>2
<1>4. ASSUME NEW c \in Observers, NEW x \in Tellers, NEW i \in news[x], Reaches(i, c)
      PROVE  Coming(c)'
  <2>1. i \in Item
    BY DEF HubTypeOK
  <2>2. Disturbed(i, said) \in news'[x]
    BY <1>1 DEF Kept
  <2>3. Reaches(Disturbed(i, said), c)
    BY <1>4, <2>1, DisturbedIsItem DEF Reaches
  <2> QED BY <2>2, <2>3 DEF Coming, Reaches
<1> QED BY <1>3, <1>4 DEF Coming

\* Whoever goes on with an announcement keeps the others, and this one for
\* those who are still to hear it.
LEMMA GoesOnKeeps ==
  ASSUME HubTypeOK, NEW g \in Tellers, NEW i \in news[g], NEW to \in SUBSET HubUsers,
         GoesOn(g, i, to)
  PROVE  /\ news' \in [Tellers -> SUBSET Item]
         /\ \A c \in Observers :
              Coming(c) /\ (Reaches(i, c) => Owner[c] \in to) => Coming(c)'
<1> DEFINE next == [i EXCEPT !.to = to]
           left == (news[g] \ {i}) \cup (IF to = {} THEN {} ELSE {next})
<1>1. i \in Item
  BY DEF HubTypeOK
<1>2. next \in Item /\ next.topic = i.topic /\ next.to = to
  BY <1>1 DEF Item
<1>3. news' = [news EXCEPT ![g] = left]
  BY DEF GoesOn
<1>4. left \in SUBSET Item
  BY <1>2 DEF HubTypeOK
<1>5. news' \in [Tellers -> SUBSET Item] /\ news'[g] = left
      /\ \A x \in Tellers \ {g} : news'[x] = news[x]
  <2> HIDE DEF left
  <2> QED BY <1>3, <1>4 DEF HubTypeOK
<1>6. ASSUME NEW c \in Observers, NEW x \in Tellers, NEW k \in news[x], Reaches(k, c),
             Reaches(i, c) => Owner[c] \in to
      PROVE  Coming(c)'
  <2>1. CASE x # g \/ k # i
    <3>1. k \in news'[x]
      BY <1>5, <2>1
    <3> QED BY <1>6, <3>1 DEF Coming, Reaches
  <2>2. CASE x = g /\ k = i
    <3>1. Owner[c] \in to /\ next \in news'[g]
      BY <1>5, <1>6, <2>2
    <3>2. Reaches(next, c)
      BY <1>2, <1>6, <2>2, <3>1 DEF Reaches
    <3> QED BY <3>1, <3>2 DEF Coming, Reaches
  <2> QED BY <2>1, <2>2
<1> QED BY <1>5, <1>6 DEF Coming

-----------------------------------------------------------------------------
(* The steps *)

LEMMA TopicsAreTopics ==
  /\ Presence \in Topics /\ \A t \in Channels \X Typists : t \in Topics /\ t # Presence
  /\ Presence \notin Channels \X Typists
BY HubAssumption DEF Topics

LEMMA InitKeeps == HubInit => HubInv
<1> SUFFICES ASSUME HubInit PROVE HubInv
  OBVIOUS
<1>1. HubTypeOK
  BY TopicsAreTopics DEF HubInit, HubTypeOK
<1>2. TypingIsOnline
  BY DEF HubInit, TypingIsOnline
<1>3. AllServed
  BY DEF HubInit, AllServed, TabIsServed
<1> QED BY <1>1, <1>2, <1>3 DEF HubInv

\* Of a tab that goes on missing what it has missed, keeps its list and stays
\* connected or not, only news or a change of who is online matters.
LEMMA ServedUnchanged ==
  ASSUME AllServed, list' = list, due \subseteq due', missed \subseteq missed',
         clients' = clients, \A c \in Observers : Coming(c) => Coming(c)'
  PROVE  AllServed'
<1> SUFFICES ASSUME NEW c \in Observers PROVE TabIsServed(c)'
  BY DEF AllServed
<1>1. TabIsServed(c)
  BY DEF AllServed
<1>2. OnlineUsers' = OnlineUsers
  BY DEF OnlineUsers
<1>3. c \notin clients' => <<c, Presence>> \in missed'
  BY <1>1 DEF TabIsServed
<1>4. c \in due' \/ <<c, Presence>> \in missed' \/ list'[c] = OnlineUsers' \/ Coming(c)'
  BY <1>1, <1>2 DEF TabIsServed
<1> QED BY <1>3, <1>4 DEF TabIsServed

LEMMA RegisterKeeps ==
  ASSUME HubInv, NEW c \in Tabs, Register(c)
  PROVE  HubInv'
<1> DEFINE first == TabsOf(Owner[c]) = {}
           said == IF first THEN {PresenceNews} ELSE {}
<1>1. HubTypeOK /\ TypingIsOnline /\ AllServed /\ <<c, "in">> \in Tellers
  BY DEF HubInv, Tellers
<1>2. /\ said \in SUBSET Item /\ PresenceNews.topic = Presence /\ PresenceNews.to = Unsent
      /\ first => PresenceNews \in said
  BY NewsIsItem, TopicsAreTopics DEF PresenceNews
<1>3. /\ Announce(<<c, "in">>, said) /\ clients' = clients \cup {c}
      /\ UNCHANGED <<typing, shown, list, due, missed>>
  BY DEF Register
<1> HIDE DEF said
<1>4. /\ news' \in [Tellers -> SUBSET Item] /\ said \subseteq news'[<<c, "in">>]
      /\ \A d \in Observers : Coming(d) => Coming(d)'
  BY <1>1, <1>2, <1>3, AnnounceKeeps
<1>5. HubTypeOK'
  BY <1>1, <1>3, <1>4 DEF HubTypeOK
<1>6. OnlineUsers \subseteq OnlineUsers'
  BY <1>3 DEF OnlineUsers
<1>7. TypingIsOnline'
  BY <1>1, <1>3, <1>6 DEF TypingIsOnline
<1>8. ASSUME ~first PROVE OnlineUsers' = OnlineUsers
  BY <1>1, <1>3, <1>8 DEF OnlineUsers, TabsOf, HubTypeOK
<1>9. ASSUME first, NEW d \in Observers PROVE Coming(d)'
  BY <1>1, <1>2, <1>4, <1>9 DEF Coming, Reaches
<1>10. ASSUME NEW d \in Observers PROVE TabIsServed(d)'
  <2>1. TabIsServed(d)
    BY <1>1 DEF AllServed
  <2>2. d \notin clients' => <<d, Presence>> \in missed'
    BY <1>3, <2>1 DEF TabIsServed
  <2>3. CASE first
    BY <1>9, <2>2, <2>3 DEF TabIsServed
  <2>4. CASE ~first
    <3>1. d \in due' \/ <<d, Presence>> \in missed' \/ list'[d] = OnlineUsers' \/ Coming(d)'
      BY <1>3, <1>4, <1>8, <2>1, <2>4 DEF TabIsServed
    <3> QED BY <2>2, <3>1 DEF TabIsServed
  <2> QED BY <2>3, <2>4
<1> QED BY <1>5, <1>7, <1>10 DEF HubInv, AllServed

LEMMA UnregisterKeeps ==
  ASSUME HubInv, NEW c \in Tabs, Unregister(c)
  PROVE  HubInv'
<1> DEFINE last == TabsOf(Owner[c]) = {c}
           cleared == {t \in Channels \X Typists : last /\ t[2] = Owner[c] /\ typing[t] # "no"}
           said == {News(t, FALSE) : t \in cleared} \cup (IF last THEN {PresenceNews} ELSE {})
<1>1. HubTypeOK /\ TypingIsOnline /\ AllServed /\ <<c, "out">> \in Tellers
  BY DEF HubInv, Tellers
<1>2. /\ said \in SUBSET Item /\ PresenceNews.topic = Presence /\ PresenceNews.to = Unsent
      /\ last => PresenceNews \in said
  <2>1. PresenceNews \in Item /\ PresenceNews.topic = Presence /\ PresenceNews.to = Unsent
    BY NewsIsItem, TopicsAreTopics DEF PresenceNews
  <2>2. \A t \in cleared : News(t, FALSE) \in Item
    BY NewsIsItem, TopicsAreTopics
  <2> HIDE DEF cleared
  <2> QED BY <2>1, <2>2
<1>3. /\ Announce(<<c, "out">>, said) /\ c \in clients /\ clients' = clients \ {c}
      /\ typing' = [t \in Channels \X Typists |-> IF t \in cleared THEN "no" ELSE typing[t]]
      /\ due' = due \ {c} /\ missed' = missed \cup (({c} \cap Observers) \X Topics)
      /\ UNCHANGED <<shown, list>>
  BY DEF Unregister
<1> HIDE DEF said
<1>4. /\ news' \in [Tellers -> SUBSET Item] /\ said \subseteq news'[<<c, "out">>]
      /\ \A d \in Observers : Coming(d) => Coming(d)'
  BY <1>1, <1>2, <1>3, AnnounceKeeps
<1>5. HubTypeOK'
  BY <1>1, <1>3, <1>4 DEF HubTypeOK
<1>6. ASSUME ~last PROVE OnlineUsers' = OnlineUsers
  BY <1>1, <1>3, <1>6 DEF OnlineUsers, TabsOf, HubTypeOK
<1>7. \A u \in OnlineUsers : u # Owner[c] => u \in OnlineUsers'
  BY <1>3 DEF OnlineUsers
<1>8. TypingIsOnline'
  <2> SUFFICES ASSUME NEW t \in Channels \X Typists, typing'[t] # "no" PROVE t[2] \in OnlineUsers'
    BY DEF TypingIsOnline
  <2>1. t \notin cleared /\ typing[t] # "no"
    BY <1>3
  <2>2. t[2] \in OnlineUsers /\ (~last \/ t[2] # Owner[c])
    BY <1>1, <2>1 DEF TypingIsOnline
  <2> QED BY <1>6, <1>7, <2>2
<1>9. ASSUME last, NEW d \in Observers PROVE Coming(d)'
  BY <1>1, <1>2, <1>4, <1>9 DEF Coming, Reaches
<1>10. ASSUME NEW d \in Observers PROVE TabIsServed(d)'
  <2>1. TabIsServed(d)
    BY <1>1 DEF AllServed
  <2>2. CASE d = c
    <3>1. <<d, Presence>> \in missed'
      BY <1>3, <2>2, TopicsAreTopics
    <3> QED BY <3>1 DEF TabIsServed
  <2>3. CASE d # c
    <3>1. /\ d \notin clients' => <<d, Presence>> \in missed'
          /\ d \in due => d \in due'
          /\ <<d, Presence>> \in missed => <<d, Presence>> \in missed'
      BY <1>3, <2>1, <2>3 DEF TabIsServed
    <3>2. CASE last
      BY <1>9, <3>1, <3>2 DEF TabIsServed
    <3>3. CASE ~last
      <4>1. d \in due' \/ <<d, Presence>> \in missed' \/ list'[d] = OnlineUsers' \/ Coming(d)'
        BY <1>3, <1>4, <1>6, <2>1, <3>1, <3>3 DEF TabIsServed
      <4> QED BY <3>1, <4>1 DEF TabIsServed
    <3> QED BY <3>2, <3>3
  <2> QED BY <2>2, <2>3
<1> QED BY <1>5, <1>8, <1>10 DEF HubInv, AllServed

\* The steps that only send: clients and typing stay.
LEMMA SnapshotKeeps ==
  ASSUME HubInv, NEW g \in Tellers, NEW i \in news[g], Snapshot(g, i)
  PROVE  HubInv'
<1> DEFINE to == {Owner[c] : c \in clients \cap Observers}
<1>1. HubTypeOK /\ TypingIsOnline /\ AllServed
  BY DEF HubInv
<1>2. GoesOn(g, i, to) /\ UNCHANGED <<clients, typing, shown, list, due, missed>>
  BY DEF Snapshot
<1>3. to \in SUBSET HubUsers
  BY <1>1 DEF HubTypeOK, HubUsers
<1>4. /\ news' \in [Tellers -> SUBSET Item]
      /\ \A c \in Observers : Coming(c) /\ (Reaches(i, c) => Owner[c] \in to) => Coming(c)'
  BY <1>1, <1>2, <1>3, GoesOnKeeps
<1>5. HubTypeOK' /\ TypingIsOnline'
  BY <1>1, <1>2, <1>4 DEF HubTypeOK, TypingIsOnline, OnlineUsers
<1>6. ASSUME NEW c \in Observers PROVE TabIsServed(c)'
  <2>1. TabIsServed(c)
    BY <1>1 DEF AllServed
  <2>2. OnlineUsers' = OnlineUsers
    BY <1>2 DEF OnlineUsers
  <2>3. CASE c \in clients
    <3>1. Coming(c) => Coming(c)'
      BY <1>4, <2>3
    <3> QED BY <1>2, <2>1, <2>2, <3>1 DEF TabIsServed
  <2>4. CASE c \notin clients
    BY <1>2, <2>1, <2>4 DEF TabIsServed
  <2> QED BY <2>3, <2>4
<1> QED BY <1>5, <1>6 DEF HubInv, AllServed

\* A connected tab that presence is sent to hears of it or is too slow for it.
LEMMA SendToUserKeeps ==
  ASSUME HubInv, NEW g \in Tellers, NEW i \in news[g], NEW u \in HubUsers,
         NEW full \in SUBSET (TabsOf(u) \cap Observers), SendToUser(g, i, u, full)
  PROVE  HubInv'
<1> DEFINE heard == (TabsOf(u) \cap Observers) \ full
<1>1. HubTypeOK /\ TypingIsOnline /\ AllServed /\ i \in Item
  BY DEF HubInv, HubTypeOK
<1>2. /\ i.to # Unsent /\ GoesOn(g, i, i.to \ {u}) /\ UNCHANGED <<clients, typing, list>>
      /\ i.topic = Presence => due' = due \cup heard /\ shown' = shown
      /\ i.topic # Presence =>
           /\ shown' = [c \in Observers |->
                          IF c \notin heard \/ Owner[c] = i.topic[2] THEN shown[c]
                          ELSE IF i.on THEN shown[c] \cup {i.topic} ELSE shown[c] \ {i.topic}]
           /\ due' = due
      /\ missed' = IF i.topic # Presence /\ i.alone
                   THEN (missed \cup (full \X {i.topic})) \ (heard \X {i.topic})
                   ELSE missed \cup ((IF i.topic = Presence THEN full ELSE full \cup heard) \X {i.topic})
  BY DEF SendToUser
<1>3. i.topic \in Topics /\ i.to \in SUBSET HubUsers
  BY <1>1, <1>2 DEF Item
<1>4. heard \subseteq Observers /\ full \subseteq Observers
  OBVIOUS
<1>5. /\ news' \in [Tellers -> SUBSET Item]
      /\ \A c \in Observers : Coming(c) /\ (Reaches(i, c) => Owner[c] \in i.to \ {u}) => Coming(c)'
  BY <1>1, <1>2, <1>3, GoesOnKeeps
<1> HIDE DEF heard
<1>6. missed' \subseteq Observers \X Topics
  BY <1>1, <1>2, <1>3, <1>4 DEF HubTypeOK
<1>7. due' \subseteq Observers /\ shown' \in [Observers -> SUBSET (Channels \X Typists)]
  <2>1. CASE i.topic = Presence
    BY <1>1, <1>2, <1>4, <2>1 DEF HubTypeOK
  <2>2. CASE i.topic # Presence
    <3>1. i.topic \in Channels \X Typists
      BY <1>3, <2>2 DEF Topics
    <3> QED BY <1>1, <1>2, <2>2, <3>1 DEF HubTypeOK
  <2> QED BY <2>1, <2>2
<1>8. HubTypeOK' /\ TypingIsOnline'
  BY <1>1, <1>2, <1>5, <1>6, <1>7 DEF HubTypeOK, TypingIsOnline, OnlineUsers
<1>9. OnlineUsers' = OnlineUsers
  BY <1>2 DEF OnlineUsers
<1>10. ASSUME NEW c \in Observers PROVE TabIsServed(c)'
  <2>1. TabIsServed(c)
    BY <1>1 DEF AllServed
  <2>2. due \subseteq due' /\ (<<c, Presence>> \in missed => <<c, Presence>> \in missed')
    BY <1>2
  <2>3. c \notin clients' => <<c, Presence>> \in missed'
    BY <1>2, <2>1, <2>2 DEF TabIsServed
  <2>4. ASSUME Coming(c)
        PROVE  Coming(c)' \/ c \in due' \/ <<c, Presence>> \in missed'
    <3>1. CASE Reaches(i, c) => Owner[c] \in i.to \ {u}
      BY <1>5, <2>4, <3>1
    <3>2. CASE Reaches(i, c) /\ Owner[c] \notin i.to \ {u}
      <4>1. i.topic = Presence /\ Owner[c] = u
        BY <1>2, <3>2 DEF Reaches
      <4>2. CASE c \in clients
        <5>1. c \in heard \/ c \in full
          BY <4>1, <4>2, HubAssumption DEF TabsOf, heard
        <5> QED BY <1>2, <4>1, <5>1
      <4>3. CASE c \notin clients
        BY <2>1, <2>2, <4>3 DEF TabIsServed
      <4> QED BY <4>2, <4>3
    <3> QED BY <3>1, <3>2
  <2>5. c \in due' \/ <<c, Presence>> \in missed' \/ list'[c] = OnlineUsers' \/ Coming(c)'
    BY <1>2, <1>9, <2>1, <2>2, <2>4 DEF TabIsServed
  <2> QED BY <2>3, <2>5 DEF TabIsServed
<1> QED BY <1>8, <1>10 DEF HubInv, AllServed

LEMMA FetchPresenceKeeps ==
  ASSUME HubInv, NEW c \in Observers, FetchPresence(c)
  PROVE  HubInv'
<1>1. HubTypeOK /\ TypingIsOnline /\ AllServed
  BY DEF HubInv
<1>2. /\ list' = [list EXCEPT ![c] = OnlineUsers] /\ due' = due \ {c}
      /\ missed' = IF c \in clients THEN missed \ {<<c, Presence>>} ELSE missed
      /\ UNCHANGED <<clients, typing, news, shown>>
  BY DEF FetchPresence
<1>3. OnlineUsers \subseteq HubUsers /\ OnlineUsers' = OnlineUsers
  BY <1>1, <1>2 DEF OnlineUsers, HubUsers, HubTypeOK
<1>4. HubTypeOK' /\ TypingIsOnline'
  BY <1>1, <1>2, <1>3 DEF HubTypeOK, TypingIsOnline
<1>5. ASSUME NEW d \in Observers PROVE TabIsServed(d)'
  <2>1. TabIsServed(d) /\ (Coming(d) => Coming(d)')
    BY <1>1, <1>2 DEF AllServed, Coming
  <2>2. CASE d = c
    <3>1. list'[d] = OnlineUsers'
      BY <1>1, <1>2, <1>3, <2>2 DEF HubTypeOK
    <3> QED BY <1>2, <2>1, <2>2, <3>1 DEF TabIsServed
  <2>3. CASE d # c
    <3>1. list'[d] = list[d] /\ (d \in due => d \in due')
          /\ (<<d, Presence>> \in missed => <<d, Presence>> \in missed')
      BY <1>1, <1>2, <2>3 DEF HubTypeOK
    <3>2. d \in due' \/ <<d, Presence>> \in missed' \/ list'[d] = OnlineUsers' \/ Coming(d)'
      BY <1>3, <2>1, <3>1 DEF TabIsServed
    <3>3. d \notin clients' => <<d, Presence>> \in missed'
      BY <1>2, <2>1, <3>1 DEF TabIsServed
    <3> QED BY <3>2, <3>3 DEF TabIsServed
  <2> QED BY <2>2, <2>3
<1> QED BY <1>4, <1>5 DEF HubInv, AllServed

\* The steps that presence has no part in.
LEMMA LookKeeps ==
  ASSUME HubInv, NEW c \in Observers, Look(c)
  PROVE  HubInv'
<1>1. HubTypeOK /\ TypingIsOnline /\ AllServed
  BY DEF HubInv
<1>2. /\ shown' = [shown EXCEPT ![c] = {}] /\ missed' = missed \ ({c} \X (Channels \X Typists))
      /\ UNCHANGED <<clients, typing, news, list, due>>
  BY DEF Look
<1>3. HubTypeOK' /\ TypingIsOnline'
  BY <1>1, <1>2 DEF HubTypeOK, TypingIsOnline, OnlineUsers
<1>4. ASSUME NEW d \in Observers PROVE TabIsServed(d)'
  <2>1. TabIsServed(d) /\ (Coming(d) => Coming(d)') /\ OnlineUsers' = OnlineUsers
    BY <1>1, <1>2 DEF AllServed, Coming, OnlineUsers
  <2>2. <<d, Presence>> \in missed => <<d, Presence>> \in missed'
    BY <1>2, TopicsAreTopics
  <2>3. d \in due' \/ <<d, Presence>> \in missed' \/ list'[d] = OnlineUsers' \/ Coming(d)'
    BY <1>2, <2>1, <2>2 DEF TabIsServed
  <2>4. d \notin clients' => <<d, Presence>> \in missed'
    BY <1>2, <2>1, <2>2 DEF TabIsServed
  <2> QED BY <2>3, <2>4 DEF TabIsServed
<1> QED BY <1>3, <1>4 DEF HubInv, AllServed

LEMMA SetTypingKeeps ==
  ASSUME HubInv, NEW c \in Tabs, NEW t \in Channels \X Typists, SetTyping(c, t)
  PROVE  HubInv'
<1> DEFINE said == IF typing[t] = "no" THEN {News(t, TRUE)} ELSE {}
<1>1. HubTypeOK /\ TypingIsOnline /\ AllServed /\ <<c, "in">> \in Tellers
  BY DEF HubInv, Tellers
<1>2. /\ c \in clients /\ t[2] = Owner[c] /\ typing' = [typing EXCEPT ![t] = "fresh"]
      /\ Announce(<<c, "in">>, said) /\ UNCHANGED <<clients, shown, list, due, missed>>
  BY DEF SetTyping
<1>3. said \in SUBSET Item
  BY NewsIsItem, TopicsAreTopics
<1> HIDE DEF said
<1>4. news' \in [Tellers -> SUBSET Item] /\ \A d \in Observers : Coming(d) => Coming(d)'
  BY <1>1, <1>2, <1>3, AnnounceKeeps
<1>5. HubTypeOK'
  BY <1>1, <1>2, <1>4 DEF HubTypeOK
<1>6. TypingIsOnline'
  BY <1>1, <1>2 DEF TypingIsOnline, OnlineUsers, HubTypeOK
<1>7. AllServed'
  BY <1>1, <1>2, <1>4, ServedUnchanged
<1> QED BY <1>5, <1>6, <1>7 DEF HubInv

LEMMA StopTypingKeeps ==
  ASSUME HubInv, NEW c \in Tabs, NEW t \in Channels \X Typists, StopTyping(c, t)
  PROVE  HubInv'
<1>1. HubTypeOK /\ TypingIsOnline /\ AllServed /\ <<c, "in">> \in Tellers
  BY DEF HubInv, Tellers
<1>2. /\ typing' = [typing EXCEPT ![t] = "no"]
      /\ Announce(<<c, "in">>, {News(t, FALSE)}) /\ UNCHANGED <<clients, shown, list, due, missed>>
  BY DEF StopTyping
<1>3. {News(t, FALSE)} \in SUBSET Item
  BY NewsIsItem, TopicsAreTopics
<1>4. news' \in [Tellers -> SUBSET Item] /\ \A d \in Observers : Coming(d) => Coming(d)'
  BY <1>1, <1>2, <1>3, AnnounceKeeps
<1>5. HubTypeOK'
  BY <1>1, <1>2, <1>4 DEF HubTypeOK
<1>6. TypingIsOnline'
  BY <1>1, <1>2 DEF TypingIsOnline, OnlineUsers, HubTypeOK
<1>7. AllServed'
  BY <1>1, <1>2, <1>4, ServedUnchanged
<1> QED BY <1>5, <1>6, <1>7 DEF HubInv

LEMMA AgeKeeps ==
  ASSUME HubInv, NEW t \in Channels \X Typists, Age(t)
  PROVE  HubInv'
<1>1. HubTypeOK /\ TypingIsOnline /\ AllServed
  BY DEF HubInv
<1>2. /\ typing[t] = "fresh" /\ typing' = [typing EXCEPT ![t] = "stale"]
      /\ UNCHANGED <<clients, news, shown, list, due, missed>>
  BY DEF Age
<1>3. HubTypeOK'
  BY <1>1, <1>2 DEF HubTypeOK
<1>4. TypingIsOnline'
  BY <1>1, <1>2 DEF TypingIsOnline, OnlineUsers, HubTypeOK
<1>5. \A d \in Observers : Coming(d) => Coming(d)'
  BY <1>2 DEF Coming
<1>6. AllServed'
  BY <1>1, <1>2, <1>5, ServedUnchanged
<1> QED BY <1>3, <1>4, <1>6 DEF HubInv

LEMMA ExpireTypingKeeps ==
  ASSUME HubInv, ExpireTyping
  PROVE  HubInv'
<1> DEFINE said == {News(t, FALSE) : t \in Stale}
<1>1. HubTypeOK /\ TypingIsOnline /\ AllServed /\ Expiry \in Tellers
  BY DEF HubInv, Tellers
<1>2. /\ typing' = [t \in Channels \X Typists |-> IF t \in Stale THEN "no" ELSE typing[t]]
      /\ Announce(Expiry, said) /\ UNCHANGED <<clients, shown, list, due, missed>>
  BY DEF ExpireTyping
<1>3. \A t \in Stale : News(t, FALSE) \in Item
  BY NewsIsItem, TopicsAreTopics DEF Stale
<1>4. said \in SUBSET Item
  BY <1>3
<1> HIDE DEF said
<1>5. news' \in [Tellers -> SUBSET Item] /\ \A d \in Observers : Coming(d) => Coming(d)'
  BY <1>1, <1>2, <1>4, AnnounceKeeps
<1>6. HubTypeOK'
  BY <1>1, <1>2, <1>5 DEF HubTypeOK
<1>7. TypingIsOnline'
  BY <1>1, <1>2 DEF TypingIsOnline, OnlineUsers
<1>8. AllServed'
  BY <1>1, <1>2, <1>5, ServedUnchanged
<1> QED BY <1>6, <1>7, <1>8 DEF HubInv

LEMMA StepKeeps == HubInv /\ [HubNext]_hubVars => HubInv'
<1> SUFFICES ASSUME HubInv, [HubNext]_hubVars PROVE HubInv'
  OBVIOUS
<1>1. CASE \E g \in Tellers : Tell(g)
  <2>1. PICK g \in Tellers : Tell(g)
    BY <1>1
  <2> QED BY <2>1, SnapshotKeeps, SendToUserKeeps DEF Tell
<1>2. CASE \E c \in Tabs : Register(c)
  BY <1>2, RegisterKeeps
<1>3. CASE \E c \in Tabs : Unregister(c)
  BY <1>3, UnregisterKeeps
<1>4. CASE \E c \in Tabs : \E t \in Channels \X Typists : SetTyping(c, t) \/ StopTyping(c, t)
  BY <1>4, SetTypingKeeps, StopTypingKeeps
<1>5. CASE \E c \in Observers : FetchPresence(c) \/ Look(c)
  BY <1>5, FetchPresenceKeeps, LookKeeps
<1>6. CASE \E t \in Channels \X Typists : Age(t)
  BY <1>6, AgeKeeps
<1>7. CASE ExpireTyping
  BY <1>7, ExpireTypingKeeps
<1>8. CASE UNCHANGED hubVars
  BY <1>8 DEF hubVars, HubInv, HubTypeOK, TypingIsOnline, OnlineUsers, AllServed, TabIsServed,
              Coming
<1> QED BY <1>1, <1>2, <1>3, <1>4, <1>5, <1>6, <1>7, <1>8 DEF HubNext

-----------------------------------------------------------------------------
(* Theorems *)

\* The maps of the hub and what the tabs know of them stay what they are
\* declared to be, and every wrong list is accounted for.
THEOREM HubInvariant == HubSpec => []HubInv
<1> QED BY InitKeeps, StepKeeps, PTL DEF HubSpec

\* Whoever the hub says is typing has a socket (ws/hub.go:136-146).
THEOREM HubTypingIsOnline == HubSpec => []TypingIsOnline
<1>1. HubInv => TypingIsOnline
  BY DEF HubInv
<1> QED BY <1>1, HubInvariant, PTL

\* However many sockets come and go at once, and in whatever order the news of
\* it comes, a tab's list is right once it has heard it all, none of it while
\* waiting for its first list, and fetched since (ws/hub.go:119-124).
THEOREM HubOnlineListIsRight == HubSpec => []OnlineListIsRight
<1>1. HubInv => OnlineListIsRight
  <2> SUFFICES ASSUME HubInv, NEW c \in (clients \cap Observers) \ due, <<c, Presence>> \notin missed,
                      list[c] # OnlineUsers
               PROVE  \E g \in Tellers : \E i \in news[g] : i.topic = Presence
    BY DEF OnlineListIsRight
  <2>1. Coming(c)
    BY DEF HubInv, AllServed, TabIsServed
  <2> QED BY <2>1 DEF Coming, Reaches
<1> QED BY <1>1, HubInvariant, PTL
=============================================================================
