----------------------------- MODULE Recurrence -----------------------------
(***************************************************************************)
(* The rule that makes a task come back: who carries it, who spawns the    *)
(* next instance, and the lock that keeps the replicas' sweeps apart.      *)
(*                                                                         *)
(* Two kinds of worker spawn.  A request that finishes a task spawns from  *)
(* an on_complete rule; a replica's sweep spawns from the on_schedule      *)
(* rules that are due.  Both read first and act on what they read, one     *)
(* database call at a time, while people edit, delete and complete.        *)
(***************************************************************************)
EXTENDS Naturals, FiniteSets

CONSTANTS
  Tasks,      \* task ids: the first ones and those spawning generates
  First,      \* the tasks there are at the start
  Requests,   \* handlers of PUT /tasks/:id and PATCH /tasks/:id/move
  Replicas,   \* backend processes, each running a RecurrenceScheduler
  Batch,      \* rules one sweep takes (100)
  Limits,     \* values of max_occurrences
  Untils,     \* {"none"}, or {"none", "ahead"} when rules may have an end date
  Patches,    \* statuses requests ask for, "none" for an edit of other fields
  MaxRules,   \* bound: rules ever created
  Faults,     \* TRUE: a call may fail, a process die, the lock be out of reach
  None

Workers == Requests \cup Replicas

ASSUME RecurrenceAssumption ==
  /\ Requests \cap Replicas = {} /\ Replicas # {}
  /\ First \subseteq Tasks
  /\ Batch \in Nat \ {0}
  /\ Limits \subseteq Nat \ {0}
  /\ Untils \subseteq {"none", "ahead"}
  /\ Patches \subseteq {"none", "todo", "done"}
  /\ MaxRules \in Nat
  /\ Faults \in BOOLEAN
  /\ None \notin Tasks \cup Workers

VARIABLES
  task,      \* tasks.status and whether completed_at is set
  rule,      \* task_recurrences, by task_id
  made,      \* how many rules were created; each one's created_at
  work,      \* the request or the sweep item each worker is at
  batch,     \* rules a sweep read and has not come to
  holder,    \* the replica whose session holds the advisory lock
  forked,    \* history: rules copied by two transactions at once
  disturbed, \* history: tasks whose spawning two workers had in hand at once,
             \* or one broke off, or whose finishing no request looked at
  unlocked   \* history: a sweep ran without the lock

vars == <<task, rule, made, work, batch, holder, forked, disturbed, unlocked>>
sweeps == <<batch, holder, unlocked>>

-----------------------------------------------------------------------------
\* `touched`, for the properties: somebody saved the rule while a worker had
\* its task in hand or when the task was finished already, or another worker
\* moved it onto a task in hand.
Rule == [mode : {"on_complete", "on_schedule"}, max : Limits,
         until : {"none", "ahead", "past"}, occurrences : Nat \ {0},
         next : {"none", "ahead", "due"}, created : 1..MaxRules,
         touched : BOOLEAN]

ASSUME NoneIsNoRule == None \notin Rule

\* `parent` is recurrence_parent_id; `of`, for the properties, the rule that
\* called for the task.
Task == [at : {"free", "live", "gone"}, status : {"todo", "done"},
         completed : BOOLEAN, parent : Tasks \cup {None}, of : 0..MaxRules]

Work == [at : {"idle", "locked", "sweep", "update", "readback", "rule", "unread",
               "expire", "create", "move", "commit"},
         task : Tasks \cup {None},      \* the task it is about
         was : BOOLEAN,                   \* completed, as a request first read it
         patch : {"none", "todo", "done"},\* the status a request asks for
         status : {"todo", "done"},       \* of the task as last read
         rule : Rule \cup {None},       \* as read, then as copied by MoveTo
         clone : Tasks \cup {None}]

Idle == [at |-> "idle", task |-> None, was |-> FALSE, patch |-> "none",
         status |-> "todo", rule |-> None, clone |-> None]

Live(t) == task[t].at = "live"
Carries(t) == rule[t] # None
InHand(w, t) ==
  \/ t \in {work[w].task, work[w].clone}
  \/ w \in Replicas /\ t \in DOMAIN batch[w]

\* Mutation: one occurrence too many.
ExhaustedLate(r) == r.until = "past" \/ r.occurrences > r.max

Exhausted(r) == r.until = "past" \/ r.occurrences >= r.max

Due(t) ==
  /\ Carries(t)
  /\ rule[t].mode = "on_schedule"
  /\ rule[t].next = "due"

\* Where a worker goes when it is through with a task.
Rest(w) ==
  IF w \in Replicas THEN [Idle EXCEPT !.at = "sweep"] ELSE Idle

Done(w) == work' = [work EXCEPT ![w] = Rest(w)]

-----------------------------------------------------------------------------
(* People.                                                                 *)

\* The row of t that an open transaction has inserted locks t: Set waits for
\* it, and so does deleting the task.
Blocked(t) ==
  \E w \in Workers :
    work[w].at = "commit" /\ work[w].clone = t /\ work[w].rule # None

\* An upsert.  A new rule counts the task it is put on; a saved one keeps its
\* count and its created_at.  A scheduled one first fires on the task's due
\* date, past or not; `next` "none" asks for a rule driven by completion.
SetRecurrence(t, next, max, until) ==
  /\ Live(t) /\ ~Blocked(t)
  /\ Carries(t) \/ made < MaxRules
  /\ made' = IF Carries(t) THEN made ELSE made + 1
  /\ rule' = [rule EXCEPT ![t] =
       [mode |-> IF next = "none" THEN "on_complete" ELSE "on_schedule",
        max |-> max, until |-> until, next |-> next,
        occurrences |-> IF Carries(t) THEN @.occurrences ELSE 1,
        created |-> IF Carries(t) THEN @.created ELSE made',
        touched |-> \/ Carries(t) /\ @.touched
                    \/ task[t].completed
                    \/ \E w \in Workers : InHand(w, t)]]
  /\ UNCHANGED <<task, work, forked, disturbed, sweeps>>

DeleteRecurrence(t) ==
  /\ Live(t) /\ Carries(t)
  /\ rule' = [rule EXCEPT ![t] = None]
  /\ UNCHANGED <<task, made, work, forked, disturbed, sweeps>>

\* The rule goes with its task (ON DELETE CASCADE).
DeleteTask(t) ==
  /\ Live(t) /\ ~Blocked(t)
  /\ task' = [task EXCEPT ![t].at = "gone"]
  /\ rule' = [rule EXCEPT ![t] = None]
  /\ UNCHANGED <<made, work, forked, disturbed, sweeps>>

DueDateComes(t) ==
  /\ Carries(t) /\ rule[t].next = "ahead"
  /\ rule' = [rule EXCEPT ![t].next = "due"]
  /\ UNCHANGED <<task, made, work, forked, disturbed, sweeps>>

UntilDateComes(t) ==
  /\ Carries(t) /\ rule[t].until = "ahead"
  /\ rule' = [rule EXCEPT ![t].until = "past"]
  /\ UNCHANGED <<task, made, work, forked, disturbed, sweeps>>

\* Entering "done" stamps completed_at and leaving it clears the stamp.
Updated(t, s) ==
  IF s = "none" THEN task
  ELSE [task EXCEPT ![t] = [@ EXCEPT !.status = s, !.completed = (s = "done")]]

Finishes(t, s) == s = "done" /\ ~task[t].completed

\* An automation's set_status goes to the repository and spawns nothing.
AutomationSetsStatus(t, s) ==
  /\ Live(t)
  /\ task' = Updated(t, s)
  /\ disturbed' = IF Finishes(t, s) THEN disturbed \cup {t} ELSE disturbed
  /\ UNCHANGED <<rule, made, work, forked, sweeps>>

-----------------------------------------------------------------------------
(* The request that finishes a task: UpdateTask, MoveTask.                 *)

BeginUpdate(h, t, s) ==
  /\ work[h].at = "idle"
  /\ Live(t)
  /\ work' = [work EXCEPT ![h] = [Idle EXCEPT !.at = "update", !.task = t,
                                 !.was = task[t].completed, !.patch = s]]
  /\ disturbed' = IF \E w \in Workers : InHand(w, t)
                  THEN disturbed \cup {t} ELSE disturbed
  /\ UNCHANGED <<task, rule, made, forked, sweeps>>

Update(h) == LET t == work[h].task IN
  /\ work[h].at = "update"
  /\ IF Live(t)
     THEN /\ task' = Updated(t, work[h].patch)
          /\ work' = [work EXCEPT ![h] = [@ EXCEPT !.at = "readback", !.patch = "none"]]
          /\ disturbed' = IF Finishes(t, work[h].patch) /\ work[h].was
                          THEN disturbed \cup {t} ELSE disturbed
     ELSE Done(h) /\ UNCHANGED <<task, disturbed>>
  /\ UNCHANGED <<rule, made, forked, sweeps>>

\* The spawn is keyed on completed_at appearing between the two reads.
\* Mutation: the task as it was is read after the update.
ReadBackTwice(h) == LET t == work[h].task IN
  /\ work[h].at = "readback"
  /\ IF Live(t) /\ ~task[t].completed /\ task[t].completed
     THEN work' = [work EXCEPT ![h] =
            [@ EXCEPT !.at = "rule", !.status = task[t].status]]
     ELSE Done(h)
  /\ UNCHANGED <<task, rule, made, forked, disturbed, sweeps>>

ReadBack(h) == LET t == work[h].task IN
  /\ work[h].at = "readback"
  /\ IF Live(t) /\ ~work[h].was /\ task[t].completed
     THEN work' = [work EXCEPT ![h] =
            [@ EXCEPT !.at = "rule", !.status = task[t].status]]
     ELSE Done(h)
  /\ UNCHANGED <<task, rule, made, forked, disturbed, sweeps>>

\* The worker has a rule and decides: spawn, or clear a rule at its end.
Taken(t, s, r) ==
  [Idle EXCEPT !.at = IF Exhausted(r) THEN "expire" ELSE "create",
               !.task = t, !.status = s, !.rule = r]

SpawnOnCompletion(h) == LET t == work[h].task IN
  /\ work[h].at = "rule"
  /\ IF Carries(t) /\ rule[t].mode = "on_complete"
     THEN work' = [work EXCEPT ![h] = Taken(t, @.status, rule[t])]
     ELSE Done(h)
  /\ UNCHANGED <<task, rule, made, forked, disturbed, sweeps>>

-----------------------------------------------------------------------------
(* Spawning: both kinds of worker.                                         *)

\* A rule at its end is deleted.
Expire(w) ==
  /\ work[w].at = "expire"
  /\ rule' = [rule EXCEPT ![work[w].task] = None]
  /\ Done(w)
  /\ UNCHANGED <<task, made, forked, disturbed, sweeps>>

\* The clone takes the status of the task as it was last read (firstStatusOr)
\* and no completion stamp.
Create(w, c) ==
  /\ work[w].at = "create"
  /\ task[c].at = "free"
  /\ task' = [task EXCEPT ![c] =
       [at |-> "live", status |-> work[w].status, completed |-> FALSE,
        parent |-> work[w].task, of |-> work[w].rule.created]]
  /\ work' = [work EXCEPT ![w] = [@ EXCEPT !.at = "move", !.clone = c]]
  /\ UNCHANGED <<rule, made, forked, disturbed, sweeps>>

\* MoveTo's INSERT ... SELECT.  It copies the stored rule, not the one the
\* worker read; nothing it writes is seen before the commit.
MoveFails(w) ==
  /\ Carries(work[w].task)
  /\ ~Live(work[w].clone) \/ Carries(work[w].clone)

\* Mutation: the copy takes no next moment.
CopyRuleOnly(w) == LET r == rule[work[w].task] IN
  /\ work[w].at = "move" /\ ~MoveFails(w)
  /\ work' = [work EXCEPT ![w] = [@ EXCEPT !.at = "commit", !.rule =
       IF r = None THEN r
       ELSE [r EXCEPT !.occurrences = @ + 1, !.next = "none"]]]
  /\ UNCHANGED <<task, rule, made, forked, disturbed, sweeps>>

NextMoment(read) == IF read.mode = "on_schedule" THEN "ahead" ELSE "none"

\* The row inserted for `stored`, by a worker that decided on `read`.
Copied(stored, read) ==
  IF stored = None THEN None
  ELSE [stored EXCEPT !.occurrences = @ + 1, !.next = NextMoment(read)]

CopyRule(w) == LET r == rule[work[w].task] IN
  /\ work[w].at = "move"
  /\ IF MoveFails(w)
     THEN /\ Done(w)
          /\ disturbed' = disturbed \cup {work[w].task}
          /\ UNCHANGED forked
     ELSE /\ work' = [work EXCEPT ![w] =
            [@ EXCEPT !.at = "commit", !.rule = Copied(r, work[w].rule)]]
          /\ forked' = IF r # None
                       /\ \E v \in Workers \ {w} :
                            /\ work[v].at = "commit" /\ work[v].rule # None
                            /\ work[v].rule.created = r.created
                       THEN forked \cup {r.created} ELSE forked
          /\ UNCHANGED disturbed
  /\ UNCHANGED <<task, rule, made, sweeps>>

\* Its DELETE, and the commit of both.
\* Mutation: the INSERT has its own transaction, and the second one fails.
CommitMoveInsertOnly(w) ==
  /\ work[w].at = "commit"
  /\ rule' = [rule EXCEPT ![work[w].clone] = IF work[w].rule = None
                                             THEN @ ELSE work[w].rule]
  /\ Done(w)
  /\ UNCHANGED <<task, made, forked, disturbed, sweeps>>

\* Mutation: the DELETE comes first, and the INSERT finds nothing to copy.
CommitMoveDeleteFirst(w) ==
  /\ work[w].at = "commit"
  /\ rule' = [rule EXCEPT ![work[w].task] = None]
  /\ Done(w)
  /\ UNCHANGED <<task, made, forked, disturbed, sweeps>>

Moved(w) ==
  [work[w].rule EXCEPT !.touched =
     @ \/ \E v \in Workers \ {w} : InHand(v, work[w].clone)]

CommitMove(w) ==
  /\ work[w].at = "commit"
  /\ rule' = [[rule EXCEPT ![work[w].task] = None]
                EXCEPT ![work[w].clone] =
                  IF work[w].rule = None THEN @ ELSE Moved(w)]
  /\ Done(w)
  /\ UNCHANGED <<task, made, forked, disturbed, sweeps>>

\* A call fails and the request or the sweep's item ends where it is.
CallFails(w) ==
  /\ Faults
  /\ work[w].task # None
  /\ Done(w)
  /\ disturbed' = disturbed \cup {work[w].task}
  /\ UNCHANGED <<task, rule, made, forked, sweeps>>

-----------------------------------------------------------------------------
(* The sweep (RecurrenceScheduler, SweepGuard).                            *)

\* Mutation: a replica that loses the race sweeps all the same.
StartSweepRegardless(r) ==
  /\ work[r].at = "idle"
  /\ work' = [work EXCEPT ![r].at = "locked"]
  /\ UNCHANGED <<task, rule, made, forked, disturbed, sweeps>>

StartSweep(r) ==
  /\ work[r].at = "idle"
  /\ holder = None
  /\ holder' = r
  /\ work' = [work EXCEPT ![r].at = "locked"]
  /\ UNCHANGED <<task, rule, made, forked, disturbed, batch, unlocked>>

\* The lock cannot be reached: the sweep runs anyway.
StartUnlocked(r) ==
  /\ Faults
  /\ work[r].at = "idle"
  /\ work' = [work EXCEPT ![r].at = "locked"]
  /\ unlocked' = TRUE
  /\ UNCHANGED <<task, rule, made, forked, disturbed, batch, holder>>

ReadDue(r) ==
  /\ work[r].at = "locked"
  /\ \E due \in SUBSET {t \in Tasks : Due(t)} :
       /\ Cardinality(due) <= Batch
       /\ due = {t \in Tasks : Due(t)} \/ Cardinality(due) = Batch
       /\ batch' = [batch EXCEPT ![r] = [t \in due |-> rule[t]]]
       /\ disturbed' = disturbed \cup
            {t \in due : \E h \in Requests : InHand(h, t)}
  /\ work' = [work EXCEPT ![r].at = "sweep"]
  /\ UNCHANGED <<task, rule, made, forked, holder, unlocked>>

Unread(t, r) == [Idle EXCEPT !.at = "unread", !.task = t, !.rule = r]

\* The sweep reads the task of the next rule.  Whatever error the read ends
\* with, it takes the task to be gone: a query that fails is no different.
NextItem(r, t) ==
  /\ work[r].at = "sweep"
  /\ t \in DOMAIN batch[r]
  /\ batch' = [batch EXCEPT ![r] = [u \in DOMAIN @ \ {t} |-> @[u]]]
  /\ \/ /\ Live(t)
        /\ work' = [work EXCEPT ![r] = Taken(t, task[t].status, batch[r][t])]
     \/ /\ Live(t) => Faults
        /\ work' = [work EXCEPT ![r] = Unread(t, batch[r][t])]
  /\ UNCHANGED <<task, rule, made, forked, disturbed, holder, unlocked>>

\* The rule of a task it could not read is deleted, which is nothing when the
\* task is gone (the rule went with it) and ends a live task's series.
RemoveUnread(r) ==
  /\ work[r].at = "unread"
  /\ rule' = [rule EXCEPT ![work[r].task] = None]
  /\ Done(r)
  /\ UNCHANGED <<task, made, forked, disturbed, sweeps>>

Released(r) == IF holder = r THEN None ELSE holder
NoItems == [t \in {} |-> None]

EndSweep(r) ==
  /\ work[r].at = "sweep" /\ DOMAIN batch[r] = {}
  /\ work' = [work EXCEPT ![r] = Idle]
  /\ holder' = Released(r)
  /\ UNCHANGED <<task, rule, made, forked, disturbed, batch, unlocked>>

\* The process dies, and its session, with the lock, ends.
Crash(r) ==
  /\ Faults
  /\ work[r].at # "idle"
  /\ work' = [work EXCEPT ![r] = Idle]
  /\ batch' = [batch EXCEPT ![r] = NoItems]
  /\ holder' = Released(r)
  /\ disturbed' = disturbed \cup ({work[r].task} \ {None})
  /\ UNCHANGED <<task, rule, made, forked, unlocked>>

\* The connection that holds the lock drops; the sweep uses others.
LockLost ==
  /\ Faults
  /\ holder # None
  /\ holder' = None
  /\ unlocked' = TRUE
  /\ UNCHANGED <<task, rule, made, work, forked, disturbed, batch>>

-----------------------------------------------------------------------------
Init ==
  /\ task = [t \in Tasks |->
       [at |-> IF t \in First THEN "live" ELSE "free", status |-> "todo",
        completed |-> FALSE, parent |-> None, of |-> 0]]
  /\ rule = [t \in Tasks |-> None]
  /\ made = 0
  /\ work = [w \in Workers |-> Idle]
  /\ batch = [r \in Replicas |-> NoItems]
  /\ holder = None
  /\ forked = {} /\ disturbed = {} /\ unlocked = FALSE

People ==
  \/ \E t \in Tasks, next \in {"none", "ahead", "due"}, max \in Limits,
       until \in Untils : SetRecurrence(t, next, max, until)
  \/ \E t \in Tasks : DeleteRecurrence(t) \/ DeleteTask(t)
  \/ \E t \in Tasks : DueDateComes(t) \/ UntilDateComes(t)
  \/ \E t \in Tasks, s \in {"todo", "done"} : AutomationSetsStatus(t, s)

Request(h) ==
  \/ \E t \in Tasks, s \in Patches : BeginUpdate(h, t, s)
  \/ Update(h) \/ ReadBack(h) \/ SpawnOnCompletion(h)

Spawning(w) ==
  \/ Expire(w)
  \/ \E c \in Tasks : Create(w, c)
  \/ CopyRule(w) \/ CommitMove(w) \/ CallFails(w)

Sweep(r) ==
  \/ StartSweep(r) \/ StartUnlocked(r) \/ ReadDue(r)
  \/ \E t \in Tasks : NextItem(r, t)
  \/ RemoveUnread(r) \/ EndSweep(r) \/ Crash(r)

Next ==
  \/ People
  \/ \E h \in Requests : Request(h)
  \/ \E w \in Workers : Spawning(w)
  \/ \E r \in Replicas : Sweep(r)
  \/ LockLost

Spec == Init /\ [][Next]_vars

-----------------------------------------------------------------------------
(* Properties.                                                             *)

TypeOK ==
  /\ task \in [Tasks -> Task]
  /\ rule \in [Tasks -> Rule \cup {None}]
  /\ made \in 0..MaxRules
  /\ work \in [Workers -> Work]
  /\ batch = [r \in Replicas |-> batch[r]]
  /\ \A r \in Replicas : \E due \in SUBSET Tasks : batch[r] \in [due -> Rule]
  /\ holder \in Replicas \cup {None}
  /\ forked \subseteq 1..MaxRules
  /\ disturbed \subseteq Tasks
  /\ unlocked \in BOOLEAN

\* A series never belongs to two tasks (README, recurrence.go:16-19), but for
\* one case: two transactions that both copied its rule before either
\* committed, which READ COMMITTED lets pass.
OneCarrier ==
  \A t, u \in Tasks :
    /\ Carries(t) /\ Carries(u) /\ t # u
    /\ rule[t].created = rule[u].created
    => rule[t].created \in forked

\* A rule calls for one successor of a task.  The exceptions: two requests
\* that finish it at once, or a request beside a sweep; a spawn that broke
\* off after creating the clone; sweeps that ran without the lock.  Two
\* replicas whose lock works are not among them.
OneSuccessor ==
  \A c, d \in Tasks :
    /\ c # d
    /\ task[c].parent # None /\ task[c].parent = task[d].parent
    /\ task[c].of = task[d].of
    => task[c].parent \in disturbed \/ unlocked

\* No worker makes a series stop silently (recurrence.go:100-103): a rule that
\* no task carries after a worker's step had come to its end, or was saved or
\* moved there while the worker had its task in hand, or is the one whose task
\* the sweep taking the step could not read.
SeriesEndsForAReason ==
  [][work' # work =>
       \A t \in Tasks :
         /\ Carries(t)
         /\ ~\E u \in Tasks :
               rule'[u] # None /\ rule'[u].created = rule[t].created
         => \/ Exhausted(rule[t]) \/ rule[t].touched
            \/ \E r \in Replicas :
                 /\ work[r].at = "unread" /\ work[r].task = t
                 /\ work'[r] # work[r]]_vars

\* next_run_at is NULL only for a rule driven by completion (0009:47-48), so
\* that the sweep finds every scheduled series; a mode saved while a worker had
\* the task in hand is the exception.
ScheduledHasItsMoment ==
  \A t \in Tasks :
    Carries(t) /\ rule[t].mode = "on_schedule" /\ rule[t].next = "none"
    => rule[t].touched

\* However a rule moves and is edited, its count stays within the largest limit
\* anybody gave it ("repeat 3 times" does not run four), unless the rule took
\* the place of another under a worker's hands.
CountWithinLimit ==
  \A t \in Tasks :
    Carries(t) => \/ rule[t].touched
                  \/ \E m \in Limits : rule[t].occurrences <= m

\* Whoever finishes a task of a completion-driven series, the series goes on:
\* no finished task keeps the rule, unless the rule was saved too late, an
\* automation finished the task, the request that finished it had read it as
\* finished already, or a call failed.
FinishedSeriesGoesOn ==
  \A t \in Tasks :
    /\ Carries(t) /\ rule[t].mode = "on_complete" /\ task[t].completed
    /\ \A h \in Requests : ~InHand(h, t)
    => rule[t].touched \/ t \in disturbed

\* "The new instance starts wherever the series was defined to start, not
\* wherever the finished one ended up. Re-opening in 'done' would be absurd"
\* (instantiate.go:89-90): what a worker is about to create is not done.
ClonesStartOpen ==
  \A w \in Workers : work[w].at = "create" => work[w].status # "done"
=============================================================================
