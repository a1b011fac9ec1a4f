-------------------------- MODULE RecurrenceProofs --------------------------
(***************************************************************************)
(* What Recurrence guarantees for any number of tasks, requests and        *)
(* replicas, whatever fails: a series has one carrier unless two           *)
(* transactions copied its rule at once, it ends for a reason, a scheduled *)
(* rule keeps its moment, the count stays within the limit, a finished     *)
(* task does not keep the rule, and a task has one successor.              *)
(*                                                                         *)
(* Workers act on what they read.  The invariant says what a stored rule   *)
(* still has in common with the copy a worker decided on: all that the     *)
(* decision rests on, or else it is `touched`.                             *)
(***************************************************************************)
EXTENDS Recurrence, TLAPS

Busy == {"update", "readback", "rule", "unread", "expire", "create", "move", "commit"}
Cloned == {"move", "commit"}

\* s, as stored, against r, as some worker read it.
Follows(s, r) ==
  \/ s.touched
  \/ /\ s.mode = r.mode /\ s.max = r.max /\ s.occurrences = r.occurrences
     /\ r.until = "past" => s.until = "past"

Sound(r) ==
  \/ r.touched
  \/ /\ r.mode = "on_schedule" => r.next # "none"
     /\ \E m \in Limits : r.occurrences <= m

\* A busy worker has a task, and from Create on a clone that is its own.
InOrder(w) ==
  /\ work[w].at \in Busy => work[w].task \in Tasks
  /\ work[w].at \in Cloned =>
       /\ work[w].clone \in Tasks
       /\ task[work[w].clone].at # "free"
       /\ w \in Replicas => work[w].clone \notin DOMAIN batch[w]

\* What it decided still goes for the rule it decided on.
Decided(w) ==
  /\ work[w].at \in {"expire", "create", "move"} =>
       /\ work[w].rule \in Rule
       /\ Carries(work[w].task) => Follows(rule[work[w].task], work[w].rule)
  /\ work[w].at = "expire" => Exhausted(work[w].rule)
  /\ work[w].at \in {"create", "move"} =>
       work[w].rule.occurrences < work[w].rule.max

\* An open transaction of MoveTo.
Copying(w) ==
  work[w].at = "commit" =>
    /\ Carries(work[w].task) =>
         \/ rule[work[w].task].touched
         \/ /\ work[w].rule # None
            /\ rule[work[w].task].created = work[w].rule.created
    /\ work[w].rule # None =>
         /\ Sound(work[w].rule)
         /\ work[w].rule.created <= made
         /\ Live(work[w].clone)
         /\ ~Carries(work[w].clone)

\* The same for the rules a sweep has read and not come to.
BatchRead(r) ==
  \A t \in DOMAIN batch[r] :
    /\ t \in Tasks
    /\ task[t].at # "free"
    /\ Carries(t) => Follows(rule[t], batch[r][t])

CarriersSound ==
  \A t \in Tasks :
    Carries(t) => Live(t) /\ rule[t].created <= made /\ Sound(rule[t])

ClonesApart ==
  \A v, w \in Workers :
    /\ v # w /\ work[v].at \in Cloned /\ work[w].at \in Cloned
    => work[v].clone # work[w].clone

\* A rule that is being moved once is where it is moved from, or nowhere.
Moving(w) == work[w].at = "commit" /\ work[w].rule # None

OneMove ==
  \A w \in Workers :
    Moving(w) /\ work[w].rule.created \notin forked =>
      /\ \A t \in Tasks :
           Carries(t) /\ rule[t].created = work[w].rule.created
           => t = work[w].task
      /\ \A v \in Workers \ {w} :
           Moving(v) => work[v].rule.created # work[w].rule.created

\* The inductive invariant.
IInv ==
  /\ TypeOK
  /\ \A w \in Workers : InOrder(w) /\ Decided(w) /\ Copying(w)
  /\ \A r \in Replicas : BatchRead(r)
  /\ CarriersSound
  /\ ClonesApart
  /\ OneCarrier
  /\ OneMove

-----------------------------------------------------------------------------
(* Operators.                                                              *)

LEMMA RestIsIdle ==
  ASSUME NEW w
  PROVE  /\ Rest(w) \in Work
         /\ Rest(w).at \in {"idle", "sweep"}
         /\ Rest(w).task = None /\ Rest(w).clone = None
  BY DEF Rest, Idle, Work

LEMMA IdleIsIdle == Idle \in Work /\ Idle.at = "idle"
  BY DEF Idle, Work

LEMMA TakenIsWork ==
  ASSUME NEW t \in Tasks, NEW s \in {"todo", "done"}, NEW r \in Rule
  PROVE  /\ Taken(t, s, r) \in Work
         /\ Taken(t, s, r).task = t
         /\ Taken(t, s, r).rule = r
         /\ Taken(t, s, r).at = IF Exhausted(r) THEN "expire" ELSE "create"
  BY DEF Taken, Idle, Work

LEMMA UnreadIsWork ==
  ASSUME NEW t \in Tasks, NEW r \in Rule
  PROVE  /\ Unread(t, r) \in Work
         /\ Unread(t, r).at = "unread" /\ Unread(t, r).task = t
         /\ Unread(t, r).rule = r /\ Unread(t, r).clone = None
  BY DEF Unread, Idle, Work

\* What a rule not exhausted has left.
LEMMA NotExhausted ==
  ASSUME NEW r \in Rule, ~Exhausted(r)
  PROVE  r.occurrences < r.max
  <1>1. r.max \in Nat /\ r.occurrences \in Nat
    BY RecurrenceAssumption DEF Rule
  <1> QED BY <1>1 DEF Exhausted

\* The row that a move inserts.
LEMMA CopiedIsRule ==
  ASSUME NEW r \in Rule, NEW read \in Rule
  PROVE  /\ Copied(r, read) \in Rule
         /\ Copied(r, read).occurrences = r.occurrences + 1
         /\ Copied(r, read).max = r.max /\ Copied(r, read).mode = r.mode
         /\ Copied(r, read).created = r.created
         /\ Copied(r, read).touched = r.touched
         /\ Copied(r, read).next = NextMoment(read)
  <1>1. r # None
    BY NoneIsNoRule
  <1>2. Copied(r, read) =
          [r EXCEPT !.occurrences = r.occurrences + 1, !.next = NextMoment(read)]
    BY <1>1 DEF Copied
  <1>3. NextMoment(read) \in {"none", "ahead", "due"}
    BY DEF NextMoment
  <1>4. r.occurrences + 1 \in Nat \ {0}
    BY DEF Rule
  <1> QED BY <1>2, <1>3, <1>4 DEF Rule

LEMMA FollowsIsTransitive ==
  ASSUME NEW r \in Rule, NEW s \in Rule, NEW u \in Rule,
         Follows(s, r), s.touched => u.touched, Follows(u, s)
  PROVE  Follows(u, r)
  BY DEF Follows

\* One worker's record is replaced.
LEMMA Replaced ==
  ASSUME TypeOK, NEW w \in Workers, NEW x \in Work,
         work' = [work EXCEPT ![w] = x]
  PROVE  /\ work' \in [Workers -> Work]
         /\ work'[w] = x
         /\ \A v \in Workers \ {w} : work'[v] = work[v]
  BY DEF TypeOK

-----------------------------------------------------------------------------
(* Bystanders: what a step must leave alone for the workers it is not of.  *)

\* A rule of a task that v has in hand changes only in ways v may not care for.
RulesInHandKept(v) ==
  \A t \in Tasks :
    InHand(v, t) /\ rule'[t] # None =>
      \/ rule'[t].touched
      \/ /\ Carries(t)
         /\ Follows(rule'[t], rule[t])
         /\ rule[t].touched => rule'[t].touched
         /\ rule'[t].created = rule[t].created

\* The clone of an open transaction is locked.
CloneKept(v) ==
  Moving(v) =>
    task'[work[v].clone].at = "live" /\ rule'[work[v].clone] = None

LEMMA Bystander ==
  ASSUME IInv, TypeOK', NEW v \in Workers,
         work'[v] = work[v],
         v \in Replicas => batch'[v] = batch[v],
         \A t \in Tasks : task[t].at # "free" => task'[t].at # "free",
         made <= made',
         RulesInHandKept(v), CloneKept(v)
  PROVE  /\ InOrder(v)' /\ Decided(v)' /\ Copying(v)'
         /\ v \in Replicas => BatchRead(v)'
  <1>1. InOrder(v)'
    BY DEF IInv, InOrder
  <1>2. Decided(v)'
    <2>1. ASSUME work[v].at \in {"expire", "create", "move"},
                 rule'[work[v].task] # None
          PROVE  Follows(rule'[work[v].task], work[v].rule)
      <3> DEFINE t == work[v].task
      <3>1. t \in Tasks /\ InHand(v, t)
        BY <2>1 DEF IInv, InOrder, Busy, InHand
      <3>2. rule'[t] \in Rule /\ work[v].rule \in Rule
        BY <2>1, <3>1 DEF IInv, Decided, TypeOK
      <3>3. CASE rule'[t].touched
        BY <3>3 DEF Follows
      <3>4. CASE /\ Carries(t) /\ Follows(rule'[t], rule[t])
                 /\ rule[t].touched => rule'[t].touched
        <4>1. rule[t] \in Rule /\ Follows(rule[t], work[v].rule)
          BY <2>1, <3>1, <3>4 DEF IInv, Decided, TypeOK, Carries
        <4> QED BY <3>2, <3>4, <4>1, FollowsIsTransitive
      <3> QED BY <2>1, <3>1, <3>3, <3>4 DEF RulesInHandKept
    <2> QED BY <2>1 DEF IInv, Decided, Carries
  <1>3. Copying(v)'
    <2>1. ASSUME work[v].at = "commit", rule'[work[v].task] # None
          PROVE  \/ rule'[work[v].task].touched
                 \/ /\ work[v].rule # None
                    /\ rule'[work[v].task].created = work[v].rule.created
      <3>1. work[v].task \in Tasks /\ InHand(v, work[v].task)
        BY <2>1 DEF IInv, InOrder, Busy, InHand
      <3> QED BY <2>1, <3>1 DEF RulesInHandKept, IInv, Copying, Carries
    <2>2. ASSUME work[v].at = "commit", work[v].rule # None
          PROVE  /\ Sound(work[v].rule)
                 /\ work[v].rule.created <= made'
                 /\ task'[work[v].clone].at = "live"
                 /\ rule'[work[v].clone] = None
      <3>1. work[v].rule \in Rule /\ work[v].rule.created \in Nat
        <4>1. work[v] \in Work
          BY DEF IInv, TypeOK
        <4>2. work[v].rule \in Rule
          BY <2>2, <4>1 DEF Work
        <4> QED BY <4>2, RecurrenceAssumption DEF Rule
      <3>2. made \in Nat /\ made' \in Nat
        BY RecurrenceAssumption DEF IInv, TypeOK
      <3>3. work[v].rule.created <= made'
        BY <2>2, <3>1, <3>2 DEF IInv, Copying
      <3> QED BY <2>2, <3>3 DEF IInv, Copying, CloneKept, Moving
    <2> QED BY <2>1, <2>2 DEF Copying, Carries, Live, Sound
  <1>4. ASSUME v \in Replicas
        PROVE  BatchRead(v)'
    <2> SUFFICES ASSUME NEW t \in DOMAIN batch[v]
                 PROVE  /\ t \in Tasks
                        /\ task'[t].at # "free"
                        /\ rule'[t] # None => Follows(rule'[t], batch[v][t])
      BY <1>4 DEF BatchRead, Carries
    <2>1. t \in Tasks /\ InHand(v, t) /\ task[t].at # "free"
      BY <1>4 DEF IInv, BatchRead, InHand
    <2>2. batch[v][t] \in Rule
      BY <1>4 DEF IInv, TypeOK
    <2>3. ASSUME rule'[t] # None
          PROVE  Follows(rule'[t], batch[v][t])
      <3>1. rule'[t] \in Rule
        BY <2>1, <2>3 DEF TypeOK
      <3>2. CASE rule'[t].touched
        BY <3>2 DEF Follows
      <3>3. CASE /\ Carries(t) /\ Follows(rule'[t], rule[t])
                 /\ rule[t].touched => rule'[t].touched
        <4>1. rule[t] \in Rule /\ Follows(rule[t], batch[v][t])
          BY <1>4, <2>1, <3>3 DEF IInv, BatchRead, TypeOK, Carries
        <4> QED BY <2>2, <3>1, <3>3, <4>1, FollowsIsTransitive
      <3> QED BY <2>1, <2>3, <3>2, <3>3 DEF RulesInHandKept
    <2> QED BY <2>1, <2>3
  <1> QED BY <1>1, <1>2, <1>3, <1>4

\* A step of worker w that changes no rule: what is left to show is about w.
QuietStep(w) ==
  /\ UNCHANGED <<rule, made>>
  /\ \A v \in Workers \ {w} :
       work'[v] = work[v] /\ (v \in Replicas => batch'[v] = batch[v])
  /\ \A t \in Tasks : task[t].at # "free" => task'[t].at = task[t].at

\* ... which is, in order: its own part of the invariant, and that it shares no
\* clone.
OwnPart(w) ==
  /\ InOrder(w)' /\ Decided(w)' /\ Copying(w)'
  /\ w \in Replicas => BatchRead(w)'
  /\ \A v \in Workers \ {w} :
       work'[w].at \in Cloned /\ work[v].at \in Cloned
       => work'[w].clone # work[v].clone

LEMMA QuietSteps ==
  ASSUME IInv, TypeOK', NEW w \in Workers, QuietStep(w), OwnPart(w), OneMove'
  PROVE  OneCarrier' /\ forked \subseteq forked' => IInv'
  <1>1. ASSUME NEW v \in Workers \ {w}
        PROVE  /\ InOrder(v)' /\ Decided(v)' /\ Copying(v)'
               /\ v \in Replicas => BatchRead(v)'
    <2>1. RulesInHandKept(v)
      BY DEF QuietStep, RulesInHandKept, Carries, Follows
    <2>2. CloneKept(v)
      <3> SUFFICES ASSUME Moving(v)
                   PROVE  task'[work[v].clone].at = "live" /\ rule'[work[v].clone] = None
        BY DEF CloneKept
      <3>1. work[v].clone \in Tasks /\ Live(work[v].clone) /\ ~Carries(work[v].clone)
        BY DEF IInv, InOrder, Copying, Moving, Cloned
      <3> QED BY <3>1 DEF QuietStep, Live, Carries
    <2>3. made <= made'
      BY RecurrenceAssumption DEF QuietStep, IInv, TypeOK
    <2>4. \A t \in Tasks : task[t].at # "free" => task'[t].at # "free"
      BY DEF QuietStep
    <2>5. work'[v] = work[v] /\ (v \in Replicas => batch'[v] = batch[v])
      BY DEF QuietStep
    <2> QED BY <2>1, <2>2, <2>3, <2>4, <2>5, Bystander
  <1>2. \A v \in Workers : InOrder(v)' /\ Decided(v)' /\ Copying(v)'
    BY <1>1 DEF OwnPart
  <1>3. \A r \in Replicas : BatchRead(r)'
    BY <1>1 DEF OwnPart, Workers
  <1>4. CarriersSound'
    BY DEF QuietStep, IInv, CarriersSound, Carries, Live, Sound
  <1>5. ClonesApart'
    BY DEF QuietStep, OwnPart, IInv, ClonesApart
  <1> QED BY <1>2, <1>3, <1>4, <1>5 DEF IInv

LEMMA QuietAndNotCommitting ==
  ASSUME IInv, TypeOK', NEW w \in Workers, QuietStep(w), OwnPart(w),
         forked' = forked, work'[w].at # "commit"
  PROVE  IInv'
  <1>1. OneCarrier'
    BY DEF QuietStep, IInv, OneCarrier, Carries
  <1>2. OneMove'
    BY DEF QuietStep, IInv, OneMove, Moving, Carries
  <1> QED BY <1>1, <1>2, QuietSteps

\* A worker that reads or drops rules of its batch.
LEMMA BatchShrinks ==
  ASSUME IInv, NEW w \in Replicas, QuietStep(w),
         \A t \in DOMAIN batch'[w] :
           t \in DOMAIN batch[w] /\ batch'[w][t] = batch[w][t]
  PROVE  BatchRead(w)'
  BY DEF QuietStep, IInv, BatchRead, Carries

\* A worker that is through with its task.
LEMMA Resting ==
  ASSUME IInv, TypeOK', NEW w \in Workers, QuietStep(w), forked' = forked,
         work'[w].at \in {"idle", "locked", "sweep"},
         w \in Replicas => BatchRead(w)'
  PROVE  IInv'
  <1>1. OwnPart(w)
    BY DEF OwnPart, InOrder, Decided, Copying, Busy, Cloned
  <1> QED BY <1>1, QuietAndNotCommitting

LEMMA SameBatch ==
  ASSUME IInv, NEW w \in Workers, QuietStep(w), batch' = batch
  PROVE  w \in Replicas => BatchRead(w)'
  BY BatchShrinks

-----------------------------------------------------------------------------
(* The steps that change no rule.                                          *)

LEMMA DoneKeepsInvariant ==
  ASSUME IInv, NEW w \in Workers, Done(w), task' = task, disturbed' \subseteq Tasks,
         UNCHANGED <<rule, made, forked, batch, holder, unlocked>>
  PROVE  IInv'
  <1>1. /\ work' \in [Workers -> Work] /\ work'[w] = Rest(w)
        /\ \A v \in Workers \ {w} : work'[v] = work[v]
    BY RestIsIdle, Replaced DEF Done, IInv
  <1>2. TypeOK'
    BY <1>1 DEF IInv, TypeOK
  <1>3. QuietStep(w)
    BY <1>1 DEF QuietStep
  <1> QED BY <1>1, <1>2, <1>3, RestIsIdle, SameBatch, Resting

LEMMA UpdatedIsTask ==
  ASSUME TypeOK, NEW t \in Tasks, NEW s \in {"none", "todo", "done"}
  PROVE  /\ Updated(t, s) \in [Tasks -> Task]
         /\ \A u \in Tasks : Updated(t, s)[u].at = task[u].at
  <1>1. CASE s = "none"
    BY <1>1 DEF Updated, TypeOK
  <1>2. CASE s # "none"
    <2> DEFINE x == [task[t] EXCEPT !.status = s, !.completed = (s = "done")]
    <2>1. task[t] \in Task /\ s \in {"todo", "done"} /\ (s = "done") \in BOOLEAN
      BY <1>2 DEF TypeOK
    <2>2. x \in Task /\ x.at = task[t].at
      BY <2>1 DEF Task
    <2>3. Updated(t, s) = [task EXCEPT ![t] = x]
      BY <1>2 DEF Updated
    <2> QED BY <2>2, <2>3 DEF TypeOK
  <1> QED BY <1>1, <1>2

LEMMA AutomationKeepsInvariant ==
  ASSUME IInv, NEW t \in Tasks, NEW s \in {"todo", "done"},
         AutomationSetsStatus(t, s)
  PROVE  IInv'
  <1>1. PICK w \in Workers : TRUE
    BY RecurrenceAssumption DEF Workers
  <1>2. task' \in [Tasks -> Task] /\ \A u \in Tasks : task'[u].at = task[u].at
    BY UpdatedIsTask DEF AutomationSetsStatus, IInv
  <1>3. UNCHANGED <<rule, made, work, forked, batch, holder, unlocked>>
    BY DEF AutomationSetsStatus, sweeps
  <1>4. TypeOK'
    BY <1>2, <1>3 DEF AutomationSetsStatus, IInv, TypeOK
  <1>5. QuietStep(w)
    BY <1>2, <1>3 DEF QuietStep
  <1>6. OwnPart(w)
    <2>1. InOrder(w)' /\ Decided(w)' /\ Copying(w)'
      BY <1>2, <1>3 DEF IInv, InOrder, Decided, Copying, Carries, Live, Busy, Cloned, Sound, Follows, Exhausted
    <2>2. w \in Replicas => BatchRead(w)'
      BY <1>3, <1>5, SameBatch
    <2> QED BY <1>3, <2>1, <2>2 DEF OwnPart, IInv, ClonesApart
  <1>7. OneCarrier' /\ OneMove'
    BY <1>3 DEF IInv, OneCarrier, OneMove, Moving, Carries
  <1> QED BY <1>3, <1>4, <1>5, <1>6, <1>7, QuietSteps

LEMMA BeginUpdateKeepsInvariant ==
  ASSUME IInv, NEW h \in Requests, NEW t \in Tasks, NEW s \in Patches,
         BeginUpdate(h, t, s)
  PROVE  IInv'
  <1> DEFINE x == [Idle EXCEPT !.at = "update", !.task = t,
                               !.was = task[t].completed, !.patch = s]
  <1>1. h \in Workers /\ s \in {"none", "todo", "done"} /\ task[t].completed \in BOOLEAN
    BY RecurrenceAssumption DEF Workers, IInv, TypeOK, Task
  <1>2. x \in Work /\ x.at = "update" /\ x.task = t
    BY <1>1 DEF Idle, Work
  <1>3. /\ work' \in [Workers -> Work] /\ work'[h] = x
        /\ \A v \in Workers \ {h} : work'[v] = work[v]
    BY <1>1, <1>2, Replaced DEF BeginUpdate, IInv
  <1>4. UNCHANGED <<task, rule, made, forked, batch, holder, unlocked>>
    BY DEF BeginUpdate, sweeps
  <1>5. TypeOK'
    BY <1>3, <1>4 DEF BeginUpdate, IInv, TypeOK
  <1>6. QuietStep(h)
    BY <1>3, <1>4 DEF QuietStep
  <1>7. OwnPart(h)
    BY <1>1, <1>2, <1>3, <1>4, <1>6, SameBatch
    DEF OwnPart, InOrder, Decided, Copying, Busy, Cloned
  <1> QED BY <1>1, <1>2, <1>3, <1>4, <1>5, <1>6, <1>7, QuietAndNotCommitting

LEMMA UpdateKeepsInvariant ==
  ASSUME IInv, NEW h \in Requests, Update(h)
  PROVE  IInv'
  <1> DEFINE t == work[h].task
             x == [work[h] EXCEPT !.at = "readback", !.patch = "none"]
  <1>1. h \in Workers /\ work[h] \in Work /\ t \in Tasks /\ work[h].at = "update"
    BY DEF Workers, Update, IInv, TypeOK, InOrder, Busy
  <1>2. CASE Live(t)
    <2>1. x \in Work /\ x.at = "readback" /\ x.task = t
      BY <1>1 DEF Work
    <2>2. work' = [work EXCEPT ![h] = x] /\ task' = Updated(t, work[h].patch)
      BY <1>2 DEF Update
    <2>3. /\ work' \in [Workers -> Work] /\ work'[h] = x
          /\ \A v \in Workers \ {h} : work'[v] = work[v]
      BY <1>1, <2>1, <2>2, Replaced DEF IInv
    <2>4. work[h].patch \in {"none", "todo", "done"}
      BY <1>1 DEF Work
    <2>5. task' \in [Tasks -> Task] /\ \A u \in Tasks : task'[u].at = task[u].at
      BY <1>1, <2>2, <2>4, UpdatedIsTask DEF IInv
    <2>6. UNCHANGED <<rule, made, forked, batch, holder, unlocked>>
      BY DEF Update, sweeps
    <2>7. disturbed' \subseteq Tasks
      BY <1>1, <1>2 DEF Update, IInv, TypeOK
    <2>8. TypeOK'
      BY <2>3, <2>5, <2>6, <2>7 DEF IInv, TypeOK
    <2>9. QuietStep(h)
      BY <2>3, <2>5, <2>6 DEF QuietStep
    <2>10. OwnPart(h)
      BY <1>1, <2>1, <2>3, <2>6, <2>9, SameBatch
      DEF OwnPart, InOrder, Decided, Copying, Busy, Cloned
    <2> QED BY <1>1, <2>1, <2>3, <2>6, <2>8, <2>9, <2>10, QuietAndNotCommitting
  <1>3. CASE ~Live(t)
    BY <1>1, <1>3, DoneKeepsInvariant DEF Update, IInv, TypeOK, sweeps
  <1> QED BY <1>2, <1>3

LEMMA ReadBackKeepsInvariant ==
  ASSUME IInv, NEW h \in Requests, ReadBack(h)
  PROVE  IInv'
  <1> DEFINE t == work[h].task
             x == [work[h] EXCEPT !.at = "rule", !.status = task[t].status]
  <1>1. h \in Workers /\ work[h] \in Work /\ t \in Tasks /\ task[t].status \in {"todo", "done"}
    BY DEF Workers, ReadBack, IInv, TypeOK, InOrder, Busy, Task
  <1>2. UNCHANGED <<task, rule, made, forked, disturbed, batch, holder, unlocked>>
    BY DEF ReadBack, sweeps
  <1>3. CASE Done(h)
    BY <1>1, <1>2, <1>3, DoneKeepsInvariant DEF IInv, TypeOK
  <1>4. CASE work' = [work EXCEPT ![h] = x]
    <2>1. x \in Work /\ x.at = "rule" /\ x.task = t
      BY <1>1 DEF Work
    <2>2. /\ work' \in [Workers -> Work] /\ work'[h] = x
          /\ \A v \in Workers \ {h} : work'[v] = work[v]
      BY <1>1, <1>4, <2>1, Replaced DEF IInv
    <2>3. TypeOK'
      BY <1>2, <2>2 DEF IInv, TypeOK
    <2>4. QuietStep(h)
      BY <1>2, <2>2 DEF QuietStep
    <2>5. OwnPart(h)
      BY <1>1, <1>2, <2>1, <2>2, <2>4, SameBatch
      DEF OwnPart, InOrder, Decided, Copying, Busy, Cloned
    <2> QED BY <1>1, <1>2, <2>1, <2>2, <2>3, <2>4, <2>5, QuietAndNotCommitting
  <1> QED BY <1>3, <1>4 DEF ReadBack

\* A worker that has just read its rule, or takes it from its batch.
LEMMA TakingKeepsInvariant ==
  ASSUME IInv, TypeOK', NEW w \in Workers, NEW t \in Tasks, NEW s \in {"todo", "done"},
         NEW r \in Rule, work'[w] = Taken(t, s, r), QuietStep(w), forked' = forked,
         Carries(t) => Follows(rule[t], r),
         w \in Replicas => BatchRead(w)'
  PROVE  IInv'
  <1>1. /\ work'[w].task = t /\ work'[w].rule = r
        /\ work'[w].at = IF Exhausted(r) THEN "expire" ELSE "create"
    BY TakenIsWork
  <1>2. Decided(w)'
    BY <1>1, NotExhausted DEF Decided, QuietStep, Carries, Exhausted, Follows
  <1>3. OwnPart(w)
    BY <1>1, <1>2 DEF OwnPart, InOrder, Copying, Busy, Cloned
  <1> QED BY <1>1, <1>3, QuietAndNotCommitting

LEMMA SpawnOnCompletionKeepsInvariant ==
  ASSUME IInv, NEW h \in Requests, SpawnOnCompletion(h)
  PROVE  IInv'
  <1> DEFINE t == work[h].task
             x == Taken(t, work[h].status, rule[t])
  <1>1. h \in Workers /\ work[h] \in Work /\ t \in Tasks
    BY DEF Workers, SpawnOnCompletion, IInv, TypeOK, InOrder, Busy
  <1>2. UNCHANGED <<task, rule, made, forked, disturbed, batch, holder, unlocked>>
    BY DEF SpawnOnCompletion, sweeps
  <1>3. CASE Done(h)
    BY <1>1, <1>2, <1>3, DoneKeepsInvariant DEF IInv, TypeOK
  <1>4. CASE Carries(t) /\ work' = [work EXCEPT ![h] = x]
    <2>1. rule[t] \in Rule /\ work[h].status \in {"todo", "done"}
      BY <1>1, <1>4 DEF IInv, TypeOK, Work, Carries
    <2>2. x \in Work
      BY <1>1, <2>1, TakenIsWork
    <2>3. /\ work' \in [Workers -> Work] /\ work'[h] = x
          /\ \A v \in Workers \ {h} : work'[v] = work[v]
      BY <1>1, <1>4, <2>2, Replaced DEF IInv
    <2>4. TypeOK'
      BY <1>2, <2>3 DEF IInv, TypeOK
    <2>5. QuietStep(h)
      BY <1>2, <2>3 DEF QuietStep
    <2>6. Follows(rule[t], rule[t])
      BY DEF Follows
    <2>7. h \in Replicas => BatchRead(h)'
      BY <1>1, <1>2, <2>5, SameBatch
    <2> QED BY <1>1, <1>2, <2>1, <2>3, <2>4, <2>5, <2>6, <2>7, TakingKeepsInvariant
  <1> QED BY <1>3, <1>4 DEF SpawnOnCompletion

LEMMA CreateKeepsInvariant ==
  ASSUME IInv, NEW w \in Workers, NEW c \in Tasks, Create(w, c)
  PROVE  IInv'
  <1> DEFINE x == [work[w] EXCEPT !.at = "move", !.clone = c]
             y == [at |-> "live", status |-> work[w].status, completed |-> FALSE,
                   parent |-> work[w].task, of |-> work[w].rule.created]
  <1>1. work[w] \in Work /\ work[w].at = "create" /\ work[w].task \in Tasks
        /\ work[w].rule \in Rule
    BY DEF Create, IInv, TypeOK, InOrder, Decided, Busy
  <1>2. x \in Work /\ x.at = "move" /\ x.clone = c
        /\ x.task = work[w].task /\ x.rule = work[w].rule
    BY <1>1 DEF Work
  <1>3. /\ work' \in [Workers -> Work] /\ work'[w] = x
        /\ \A v \in Workers \ {w} : work'[v] = work[v]
    BY <1>2, Replaced DEF Create, IInv
  <1>4. UNCHANGED <<rule, made, forked, disturbed, batch, holder, unlocked>>
    BY DEF Create, sweeps
  <1>5. y \in Task
    <2>1. work[w].status \in {"todo", "done"}
      BY <1>1 DEF Work
    <2>2. work[w].rule.created \in 0..MaxRules
      BY <1>1, RecurrenceAssumption DEF Rule
    <2> QED BY <1>1, <2>1, <2>2 DEF Task
  <1>6. /\ task' \in [Tasks -> Task] /\ task'[c].at = "live"
        /\ \A t \in Tasks \ {c} : task'[t] = task[t]
    BY <1>5 DEF Create, IInv, TypeOK
  <1>7. TypeOK'
    BY <1>3, <1>4, <1>6 DEF IInv, TypeOK
  <1>8. QuietStep(w) /\ task[c].at = "free"
    BY <1>3, <1>4, <1>6 DEF QuietStep, Create
  <1>9. InOrder(w)'
    <2>1. w \in Replicas => c \notin DOMAIN batch[w]
      BY <1>8 DEF IInv, BatchRead
    <2> QED BY <1>1, <1>2, <1>3, <1>4, <1>6, <2>1 DEF InOrder
  <1>10. Decided(w)' /\ Copying(w)'
    BY <1>1, <1>2, <1>3, <1>4 DEF IInv, Decided, Copying, Carries, Follows
  <1>11. \A v \in Workers \ {w} : work[v].at \in Cloned => work[v].clone # c
    BY <1>8 DEF IInv, InOrder
  <1>12. OwnPart(w)
    BY <1>2, <1>3, <1>4, <1>8, <1>9, <1>10, <1>11, SameBatch DEF OwnPart
  <1> QED BY <1>2, <1>3, <1>4, <1>7, <1>8, <1>12, QuietAndNotCommitting

\* The copy is sound because the worker decided on a rule with an occurrence
\* left, and the stored rule still has the count and the mode it read.
LEMMA CopiedIsSound ==
  ASSUME NEW r \in Rule, NEW read \in Rule,
         Follows(r, read), read.occurrences < read.max
  PROVE  Sound(Copied(r, read))
  <1>1. CASE r.touched
    BY <1>1, CopiedIsRule DEF Sound
  <1>2. CASE ~r.touched
    <2>1. r.mode = read.mode /\ r.max = read.max /\ r.occurrences = read.occurrences
      BY <1>2 DEF Follows
    <2>2. r.max \in Limits /\ r.max \in Nat /\ r.occurrences \in Nat
      BY RecurrenceAssumption DEF Rule
    <2>3. Copied(r, read).occurrences <= r.max
      BY <2>1, <2>2, CopiedIsRule
    <2>4. Copied(r, read).mode = "on_schedule" => Copied(r, read).next # "none"
      BY <2>1, CopiedIsRule DEF NextMoment
    <2> QED BY <2>2, <2>3, <2>4 DEF Sound
  <1> QED BY <1>1, <1>2

LEMMA CopyRuleKeepsInvariant ==
  ASSUME IInv, NEW w \in Workers, CopyRule(w)
  PROVE  IInv'
  <1> DEFINE t == work[w].task
             r == rule[t]
             copy == Copied(r, work[w].rule)
             x == [work[w] EXCEPT !.at = "commit", !.rule = copy]
  <1>1. /\ work[w] \in Work /\ work[w].at = "move" /\ t \in Tasks
        /\ work[w].clone \in Tasks /\ work[w].rule \in Rule
        /\ work[w].rule.occurrences < work[w].rule.max
        /\ r \in Rule \cup {None}
    BY DEF CopyRule, IInv, TypeOK, InOrder, Decided, Busy, Cloned
  <1>2. UNCHANGED <<task, rule, made, batch, holder, unlocked>>
    BY DEF CopyRule, sweeps
  <1>3. CASE MoveFails(w)
    BY <1>1, <1>2, <1>3, DoneKeepsInvariant DEF CopyRule, IInv, TypeOK
  <1>4. CASE ~MoveFails(w)
    <2>1. /\ copy = None => r = None
          /\ r = None => copy = None
          /\ r # None => /\ copy \in Rule
                         /\ copy.created = r.created
                         /\ Sound(copy)
      <3>1. CASE r = None
        BY <3>1 DEF Copied
      <3>2. CASE r # None
        <4>1. Follows(r, work[w].rule)
          BY <1>1, <3>2 DEF IInv, Decided, Carries
        <4> QED BY <1>1, <3>2, <4>1, CopiedIsRule, CopiedIsSound, NoneIsNoRule
      <3> QED BY <3>1, <3>2
    <2>2. x \in Work /\ x.at = "commit" /\ x.task = t /\ x.rule = copy
          /\ x.clone = work[w].clone
      <3>1. copy \in Rule \cup {None}
        BY <2>1
      <3> HIDE DEF copy
      <3> QED BY <1>1, <3>1 DEF Work
    <2>3. work' = [work EXCEPT ![w] = x]
      BY <1>4 DEF CopyRule
    <2>4. /\ work' \in [Workers -> Work] /\ work'[w] = x
          /\ \A v \in Workers \ {w} : work'[v] = work[v]
      BY <2>2, <2>3, Replaced DEF IInv
    <2>5. /\ forked \subseteq forked' /\ forked' \subseteq 1..MaxRules
          /\ disturbed' = disturbed
          /\ r # None /\ r.created \notin forked' =>
               \A v \in Workers \ {w} :
                 Moving(v) => work[v].rule.created # r.created
      BY <1>1, <1>4 DEF CopyRule, IInv, TypeOK, Rule, Moving
    <2>6. TypeOK'
      BY <1>2, <2>4, <2>5 DEF IInv, TypeOK
    <2>7. QuietStep(w)
      BY <1>2, <2>4 DEF QuietStep
    <2>8. InOrder(w)' /\ Decided(w)'
      BY <1>1, <1>2, <2>2, <2>4 DEF IInv, InOrder, Decided, Busy, Cloned
    <2>9. Copying(w)'
      <3>1. r # None => /\ Live(work[w].clone) /\ ~Carries(work[w].clone)
                        /\ r.created <= made
        BY <1>1, <1>4 DEF MoveFails, IInv, CarriersSound, Carries
      <3>2. work'[w].rule = copy /\ work'[w].task = t /\ work'[w].clone = work[w].clone
        BY <2>2, <2>4
      <3> HIDE DEF copy
      <3> QED BY <1>2, <2>1, <3>1, <3>2 DEF Copying, Carries, Live, Sound
    <2>10. OwnPart(w)
      BY <1>1, <1>2, <2>2, <2>4, <2>7, <2>8, <2>9, SameBatch
      DEF OwnPart, IInv, ClonesApart, Cloned
    <2>11. OneCarrier'
      BY <1>2, <2>5 DEF IInv, OneCarrier, Carries
    <2>12. OneMove'
      <3>1. \A v \in Workers \ {w} : Moving(v)' <=> Moving(v)
        BY <2>4 DEF Moving
      <3>2. Moving(w)' => r # None /\ work'[w].rule.created = r.created /\ work'[w].task = t
        BY <2>1, <2>2, <2>4 DEF Moving
      <3> SUFFICES ASSUME NEW v \in Workers, Moving(v)', work'[v].rule.created \notin forked'
                   PROVE  /\ \A u \in Tasks :
                               Carries(u) /\ rule[u].created = work'[v].rule.created
                               => u = work'[v].task
                          /\ \A z \in Workers \ {v} :
                               Moving(z)' => work'[z].rule.created # work'[v].rule.created
        BY <1>2 DEF OneMove, Carries
      <3>3. CASE v = w
        <4>1. \A u \in Tasks : Carries(u) /\ rule[u].created = r.created => u = t
          BY <1>1, <2>5, <3>2, <3>3 DEF IInv, OneCarrier, Carries
        <4> QED BY <2>4, <2>5, <3>1, <3>2, <3>3, <4>1
      <3>4. CASE v # w
        <4>1. /\ Moving(v) /\ work'[v] = work[v] /\ work[v].rule.created \notin forked
              /\ work[v].rule.created \notin forked'
          BY <2>4, <2>5, <3>1, <3>4
        <4>2. Moving(w)' => work[v].rule.created # r.created
          BY <2>5, <3>2, <3>4, <4>1
        <4>3. /\ \A u \in Tasks :
                    Carries(u) /\ rule[u].created = work[v].rule.created
                    => u = work[v].task
              /\ \A z \in Workers \ {v} :
                    Moving(z) => work[z].rule.created # work[v].rule.created
          BY <4>1 DEF IInv, OneMove
        <4>4. ASSUME NEW z \in Workers \ {v}, Moving(z)'
              PROVE  work'[z].rule.created # work[v].rule.created
          <5>1. CASE z = w
            BY <3>2, <4>2, <4>4, <5>1
          <5>2. CASE z # w
            BY <2>4, <3>1, <4>3, <4>4, <5>2
          <5> QED BY <5>1, <5>2
        <4> QED BY <4>1, <4>3, <4>4
      <3> QED BY <3>3, <3>4
    <2> QED BY <2>5, <2>6, <2>7, <2>10, <2>11, <2>12, QuietSteps
  <1> QED BY <1>3, <1>4

LEMMA CallFailsKeepsInvariant ==
  ASSUME IInv, NEW w \in Workers, CallFails(w)
  PROVE  IInv'
  <1>1. work[w].task \in Tasks
    BY DEF CallFails, IInv, TypeOK, Work
  <1> QED BY <1>1, DoneKeepsInvariant DEF CallFails, sweeps, IInv, TypeOK

LEMMA StartKeepsInvariant ==
  ASSUME IInv, NEW r \in Replicas, StartSweep(r) \/ StartUnlocked(r)
  PROVE  IInv'
  <1> DEFINE x == [work[r] EXCEPT !.at = "locked"]
  <1>1. r \in Workers /\ x \in Work /\ x.at = "locked"
    <2>1. r \in Workers /\ work[r] \in Work
      BY DEF Workers, IInv, TypeOK
    <2> QED BY <2>1 DEF Work
  <1>2. work' = [work EXCEPT ![r] = x]
    BY DEF StartSweep, StartUnlocked
  <1>3. /\ work' \in [Workers -> Work] /\ work'[r] = x
        /\ \A v \in Workers \ {r} : work'[v] = work[v]
    BY <1>1, <1>2, Replaced DEF IInv
  <1>4. UNCHANGED <<task, rule, made, forked, disturbed, batch>>
    BY DEF StartSweep, StartUnlocked
  <1>5. holder' \in Replicas \cup {None} /\ unlocked' \in BOOLEAN
    BY DEF StartSweep, StartUnlocked, IInv, TypeOK
  <1>6. TypeOK'
    BY <1>3, <1>4, <1>5 DEF IInv, TypeOK
  <1>7. QuietStep(r)
    BY <1>3, <1>4 DEF QuietStep
  <1> QED BY <1>1, <1>3, <1>4, <1>6, <1>7, SameBatch, Resting

LEMMA ReadDueKeepsInvariant ==
  ASSUME IInv, NEW r \in Replicas, ReadDue(r)
  PROVE  IInv'
  <1> DEFINE x == [work[r] EXCEPT !.at = "sweep"]
  <1>1. r \in Workers /\ x \in Work /\ x.at = "sweep"
    <2>1. r \in Workers /\ work[r] \in Work
      BY DEF Workers, IInv, TypeOK
    <2> QED BY <2>1 DEF Work
  <1>2. work' = [work EXCEPT ![r] = x]
    BY DEF ReadDue
  <1>3. /\ work' \in [Workers -> Work] /\ work'[r] = x
        /\ \A v \in Workers \ {r} : work'[v] = work[v]
    BY <1>1, <1>2, Replaced DEF IInv
  <1>4. UNCHANGED <<task, rule, made, forked, holder, unlocked>>
    BY DEF ReadDue
  <1>5. PICK due \in SUBSET {t \in Tasks : Due(t)} :
          /\ batch' = [batch EXCEPT ![r] = [t \in due |-> rule[t]]]
          /\ disturbed' \subseteq disturbed \cup due
    BY DEF ReadDue
  <1>6. /\ batch'[r] = [t \in due |-> rule[t]]
        /\ \A q \in Replicas \ {r} : batch'[q] = batch[q]
        /\ batch' = [q \in Replicas |-> batch'[q]]
    BY <1>5 DEF IInv, TypeOK
  <1>7. due \in SUBSET Tasks /\ batch'[r] \in [due -> Rule]
    BY <1>5, <1>6 DEF Due, Carries, IInv, TypeOK
  <1>8. TypeOK'
    <2>1. \A q \in Replicas : \E d \in SUBSET Tasks : batch'[q] \in [d -> Rule]
      BY <1>6, <1>7 DEF IInv, TypeOK
    <2> QED BY <1>3, <1>4, <1>5, <1>6, <1>7, <2>1 DEF IInv, TypeOK
  <1>9. QuietStep(r)
    BY <1>3, <1>4, <1>6 DEF QuietStep
  <1>10. BatchRead(r)'
    <2>1. \A t \in due : Follows(rule[t], rule[t]) /\ Carries(t) /\ t \in Tasks
      BY <1>5 DEF Follows, Due
    <2>2. \A t \in due : task[t].at # "free"
      BY <2>1 DEF IInv, CarriersSound, Live
    <2> QED BY <1>4, <1>6, <2>1, <2>2 DEF BatchRead, Carries, Follows
  <1> QED BY <1>1, <1>3, <1>4, <1>8, <1>9, <1>10, Resting

LEMMA NextItemKeepsInvariant ==
  ASSUME IInv, NEW r \in Replicas, NEW t \in Tasks, NextItem(r, t)
  PROVE  IInv'
  <1> DEFINE read == batch[r][t]
             x == Taken(t, task[t].status, read)
             y == Unread(t, read)
  <1>1. r \in Workers /\ t \in DOMAIN batch[r] /\ work[r].at = "sweep"
    BY DEF Workers, NextItem
  <1>2. read \in Rule /\ task[t].status \in {"todo", "done"}
    BY <1>1 DEF IInv, TypeOK, Task
  <1>3. UNCHANGED <<task, rule, made, forked, disturbed, holder, unlocked>>
    BY DEF NextItem
  <1>4. PICK due \in SUBSET Tasks : batch[r] \in [due -> Rule]
    BY DEF IInv, TypeOK
  <1>5. /\ batch'[r] = [u \in due \ {t} |-> batch[r][u]]
        /\ \A q \in Replicas \ {r} : batch'[q] = batch[q]
        /\ batch' = [q \in Replicas |-> batch'[q]]
    BY <1>4 DEF NextItem, IInv, TypeOK
  <1>6. /\ batch' = [q \in Replicas |-> batch'[q]]
        /\ \A q \in Replicas : \E d \in SUBSET Tasks : batch'[q] \in [d -> Rule]
    <2>1. batch'[r] \in [due \ {t} -> Rule]
      BY <1>4, <1>5
    <2>2. due \ {t} \in SUBSET Tasks
      OBVIOUS
    <2> QED BY <1>5, <2>1, <2>2 DEF IInv, TypeOK
  <1>7. Carries(t) => Follows(rule[t], read)
    BY <1>1 DEF IInv, BatchRead
  <1>8. CASE work' = [work EXCEPT ![r] = x]
    <2>1. x \in Work
      BY <1>2, TakenIsWork
    <2>2. /\ work' \in [Workers -> Work] /\ work'[r] = x
          /\ \A v \in Workers \ {r} : work'[v] = work[v]
      BY <1>1, <1>8, <2>1, Replaced DEF IInv
    <2>3. TypeOK'
      BY <1>3, <1>6, <2>2 DEF IInv, TypeOK
    <2>4. QuietStep(r)
      BY <1>3, <1>5, <2>2 DEF QuietStep
    <2>5. BatchRead(r)'
      BY <1>4, <1>5, <2>4, BatchShrinks
    <2> QED BY <1>1, <1>2, <1>3, <1>7, <2>2, <2>3, <2>4, <2>5, TakingKeepsInvariant
  <1>9. CASE work' = [work EXCEPT ![r] = y]
    <2>1. y \in Work /\ y.at = "unread" /\ y.task = t
      BY <1>2, UnreadIsWork
    <2> HIDE DEF y
    <2>2. /\ work' \in [Workers -> Work] /\ work'[r] = y
          /\ \A v \in Workers \ {r} : work'[v] = work[v]
      BY <1>1, <1>9, <2>1, Replaced DEF IInv
    <2>3. TypeOK'
      BY <1>3, <1>6, <2>2 DEF IInv, TypeOK
    <2>4. QuietStep(r)
      BY <1>3, <1>5, <2>2 DEF QuietStep
    <2>5. BatchRead(r)'
      BY <1>4, <1>5, <2>4, BatchShrinks
    <2>6. OwnPart(r)
      BY <2>1, <2>2, <2>5 DEF OwnPart, InOrder, Decided, Copying, Busy, Cloned
    <2>7. work'[r].at # "commit"
      BY <2>1, <2>2
    <2> QED BY <1>1, <1>3, <2>3, <2>4, <2>6, <2>7, QuietAndNotCommitting
  <1> QED BY <1>8, <1>9 DEF NextItem

LEMMA EndSweepKeepsInvariant ==
  ASSUME IInv, NEW r \in Replicas, EndSweep(r)
  PROVE  IInv'
  <1>1. r \in Workers
    BY DEF Workers
  <1>2. /\ work' \in [Workers -> Work] /\ work'[r] = Idle
        /\ \A v \in Workers \ {r} : work'[v] = work[v]
    BY <1>1, IdleIsIdle, Replaced DEF EndSweep, IInv
  <1>3. UNCHANGED <<task, rule, made, forked, disturbed, batch, unlocked>>
    BY DEF EndSweep
  <1>4. TypeOK'
    BY <1>2, <1>3 DEF EndSweep, Released, IInv, TypeOK
  <1>5. QuietStep(r)
    BY <1>2, <1>3 DEF QuietStep
  <1> QED BY <1>1, <1>2, <1>3, <1>4, <1>5, IdleIsIdle, SameBatch, Resting

LEMMA CrashKeepsInvariant ==
  ASSUME IInv, NEW r \in Replicas, Crash(r)
  PROVE  IInv'
  <1>1. r \in Workers /\ work[r].task \in Tasks \cup {None}
    BY DEF Workers, IInv, TypeOK, Work
  <1>2. /\ work' \in [Workers -> Work] /\ work'[r] = Idle
        /\ \A v \in Workers \ {r} : work'[v] = work[v]
    BY <1>1, IdleIsIdle, Replaced DEF Crash, IInv
  <1>3. UNCHANGED <<task, rule, made, forked, unlocked>>
    BY DEF Crash
  <1>4. /\ batch'[r] = NoItems
        /\ \A q \in Replicas \ {r} : batch'[q] = batch[q]
        /\ batch' = [q \in Replicas |-> batch'[q]]
    BY DEF Crash, IInv, TypeOK
  <1>5. TypeOK'
    <2>1. NoItems \in [{} -> Rule] /\ {} \in SUBSET Tasks
      BY DEF NoItems
    <2>2. \A q \in Replicas : \E d \in SUBSET Tasks : batch'[q] \in [d -> Rule]
      BY <1>4, <2>1 DEF IInv, TypeOK
    <2> QED BY <1>1, <1>2, <1>3, <1>4, <2>2 DEF Crash, Released, IInv, TypeOK
  <1>6. QuietStep(r)
    BY <1>2, <1>3, <1>4 DEF QuietStep
  <1>7. BatchRead(r)'
    BY <1>4 DEF NoItems, BatchRead
  <1> QED BY <1>1, <1>2, <1>3, <1>5, <1>6, <1>7, IdleIsIdle, Resting

-----------------------------------------------------------------------------
(* The steps that change a rule.                                           *)

\* What somebody's edit of the rule of t, or of t, may do.
EditStep(t) ==
  /\ UNCHANGED <<work, batch, forked>>
  /\ made <= made'
  /\ \A u \in Tasks \ {t} : rule'[u] = rule[u] /\ task'[u].at = task[u].at
  /\ task[t].at # "free" => task'[t].at # "free"
  /\ Blocked(t) => task'[t].at = "live" /\ rule'[t] = None
  /\ rule'[t] # None =>
       /\ task'[t].at = "live" /\ rule'[t].created <= made' /\ Sound(rule'[t])
       /\ \/ Carries(t) /\ rule'[t].created = rule[t].created
          \/ rule'[t].created > made
       /\ \/ \A v \in Workers : ~InHand(v, t)
          \/ rule'[t].touched
          \/ /\ Carries(t)
             /\ Follows(rule'[t], rule[t])
             /\ rule[t].touched => rule'[t].touched
             /\ rule'[t].created = rule[t].created

LEMMA EditKeepsInvariant ==
  ASSUME IInv, TypeOK', NEW t \in Tasks, EditStep(t)
  PROVE  IInv'
  <1>1. ASSUME NEW v \in Workers
        PROVE  /\ InOrder(v)' /\ Decided(v)' /\ Copying(v)'
               /\ v \in Replicas => BatchRead(v)'
    <2>1. RulesInHandKept(v)
      BY DEF EditStep, RulesInHandKept, Carries, Follows
    <2>2. CloneKept(v)
      <3> SUFFICES ASSUME Moving(v)
                   PROVE  task'[work[v].clone].at = "live" /\ rule'[work[v].clone] = None
        BY DEF CloneKept
      <3>1. /\ work[v].clone \in Tasks /\ Live(work[v].clone)
            /\ ~Carries(work[v].clone) /\ Blocked(work[v].clone)
        BY DEF IInv, InOrder, Copying, Moving, Cloned, Blocked
      <3>2. CASE work[v].clone = t
        BY <3>1, <3>2 DEF EditStep
      <3>3. CASE work[v].clone # t
        BY <3>1, <3>3 DEF EditStep, Live, Carries
      <3> QED BY <3>2, <3>3
    <2>3. \A u \in Tasks : task[u].at # "free" => task'[u].at # "free"
      BY DEF EditStep
    <2>4. work'[v] = work[v] /\ (v \in Replicas => batch'[v] = batch[v]) /\ made <= made'
      BY DEF EditStep
    <2> QED BY <2>1, <2>2, <2>3, <2>4, Bystander
  <1>2. \A r \in Replicas : BatchRead(r)'
    BY <1>1 DEF Workers
  <1>3. made \in Nat /\ made' \in Nat /\ \A u \in Tasks :
          /\ rule[u] # None => rule[u].created \in Nat
          /\ rule'[u] # None => rule'[u].created \in Nat
    BY RecurrenceAssumption DEF IInv, TypeOK, Rule
  <1>4. CarriersSound'
    <2> SUFFICES ASSUME NEW u \in Tasks, rule'[u] # None
                 PROVE  task'[u].at = "live" /\ rule'[u].created <= made' /\ Sound(rule'[u])
      BY DEF CarriersSound, Carries, Live, Sound
    <2>1. CASE u = t
      BY <2>1 DEF EditStep
    <2>2. CASE u # t
      <3>1. rule'[u] = rule[u] /\ task'[u].at = task[u].at /\ made <= made'
        BY <2>2 DEF EditStep
      <3>2. Live(u) /\ rule[u].created <= made /\ Sound(rule[u])
        BY <3>1 DEF IInv, CarriersSound, Carries
      <3> QED BY <1>3, <3>1, <3>2 DEF Live
    <2> QED BY <2>1, <2>2
  <1>5. ClonesApart'
    BY DEF EditStep, IInv, ClonesApart
  <1>6. \A u \in Tasks : rule'[u] # None =>
          \/ Carries(u) /\ rule'[u].created = rule[u].created
          \/ u = t /\ rule'[u].created > made
    BY DEF EditStep, Carries
  <1>7. \A u \in Tasks : Carries(u) => rule[u].created <= made
    BY DEF IInv, CarriersSound
  <1>8. OneCarrier'
    <2> SUFFICES ASSUME NEW u \in Tasks, NEW z \in Tasks, rule'[u] # None, rule'[z] # None,
                        u # z, rule'[u].created = rule'[z].created
                 PROVE  rule'[u].created \in forked
      BY DEF OneCarrier, Carries, EditStep
    <2>1. CASE /\ Carries(u) /\ rule'[u].created = rule[u].created
               /\ Carries(z) /\ rule'[z].created = rule[z].created
      BY <2>1 DEF IInv, OneCarrier
    <2>2. CASE u = t /\ rule'[u].created > made
      <3>1. Carries(z) /\ rule'[z].created <= made
        BY <1>6, <1>7, <2>2
      <3> QED BY <1>3, <2>2, <3>1
    <2>3. CASE z = t /\ rule'[z].created > made
      <3>1. Carries(u) /\ rule'[u].created <= made
        BY <1>6, <1>7, <2>3
      <3> QED BY <1>3, <2>3, <3>1
    <2> QED BY <1>6, <2>1, <2>2, <2>3
  <1>9. OneMove'
    <2> SUFFICES ASSUME NEW w \in Workers, Moving(w), work[w].rule.created \notin forked
                 PROVE  /\ \A u \in Tasks :
                             rule'[u] # None /\ rule'[u].created = work[w].rule.created
                             => u = work[w].task
                        /\ \A v \in Workers \ {w} :
                             Moving(v) => work[v].rule.created # work[w].rule.created
      BY DEF OneMove, Moving, Carries, EditStep
    <2>1. work[w].rule.created <= made /\ work[w].rule.created \in Nat
      <3>1. work[w] \in Work /\ work[w].rule # None
        BY DEF IInv, TypeOK, Moving
      <3>2. work[w].rule \in Rule
        BY <3>1 DEF Work
      <3>3. work[w].rule.created \in Nat
        BY <3>2, RecurrenceAssumption DEF Rule
      <3> QED BY <3>3 DEF IInv, Copying, Moving
    <2>2. ASSUME NEW u \in Tasks, rule'[u] # None, rule'[u].created = work[w].rule.created
          PROVE  u = work[w].task
      <3>1. Carries(u) /\ rule[u].created = work[w].rule.created
        BY <1>3, <1>6, <2>1, <2>2
      <3> QED BY <3>1 DEF IInv, OneMove
    <2> QED BY <2>2 DEF IInv, OneMove
  <1> QED BY <1>1, <1>2, <1>4, <1>5, <1>8, <1>9 DEF IInv

LEMMA SetKeepsInvariant ==
  ASSUME IInv, NEW t \in Tasks, NEW next \in {"none", "ahead", "due"},
         NEW max \in Limits, NEW until \in Untils, SetRecurrence(t, next, max, until)
  PROVE  IInv'
  <1> DEFINE held == \/ task[t].completed
                     \/ \E w \in Workers : InHand(w, t)
             new == rule'[t]
  <1>1. UNCHANGED <<task, work, forked, disturbed, batch, holder, unlocked>>
    BY DEF SetRecurrence, sweeps
  <1>2. made \in Nat /\ made' \in Nat /\ made <= made' /\ made' \in 0..MaxRules
    BY RecurrenceAssumption DEF SetRecurrence, IInv, TypeOK
  <1>3. Carries(t) => rule[t] \in Rule /\ rule[t].created <= made /\ Sound(rule[t])
    BY DEF Carries, IInv, TypeOK, CarriersSound
  <1>4. held \in BOOLEAN /\ task[t].completed \in BOOLEAN
    BY DEF IInv, TypeOK, Task
  <1>5. /\ new = [mode |-> IF next = "none" THEN "on_complete" ELSE "on_schedule",
                  max |-> max, until |-> until, next |-> next,
                  occurrences |-> IF Carries(t) THEN rule[t].occurrences ELSE 1,
                  created |-> IF Carries(t) THEN rule[t].created ELSE made',
                  touched |-> (Carries(t) /\ rule[t].touched) \/ held]
        /\ \A u \in Tasks \ {t} : rule'[u] = rule[u]
        /\ rule' = [rule EXCEPT ![t] = new]
    BY DEF SetRecurrence, IInv, TypeOK
  <1>6. /\ new.created = IF Carries(t) THEN rule[t].created ELSE made'
        /\ new.occurrences = IF Carries(t) THEN rule[t].occurrences ELSE 1
        /\ new.mode = (IF next = "none" THEN "on_complete" ELSE "on_schedule")
        /\ new.next = next /\ new.max = max
        /\ new.touched = ((Carries(t) /\ rule[t].touched) \/ held)
    BY <1>5
  <1>7. new \in Rule
    <2>1. max \in Limits /\ until \in {"none", "ahead", "past"}
      BY RecurrenceAssumption
    <2>2. (IF Carries(t) THEN rule[t].occurrences ELSE 1) \in Nat \ {0}
      BY <1>3 DEF Rule
    <2>3. (IF Carries(t) THEN rule[t].created ELSE made') \in 1..MaxRules
      <3>1. CASE Carries(t)
        BY <1>3, <3>1 DEF Rule
      <3>2. CASE ~Carries(t)
        BY <1>2, <3>2, RecurrenceAssumption DEF SetRecurrence
      <3> QED BY <3>1, <3>2
    <2>4. ((Carries(t) /\ rule[t].touched) \/ held) \in BOOLEAN
      BY <1>3 DEF Rule
    <2> QED BY <1>5, <2>1, <2>2, <2>3, <2>4 DEF Rule
  <1>8. TypeOK'
    BY <1>1, <1>2, <1>5, <1>7 DEF IInv, TypeOK
  <1>9. Sound(new)
    <2>1. new.mode = "on_schedule" => new.next # "none"
      BY <1>6
    <2>2. CASE Carries(t)
      BY <1>3, <1>6, <2>1, <2>2 DEF Sound
    <2>3. CASE ~Carries(t)
      BY <1>6, <2>1, <2>3, RecurrenceAssumption DEF Sound
    <2> QED BY <2>2, <2>3
  <1>10. new.created <= made' /\ (Carries(t) \/ new.created > made)
    <2>1. Carries(t) => rule[t].created \in Nat
      BY <1>3, RecurrenceAssumption DEF Rule
    <2> QED BY <1>2, <1>3, <1>6, <2>1 DEF SetRecurrence
  <1>11. EditStep(t)
    <2>1. task[t].at = "live" /\ ~Blocked(t)
      BY DEF SetRecurrence, Live
    <2>2. (\A v \in Workers : ~InHand(v, t)) \/ new.touched
      BY <1>6
    <2> QED BY <1>1, <1>2, <1>5, <1>6, <1>9, <1>10, <2>1, <2>2 DEF EditStep
  <1> QED BY <1>8, <1>11, EditKeepsInvariant

LEMMA DeletionsKeepInvariant ==
  ASSUME IInv, NEW t \in Tasks, DeleteRecurrence(t) \/ DeleteTask(t)
  PROVE  IInv'
  <1>1. UNCHANGED <<made, work, forked, disturbed, batch, holder, unlocked>>
    BY DEF DeleteRecurrence, DeleteTask, sweeps
  <1>2. rule'[t] = None /\ \A u \in Tasks \ {t} : rule'[u] = rule[u]
    BY DEF DeleteRecurrence, DeleteTask, IInv, TypeOK
  <1>3. /\ task' \in [Tasks -> Task] /\ \A u \in Tasks \ {t} : task'[u] = task[u]
        /\ DeleteRecurrence(t) => task'[t].at = "live"
        /\ task'[t].at # "free"
    <2>1. task[t] \in Task
      BY DEF IInv, TypeOK
    <2>2. [task[t] EXCEPT !.at = "gone"] \in Task
      BY <2>1 DEF Task
    <2>3. CASE DeleteRecurrence(t)
      BY <2>3 DEF DeleteRecurrence, IInv, TypeOK, Live
    <2>4. CASE DeleteTask(t)
      <3>1. task' = [task EXCEPT ![t] = [task[t] EXCEPT !.at = "gone"]] /\ task[t].at = "live"
        BY <2>4 DEF DeleteTask, Live
      <3>2. task'[t] = [task[t] EXCEPT !.at = "gone"] /\ task'[t].at = "gone"
        BY <2>1, <3>1 DEF IInv, TypeOK, Task
      <3>3. ~DeleteRecurrence(t)
        BY <3>1, <3>2 DEF DeleteRecurrence
      <3> QED BY <2>2, <3>1, <3>2, <3>3 DEF IInv, TypeOK
    <2> QED BY <2>3, <2>4
  <1>4. TypeOK'
    BY <1>1, <1>3 DEF DeleteRecurrence, DeleteTask, IInv, TypeOK
  <1>5. EditStep(t)
    <2>1. Blocked(t) => task'[t].at = "live"
      BY <1>3 DEF DeleteTask
    <2>2. made <= made'
      BY <1>1, RecurrenceAssumption DEF IInv, TypeOK
    <2> QED BY <1>1, <1>2, <1>3, <2>1, <2>2 DEF EditStep
  <1> QED BY <1>4, <1>5, EditKeepsInvariant

LEMMA TimeKeepsInvariant ==
  ASSUME IInv, NEW t \in Tasks, DueDateComes(t) \/ UntilDateComes(t)
  PROVE  IInv'
  <1>1. UNCHANGED <<task, made, work, forked, disturbed, batch, holder, unlocked>>
    BY DEF DueDateComes, UntilDateComes, sweeps
  <1>2. Carries(t) /\ rule[t] \in Rule /\ Sound(rule[t]) /\ Live(t)
        /\ rule[t].created <= made
    BY DEF DueDateComes, UntilDateComes, Carries, IInv, TypeOK, CarriersSound
  <1>3. PICK x \in Rule :
          /\ rule' = [rule EXCEPT ![t] = x]
          /\ x.mode = rule[t].mode /\ x.max = rule[t].max
          /\ x.occurrences = rule[t].occurrences /\ x.created = rule[t].created
          /\ x.touched = rule[t].touched
          /\ rule[t].until = "past" => x.until = "past"
          /\ rule[t].next # "none" => x.next # "none"
    <2>1. CASE DueDateComes(t)
      <3> DEFINE y == [rule[t] EXCEPT !.next = "due"]
      <3>1. rule' = [rule EXCEPT ![t] = y]
        BY <2>1 DEF DueDateComes
      <3>2. /\ y \in Rule /\ y.mode = rule[t].mode /\ y.max = rule[t].max
            /\ y.occurrences = rule[t].occurrences /\ y.created = rule[t].created
            /\ y.touched = rule[t].touched
            /\ rule[t].until = "past" => y.until = "past"
            /\ rule[t].next # "none" => y.next # "none"
        BY <1>2 DEF Rule
      <3> HIDE DEF y
      <3> QED BY <3>1, <3>2
    <2>2. CASE UntilDateComes(t)
      <3> DEFINE y == [rule[t] EXCEPT !.until = "past"]
      <3>1. rule' = [rule EXCEPT ![t] = y]
        BY <2>2 DEF UntilDateComes
      <3>2. /\ y \in Rule /\ y.mode = rule[t].mode /\ y.max = rule[t].max
            /\ y.occurrences = rule[t].occurrences /\ y.created = rule[t].created
            /\ y.touched = rule[t].touched
            /\ rule[t].until = "past" => y.until = "past"
            /\ rule[t].next # "none" => y.next # "none"
        BY <1>2 DEF Rule
      <3> HIDE DEF y
      <3> QED BY <3>1, <3>2
    <2> QED BY <2>1, <2>2
  <1>4. rule'[t] = x /\ \A u \in Tasks \ {t} : rule'[u] = rule[u]
    BY <1>3 DEF IInv, TypeOK
  <1>5. TypeOK'
    BY <1>1, <1>3 DEF IInv, TypeOK
  <1>6. ~Blocked(t)
    BY <1>2 DEF IInv, Copying, Blocked
  <1>7. EditStep(t)
    <2>1. Follows(x, rule[t]) /\ Sound(x)
      BY <1>2, <1>3 DEF Follows, Sound
    <2>2. made <= made'
      BY <1>1, RecurrenceAssumption DEF IInv, TypeOK
    <2> QED BY <1>1, <1>2, <1>3, <1>4, <1>6, <2>1, <2>2 DEF EditStep, Live
  <1> QED BY <1>5, <1>7, EditKeepsInvariant

\* A worker that ends its task's rule and is through.
LEMMA DroppingKeepsInvariant ==
  ASSUME IInv, NEW w \in Workers, NEW t \in Tasks, Done(w),
         rule' = [rule EXCEPT ![t] = None],
         UNCHANGED <<task, made, forked, disturbed, batch, holder, unlocked>>
  PROVE  IInv'
  <1>2. /\ work' \in [Workers -> Work] /\ work'[w] = Rest(w)
        /\ \A v \in Workers \ {w} : work'[v] = work[v]
    BY RestIsIdle, Replaced DEF Done, IInv
  <1>3. UNCHANGED <<task, made, forked, batch>>
    OBVIOUS
  <1>4. rule'[t] = None /\ \A u \in Tasks \ {t} : rule'[u] = rule[u]
    BY DEF IInv, TypeOK
  <1>5. TypeOK'
    BY <1>2 DEF IInv, TypeOK
  <1>6. work'[w].at \in {"idle", "sweep"}
    BY <1>2, RestIsIdle
  <1>7. ASSUME NEW v \in Workers \ {w}
        PROVE  /\ InOrder(v)' /\ Decided(v)' /\ Copying(v)'
               /\ v \in Replicas => BatchRead(v)'
    <2>1. RulesInHandKept(v)
      BY <1>4 DEF RulesInHandKept, Carries, Follows
    <2>2. CloneKept(v)
      BY <1>3, <1>4 DEF CloneKept, Moving, IInv, InOrder, Copying, Cloned, Live, Carries
    <2>3. made <= made'
      BY <1>3, RecurrenceAssumption DEF IInv, TypeOK
    <2> QED BY <1>2, <1>3, <1>5, <2>1, <2>2, <2>3, Bystander
  <1>8. InOrder(w)' /\ Decided(w)' /\ Copying(w)'
    BY <1>6 DEF InOrder, Decided, Copying, Busy, Cloned
  <1>9. w \in Replicas => BatchRead(w)'
    BY <1>3, <1>4 DEF IInv, BatchRead, Carries
  <1>10. \A r \in Replicas : BatchRead(r)'
    BY <1>7, <1>9 DEF Workers
  <1>11. CarriersSound'
    BY <1>3, <1>4 DEF IInv, CarriersSound, Carries, Live, Sound
  <1>12. ClonesApart'
    BY <1>2, <1>6 DEF IInv, ClonesApart, Cloned
  <1>13. OneCarrier'
    BY <1>3, <1>4 DEF IInv, OneCarrier, Carries
  <1>14. OneMove'
    BY <1>2, <1>3, <1>4, <1>6 DEF IInv, OneMove, Moving, Carries
  <1> QED BY <1>5, <1>7, <1>8, <1>10, <1>11, <1>12, <1>13, <1>14 DEF IInv

LEMMA ExpireKeepsInvariant ==
  ASSUME IInv, NEW w \in Workers, Expire(w) \/ RemoveUnread(w)
  PROVE  IInv'
  <1>1. work[w].task \in Tasks
    BY DEF Expire, RemoveUnread, IInv, InOrder, Busy
  <1> QED BY <1>1, DroppingKeepsInvariant DEF Expire, RemoveUnread, sweeps

LEMMA MovedIsRule ==
  ASSUME IInv, NEW w \in Workers, Moving(w)
  PROVE  /\ Moved(w) \in Rule
         /\ Moved(w).created = work[w].rule.created
         /\ work[w].rule.touched => Moved(w).touched
         /\ (\E v \in Workers \ {w} : InHand(v, work[w].clone)) => Moved(w).touched
         /\ Sound(Moved(w))
         /\ Moved(w).created <= made
  <1> DEFINE held == \E v \in Workers \ {w} : InHand(v, work[w].clone)
             r == work[w].rule
  <1>1. r \in Rule /\ Sound(r) /\ r.created <= made
    <2>1. work[w] \in Work
      BY DEF IInv, TypeOK
    <2> QED BY <2>1 DEF Work, Moving, IInv, Copying
  <1>2. Moved(w) = [r EXCEPT !.touched = r.touched \/ held]
    BY DEF Moved
  <1>3. r.touched \/ held \in BOOLEAN
    BY <1>1 DEF Rule
  <1>4. /\ Moved(w) \in Rule /\ Moved(w).created = r.created
        /\ Moved(w).touched = (r.touched \/ held)
        /\ Moved(w).mode = r.mode /\ Moved(w).next = r.next
        /\ Moved(w).occurrences = r.occurrences
    <2> HIDE DEF held
    <2> QED BY <1>1, <1>2, <1>3 DEF Rule
  <1> QED BY <1>1, <1>4 DEF Sound

LEMMA CommitKeepsInvariant ==
  ASSUME IInv, NEW w \in Workers, CommitMove(w)
  PROVE  IInv'
  <1> DEFINE t == work[w].task
             c == work[w].clone
             copy == work[w].rule
  <1>1. t \in Tasks /\ c \in Tasks /\ work[w].at = "commit"
    BY DEF CommitMove, IInv, InOrder, Busy, Cloned
  <1>2. UNCHANGED <<task, made, forked, disturbed, batch, holder, unlocked>> /\ Done(w)
    BY DEF CommitMove, sweeps
  <1>3. CASE copy = None
    <2>1. rule' = [rule EXCEPT ![t] = None]
      BY <1>1, <1>3 DEF CommitMove, IInv, TypeOK
    <2> QED BY <1>1, <1>2, <2>1, DroppingKeepsInvariant
  <1>4. CASE copy # None
    <2>1. Moving(w)
      BY <1>1, <1>4 DEF Moving
    <2> DEFINE new == Moved(w)
    <2>2. /\ new \in Rule /\ new # None /\ new.created = copy.created /\ Sound(new)
          /\ new.created <= made
          /\ (\E v \in Workers \ {w} : InHand(v, c)) => new.touched
      BY <2>1, MovedIsRule, NoneIsNoRule
    <2>3. rule' = [[rule EXCEPT ![t] = None] EXCEPT ![c] = new]
      BY <1>4 DEF CommitMove
    <2>4. /\ rule' \in [Tasks -> Rule \cup {None}]
          /\ rule'[c] = new
          /\ c # t => rule'[t] = None
          /\ \A u \in Tasks \ {t, c} : rule'[u] = rule[u]
      <3> HIDE DEF new
      <3> QED BY <1>1, <2>2, <2>3 DEF IInv, TypeOK
    <2>5. /\ work' \in [Workers -> Work] /\ work'[w] = Rest(w)
          /\ \A v \in Workers \ {w} : work'[v] = work[v]
      BY <1>2, RestIsIdle, Replaced DEF Done, IInv
    <2>6. TypeOK'
      BY <1>2, <2>4, <2>5 DEF IInv, TypeOK
    <2>7. work'[w].at \in {"idle", "sweep"}
      BY <2>5, RestIsIdle
    <2>8. Live(c) /\ ~Carries(c)
      BY <1>1, <1>4 DEF IInv, Copying
    <2>9. ASSUME NEW v \in Workers \ {w}
          PROVE  /\ InOrder(v)' /\ Decided(v)' /\ Copying(v)'
                 /\ v \in Replicas => BatchRead(v)'
      <3>1. RulesInHandKept(v)
        <4> SUFFICES ASSUME NEW u \in Tasks, InHand(v, u), rule'[u] # None
                     PROVE  \/ rule'[u].touched
                            \/ /\ Carries(u) /\ Follows(rule'[u], rule[u])
                               /\ rule[u].touched => rule'[u].touched
                               /\ rule'[u].created = rule[u].created
          BY DEF RulesInHandKept
        <4>1. CASE u = c
          <5>1. new.touched
            BY <2>2, <4>1
          <5> QED BY <2>4, <4>1, <5>1
        <4>2. CASE u # c
          <5>1. u # t
            BY <2>4, <4>2
          <5> QED BY <2>4, <4>2, <5>1 DEF Carries, Follows
        <4> QED BY <4>1, <4>2
      <3>2. CloneKept(v)
        <4> SUFFICES ASSUME Moving(v)
                     PROVE  /\ task'[work[v].clone].at = "live"
                            /\ rule'[work[v].clone] = None
          BY DEF CloneKept
        <4>1. /\ work[v].clone \in Tasks /\ Live(work[v].clone)
              /\ ~Carries(work[v].clone) /\ work[v].clone # c
          BY <1>1 DEF IInv, InOrder, Copying, Moving, Cloned, ClonesApart
        <4> QED BY <1>2, <2>4, <4>1 DEF Live, Carries
      <3>3. made <= made'
        BY <1>2, RecurrenceAssumption DEF IInv, TypeOK
      <3> QED BY <1>2, <2>5, <2>6, <3>1, <3>2, <3>3, Bystander
    <2>10. InOrder(w)' /\ Decided(w)' /\ Copying(w)'
      BY <2>7 DEF InOrder, Decided, Copying, Busy, Cloned
    <2>11. w \in Replicas => BatchRead(w)'
      <3> SUFFICES ASSUME w \in Replicas, NEW u \in DOMAIN batch[w]
                   PROVE  /\ u \in Tasks /\ task[u].at # "free"
                          /\ rule'[u] # None => Follows(rule'[u], batch[w][u])
        BY <1>2 DEF BatchRead, Carries
      <3>1. /\ u \in Tasks /\ task[u].at # "free"
            /\ Carries(u) => Follows(rule[u], batch[w][u])
        BY DEF IInv, BatchRead
      <3>2. u # c
        BY <1>1 DEF IInv, InOrder, Cloned
      <3> QED BY <2>4, <3>1, <3>2 DEF Carries
    <2>12. \A r \in Replicas : BatchRead(r)'
      BY <2>9, <2>11 DEF Workers
    <2>13. CarriersSound'
      <3> SUFFICES ASSUME NEW u \in Tasks, rule'[u] # None
                   PROVE  task[u].at = "live" /\ rule'[u].created <= made /\ Sound(rule'[u])
        BY <1>2 DEF CarriersSound, Carries, Live, Sound
      <3>1. CASE u = c
        BY <2>2, <2>4, <2>8, <3>1 DEF Live
      <3>2. CASE u # c
        BY <2>4, <3>2 DEF IInv, CarriersSound, Carries, Live
      <3> QED BY <3>1, <3>2
    <2>14. ClonesApart'
      BY <2>5, <2>7 DEF IInv, ClonesApart, Cloned
    <2>15. \A u \in Tasks : rule'[u] # None =>
             \/ u = c /\ rule'[u].created = copy.created
             \/ u \notin {t, c} /\ rule'[u] = rule[u] /\ Carries(u)
      BY <2>2, <2>4 DEF Carries
    <2>16. copy.created \notin forked =>
             \A u \in Tasks : Carries(u) /\ rule[u].created = copy.created => u = t
      BY <2>1 DEF IInv, OneMove
    <2>17. OneCarrier'
      <3> SUFFICES ASSUME NEW u \in Tasks, NEW z \in Tasks, rule'[u] # None, rule'[z] # None,
                          u # z, rule'[u].created = rule'[z].created
                   PROVE  rule'[u].created \in forked
        BY <1>2 DEF OneCarrier, Carries
      <3>1. CASE u # c /\ z # c
        BY <2>15, <3>1 DEF IInv, OneCarrier
      <3>2. CASE u = c \/ z = c
        BY <2>15, <2>16, <3>2
      <3> QED BY <3>1, <3>2
    <2>18. OneMove'
      <3>1. \A v \in Workers : Moving(v)' => v # w /\ Moving(v) /\ work'[v] = work[v]
        BY <2>5, <2>7 DEF Moving
      <3> SUFFICES ASSUME NEW v \in Workers \ {w}, Moving(v), work[v].rule.created \notin forked
                   PROVE  /\ \A u \in Tasks :
                               rule'[u] # None /\ rule'[u].created = work[v].rule.created
                               => u = work[v].task
                          /\ \A z \in Workers \ {v} :
                               Moving(z) => work[z].rule.created # work[v].rule.created
        BY <1>2, <3>1 DEF OneMove, Carries
      <3>2. copy.created # work[v].rule.created
        BY <2>1 DEF IInv, OneMove
      <3> QED BY <2>15, <3>2 DEF IInv, OneMove
    <2> QED BY <2>6, <2>9, <2>10, <2>12, <2>13, <2>14, <2>17, <2>18 DEF IInv
  <1> QED BY <1>3, <1>4

LEMMA LockLostKeepsInvariant ==
  ASSUME IInv, LockLost
  PROVE  IInv'
  <1>1. PICK w \in Workers : TRUE
    BY RecurrenceAssumption DEF Workers
  <1>2. /\ UNCHANGED <<task, rule, made, work, forked, disturbed, batch>>
        /\ holder' = None /\ unlocked' = TRUE
    BY DEF LockLost
  <1>3. TypeOK'
    BY <1>2 DEF IInv, TypeOK
  <1>4. QuietStep(w)
    BY <1>2 DEF QuietStep
  <1>5. OwnPart(w)
    <2>1. InOrder(w)' /\ Decided(w)' /\ Copying(w)'
      BY <1>2 DEF IInv, InOrder, Decided, Copying, Carries, Live, Busy, Cloned, Sound, Follows, Exhausted
    <2>2. w \in Replicas => BatchRead(w)'
      BY <1>2, <1>4, SameBatch
    <2> QED BY <1>2, <2>1, <2>2 DEF OwnPart, IInv, ClonesApart
  <1>6. OneCarrier' /\ OneMove'
    BY <1>2 DEF IInv, OneCarrier, OneMove, Moving, Carries
  <1> QED BY <1>2, <1>3, <1>4, <1>5, <1>6, QuietSteps

-----------------------------------------------------------------------------
(* The invariant.                                                          *)

LEMMA InvariantHoldsInitially == Init => IInv
  <1> SUFFICES ASSUME Init PROVE IInv
    OBVIOUS
  <1>1. \A w \in Workers : work[w] = Idle
    BY DEF Init
  <1>2. \A r \in Replicas : batch[r] \in [{} -> Rule] /\ DOMAIN batch[r] = {}
    BY DEF Init, NoItems
  <1>3. \A t \in Tasks : ~Carries(t)
    BY DEF Init, Carries
  <1>4. TypeOK
    <2>1. task \in [Tasks -> Task]
      BY RecurrenceAssumption DEF Init, Task
    <2>2. \A r \in Replicas : \E due \in SUBSET Tasks : batch[r] \in [due -> Rule]
      BY <1>2
    <2>3. batch = [r \in Replicas |-> batch[r]]
      <3>1. batch = [r \in Replicas |-> NoItems]
        BY DEF Init
      <3> QED BY <3>1
    <2>4. rule \in [Tasks -> Rule \cup {None}] /\ work \in [Workers -> Work]
      BY IdleIsIdle DEF Init
    <2>5. /\ made \in 0..MaxRules /\ holder \in Replicas \cup {None}
          /\ forked \subseteq 1..MaxRules /\ disturbed \subseteq Tasks
      BY RecurrenceAssumption DEF Init
    <2>6. unlocked \in BOOLEAN
      BY DEF Init
    <2> QED BY <2>1, <2>2, <2>3, <2>4, <2>5, <2>6 DEF TypeOK
  <1>5. \A w \in Workers : InOrder(w) /\ Decided(w) /\ Copying(w)
    BY <1>1, IdleIsIdle DEF InOrder, Decided, Copying, Busy, Cloned
  <1>6. \A r \in Replicas : BatchRead(r)
    BY <1>2 DEF BatchRead
  <1>7. CarriersSound /\ OneCarrier
    BY <1>3 DEF CarriersSound, OneCarrier
  <1>8. ClonesApart /\ OneMove
    BY <1>1, IdleIsIdle DEF ClonesApart, OneMove, Moving, Cloned
  <1> QED BY <1>4, <1>5, <1>6, <1>7, <1>8 DEF IInv

\* A step of the rest of the system.
LEMMA StutteringKeepsInvariant ==
  ASSUME IInv, UNCHANGED vars
  PROVE  IInv'
  <1>1. UNCHANGED <<task, rule, made, work, batch, holder, forked, disturbed, unlocked>>
    BY DEF vars
  <1>2. TypeOK'
    BY <1>1 DEF IInv, TypeOK
  <1>3. \A w \in Workers : InOrder(w)' /\ Decided(w)' /\ Copying(w)'
    BY <1>1 DEF IInv, InOrder, Decided, Copying, Carries, Live, Sound, Follows, Exhausted
  <1>4. \A r \in Replicas : BatchRead(r)'
    BY <1>1 DEF IInv, BatchRead, Carries, Follows
  <1>5. CarriersSound' /\ ClonesApart'
    BY <1>1 DEF IInv, CarriersSound, ClonesApart, Carries, Live, Sound
  <1>6. OneCarrier' /\ OneMove'
    BY <1>1 DEF IInv, OneCarrier, OneMove, Moving, Carries
  <1> QED BY <1>2, <1>3, <1>4, <1>5, <1>6 DEF IInv

LEMMA InvariantIsPreserved == IInv /\ [Next]_vars => IInv'
  <1> SUFFICES ASSUME IInv, [Next]_vars PROVE IInv'
    OBVIOUS
  <1>1. CASE People
    BY <1>1, SetKeepsInvariant, DeletionsKeepInvariant, TimeKeepsInvariant,
       AutomationKeepsInvariant DEF People
  <1>2. CASE \E h \in Requests : Request(h)
    BY <1>2, BeginUpdateKeepsInvariant, UpdateKeepsInvariant,
       ReadBackKeepsInvariant, SpawnOnCompletionKeepsInvariant DEF Request
  <1>3. CASE \E w \in Workers : Spawning(w)
    BY <1>3, ExpireKeepsInvariant, CreateKeepsInvariant, CopyRuleKeepsInvariant,
       CommitKeepsInvariant, CallFailsKeepsInvariant DEF Spawning
  <1>4. CASE \E r \in Replicas : Sweep(r)
    BY <1>4, StartKeepsInvariant, ReadDueKeepsInvariant, NextItemKeepsInvariant,
       ExpireKeepsInvariant, EndSweepKeepsInvariant, CrashKeepsInvariant
       DEF Sweep, Workers
  <1>5. CASE LockLost
    BY <1>5, LockLostKeepsInvariant
  <1>6. CASE UNCHANGED vars
    BY <1>6, StutteringKeepsInvariant
  <1> QED BY <1>1, <1>2, <1>3, <1>4, <1>5, <1>6 DEF Next

LEMMA InvariantHolds == Spec => []IInv
  BY InvariantHoldsInitially, InvariantIsPreserved, PTL DEF Spec

-----------------------------------------------------------------------------
(* The theorems.                                                           *)

\* Rows, workers and batches keep their shapes: in particular no rule's count
\* is ever zero.
THEOREM TypeCorrect == Spec => []TypeOK
  <1>1. IInv => TypeOK
    BY DEF IInv
  <1> QED BY <1>1, InvariantHolds, PTL

\* A series belongs to one task, unless two transactions copied its rule before
\* either committed: with as many requests, replicas and lost locks as one likes
\* no other order of MoveTo's statements, edits and deletions gives it two.
THEOREM SeriesHasOneCarrier == Spec => []OneCarrier
  <1>1. IInv => OneCarrier
    BY DEF IInv
  <1> QED BY <1>1, InvariantHolds, PTL

\* The sweep finds every scheduled series: its rule has a next moment, unless
\* the mode was saved while a worker had the task in hand.
THEOREM ScheduledSeriesIsFound == Spec => []ScheduledHasItsMoment
  <1>1. IInv => ScheduledHasItsMoment
    BY DEF IInv, CarriersSound, Sound, ScheduledHasItsMoment, Carries
  <1> QED BY <1>1, InvariantHolds, PTL

\* No series runs over the largest limit it was given, however often its rule
\* is moved, unless it took the place of another under a worker's hands.
THEOREM SeriesCountIsBounded == Spec => []CountWithinLimit
  <1>1. IInv => CountWithinLimit
    BY DEF IInv, CarriersSound, Sound, CountWithinLimit, Carries
  <1> QED BY <1>1, InvariantHolds, PTL

-----------------------------------------------------------------------------
(* A series ends for a reason.                                             *)

\* A rule is still carried after a step.
Kept(t) == \E u \in Tasks : rule'[u] # None /\ rule'[u].created = rule[t].created

LEMMA SameRulesAreKept ==
  ASSUME rule' = rule, NEW t \in Tasks, Carries(t)
  PROVE  Kept(t)
  BY DEF Kept, Carries

\* What a worker found exhausted is so still, if nobody touched it.
LEMMA ExhaustionIsFinal ==
  ASSUME NEW r \in Rule, NEW s \in Rule, Exhausted(r), Follows(s, r)
  PROVE  Exhausted(s) \/ s.touched
  BY DEF Exhausted, Follows

LEMMA ExpiryHasAReason ==
  ASSUME IInv, NEW w \in Workers, Expire(w), NEW t \in Tasks, Carries(t), ~Kept(t)
  PROVE  Exhausted(rule[t]) \/ rule[t].touched
  <1>1. /\ work[w].at = "expire" /\ work[w].task \in Tasks
        /\ rule' = [rule EXCEPT ![work[w].task] = None]
    BY DEF Expire, IInv, InOrder, Busy
  <1>2. t = work[w].task
    BY <1>1 DEF Kept, Carries, IInv, TypeOK
  <1>3. rule[t] \in Rule
    BY DEF IInv, TypeOK, Carries
  <1>4. /\ work[w].rule \in Rule /\ Exhausted(work[w].rule)
        /\ Follows(rule[t], work[w].rule)
    BY <1>1, <1>2 DEF IInv, Decided
  <1> QED BY <1>3, <1>4, ExhaustionIsFinal

LEMMA MovesLoseNothing ==
  ASSUME IInv, NEW w \in Workers, CommitMove(w), NEW t \in Tasks, Carries(t), ~Kept(t)
  PROVE  rule[t].touched
  <1> DEFINE c == work[w].clone
             new == IF work[w].rule = None THEN rule[c] ELSE Moved(w)
  <1>1. /\ work[w].at = "commit" /\ work[w].task \in Tasks /\ c \in Tasks
        /\ Copying(w)
    BY DEF CommitMove, IInv, InOrder, Busy, Cloned
  <1>2. CASE work[w].rule = None
    <2>1. rule' = [rule EXCEPT ![work[w].task] = None]
      BY <1>1, <1>2 DEF CommitMove, IInv, TypeOK
    <2>2. t = work[w].task
      BY <1>1, <2>1 DEF Kept, Carries, IInv, TypeOK
    <2> QED BY <1>1, <1>2, <2>2 DEF Copying
  <1>3. CASE work[w].rule # None
    <2>1. /\ Moved(w) # None /\ Moved(w).created = work[w].rule.created
      BY <1>1, <1>3, MovedIsRule, NoneIsNoRule DEF Moving
    <2>2. /\ rule'[c] = Moved(w)
          /\ \A u \in Tasks \ {c, work[w].task} : rule'[u] = rule[u]
      <3>1. rule' = [[rule EXCEPT ![work[w].task] = None] EXCEPT ![c] = Moved(w)]
        BY <1>3 DEF CommitMove
      <3> QED BY <1>1, <3>1 DEF IInv, TypeOK
    <2>3. t \in {c, work[w].task}
      BY <2>2 DEF Kept, Carries
    <2>4. t # c
      BY <1>1, <1>3 DEF Copying
    <2>5. rule[t].created # work[w].rule.created
      BY <1>1, <2>1, <2>2 DEF Kept
    <2> QED BY <1>1, <2>3, <2>4, <2>5 DEF Copying
  <1> QED BY <1>2, <1>3

\* A sweep that took the rule's task to be gone.
NotRead(t) ==
  \E r \in Replicas :
    /\ work[r].at = "unread" /\ work[r].task = t
    /\ work'[r] # work[r]

LEMMA RemovalHasAReason ==
  ASSUME IInv, NEW r \in Replicas, RemoveUnread(r), work' # work,
         NEW t \in Tasks, Carries(t), ~Kept(t)
  PROVE  NotRead(t)
  <1>1. /\ work[r].at = "unread" /\ work[r].task \in Tasks /\ Done(r)
        /\ rule' = [rule EXCEPT ![work[r].task] = None]
    BY DEF RemoveUnread, IInv, InOrder, Busy, Workers
  <1>2. t = work[r].task
    BY <1>1 DEF Kept, Carries, IInv, TypeOK
  <1>3. work'[r] # work[r]
    BY <1>1, RestIsIdle DEF Done, IInv, TypeOK, Workers
  <1> QED BY <1>1, <1>2, <1>3 DEF NotRead

\* No worker makes a series stop silently: whatever the order of their reads
\* and writes and of people's edits, a rule that no task carries after a
\* worker's step was exhausted, or was saved or moved there while some worker
\* had its task in hand, or was that of the task the sweep had failed to read.
THEOREM SeriesEnd == Spec => SeriesEndsForAReason
  <1> DEFINE Step == work' # work =>
       \A t \in Tasks :
         /\ Carries(t)
         /\ ~\E u \in Tasks :
               rule'[u] # None /\ rule'[u].created = rule[t].created
         => \/ Exhausted(rule[t]) \/ rule[t].touched
            \/ \E r \in Replicas :
                 /\ work[r].at = "unread" /\ work[r].task = t
                 /\ work'[r] # work[r]
  <1>1. IInv /\ [Next]_vars => [Step]_vars
    <2> SUFFICES ASSUME IInv, Next, work' # work, NEW t \in Tasks, Carries(t), ~Kept(t)
                 PROVE  Exhausted(rule[t]) \/ rule[t].touched \/ NotRead(t)
      BY DEF Kept, NotRead
    <2>1. CASE People \/ LockLost
      BY <2>1 DEF People, LockLost, SetRecurrence, DeleteRecurrence, DeleteTask,
                  DueDateComes, UntilDateComes, AutomationSetsStatus
    <2>2. CASE \E h \in Requests : Request(h)
      BY <2>2, SameRulesAreKept
      DEF Request, BeginUpdate, Update, ReadBack, SpawnOnCompletion
    <2>3. CASE \E r \in Replicas : Sweep(r)
      <3> PICK r \in Replicas : Sweep(r)
        BY <2>3
      <3>1. CASE RemoveUnread(r)
        BY <3>1, RemovalHasAReason
      <3>2. CASE ~RemoveUnread(r)
        BY <3>2, SameRulesAreKept
        DEF Sweep, StartSweep, StartUnlocked, ReadDue, NextItem, EndSweep, Crash
      <3> QED BY <3>1, <3>2
    <2>4. CASE \E w \in Workers : Spawning(w)
      <3> PICK w \in Workers : Spawning(w)
        BY <2>4
      <3>1. CASE Expire(w)
        BY <3>1, ExpiryHasAReason
      <3>2. CASE CommitMove(w)
        BY <3>2, MovesLoseNothing
      <3>3. CASE (\E c \in Tasks : Create(w, c)) \/ CopyRule(w) \/ CallFails(w)
        BY <3>3, SameRulesAreKept DEF Create, CopyRule, CallFails
      <3> QED BY <3>1, <3>2, <3>3 DEF Spawning
    <2> QED BY <2>1, <2>2, <2>3, <2>4 DEF Next
  <1> QED BY <1>1, InvariantHolds, PTL DEF Spec, SeriesEndsForAReason

-----------------------------------------------------------------------------
(* A finished series goes on.                                              *)
(*                                                                         *)
(* Whoever finishes a task has it alone, or else it is disturbed, and goes *)
(* on until the rule has left it.                                          *)

\* A worker has a task only while busy, and a clone only once it is created.
Placed(w) ==
  /\ work[w].task # None => work[w].at \in Busy /\ task[work[w].task].at # "free"
  /\ work[w].clone # None => work[w].at \in Cloned

Alone(h, w) ==
  \A t \in Tasks :
    h # w /\ work[h].task = t => t \in disturbed \/ ~InHand(w, t)

CloneOpen(w) ==
  work[w].at \in Cloned =>
    work[w].clone \in disturbed \/ ~task[work[w].clone].completed

\* A request that finished its task and is to see what follows.
Ending(x) ==
  \/ x.at \in Busy \ {"update", "readback"}
  \/ x.at = "readback" /\ ~x.was

Attended(t) ==
  Carries(t) /\ rule[t].mode = "on_complete" /\ task[t].completed =>
    \/ rule[t].touched \/ t \in disturbed
    \/ \E h \in Requests : work[h].task = t /\ Ending(work[h])

Attending ==
  /\ \A w \in Workers : Placed(w) /\ CloneOpen(w)
  /\ \A h \in Requests, w \in Workers : Alone(h, w)
  /\ \A t \in Tasks : Attended(t)

\* What no step does to the rule of a task it does not see to.
RuleKeeps(t) ==
  \/ rule'[t] = None \/ rule'[t].touched \/ ~task'[t].completed \/ t \in disturbed'
  \/ /\ Carries(t) /\ rule'[t].mode = rule[t].mode
     /\ rule[t].touched => rule'[t].touched

\* People, and whatever else leaves every worker where it is.
LEMMA NobodyMoves ==
  ASSUME IInv, Attending, UNCHANGED <<work, batch>>, disturbed \subseteq disturbed',
         \A t \in Tasks :
           /\ task[t].at # "free" => task'[t].at # "free"
           /\ task'[t].completed => task[t].completed \/ t \in disturbed'
           /\ RuleKeeps(t)
  PROVE  Attending'
  <1>1. \A w \in Workers : Placed(w)' /\ CloneOpen(w)'
    <2> TAKE w \in Workers
    <2>1. work[w].task # None => work[w].task \in Tasks
      BY DEF Attending, Placed, IInv, InOrder
    <2>2. work[w].at \in Cloned => work[w].clone \in Tasks
      BY DEF IInv, InOrder
    <2> QED BY <2>1, <2>2 DEF Attending, Placed, CloneOpen
  <1>2. \A h \in Requests, w \in Workers : Alone(h, w)'
    BY DEF Attending, Alone, InHand
  <1>3. \A t \in Tasks : Attended(t)'
    BY DEF Attending, Attended, RuleKeeps, Carries
  <1> QED BY <1>1, <1>2, <1>3 DEF Attending

\* w goes to x, with a task it had in hand already, and clones nothing anew.
StaysAt(w, x) ==
  /\ x.task # None =>
       /\ x.task \in Tasks /\ x.at \in Busy /\ InHand(w, x.task)
       /\ task[x.task].at # "free"
       /\ w \in Requests => x.task = work[w].task
  /\ x.clone # None => x.clone = work[w].clone /\ x.at \in Cloned
  /\ x.at \in Cloned => work[w].at \in Cloned /\ x.clone = work[w].clone

\* A request that lets go of a task it finished has seen to it.
LetsGo(w, x) ==
  w \in Requests /\ work[w].task # None /\ Ending(work[w]) =>
    \/ x.task = work[w].task /\ Ending(x)
    \/ work[w].task \in disturbed'
    \/ rule'[work[w].task] = None
    \/ rule'[work[w].task].mode # "on_complete"
    \/ ~task[work[w].task].completed

LEMMA OneGoesOn ==
  ASSUME IInv, Attending, NEW w \in Workers, NEW x \in Work,
         work' = [work EXCEPT ![w] = x], task' = task, disturbed \subseteq disturbed',
         \A r \in Replicas : DOMAIN batch'[r] \subseteq DOMAIN batch[r],
         \A t \in Tasks : RuleKeeps(t),
         StaysAt(w, x), LetsGo(w, x)
  PROVE  Attending'
  <1>1. work'[w] = x /\ \A v \in Workers \ {w} : work'[v] = work[v]
    BY DEF IInv, TypeOK
  <1>2. \A v \in Workers : Placed(v)' /\ CloneOpen(v)'
    BY <1>1 DEF StaysAt, Attending, Placed, CloneOpen
  <1>3. \A v \in Workers : \A t \in Tasks : InHand(v, t)' => InHand(v, t)
    <2> SUFFICES ASSUME NEW v \in Workers, NEW t \in Tasks, InHand(v, t)'
                 PROVE  InHand(v, t)
      OBVIOUS
    <2>1. CASE v # w
      BY <1>1, <2>1 DEF InHand
    <2>2. CASE v = w
      <3>1. t # None
        BY RecurrenceAssumption
      <3> QED BY <1>1, <2>2, <3>1 DEF InHand, StaysAt
    <2> QED BY <2>1, <2>2
  <1>4. \A h \in Requests, v \in Workers : Alone(h, v)'
    <2> SUFFICES ASSUME NEW h \in Requests, NEW v \in Workers, NEW t \in Tasks,
                        h # v, work'[h].task = t, t \notin disturbed'
                 PROVE  ~InHand(v, t)'
      BY DEF Alone
    <2>1. work[h].task = t
      <3>1. t # None
        BY RecurrenceAssumption
      <3> QED BY <1>1, <3>1 DEF StaysAt, Workers
    <2> QED BY <1>3, <2>1 DEF Attending, Alone
  <1>5. ASSUME NEW t \in Tasks PROVE Attended(t)'
    <2> SUFFICES ASSUME Carries(t)', rule'[t].mode = "on_complete", task[t].completed,
                        ~rule'[t].touched, t \notin disturbed'
                 PROVE  \E h \in Requests : work'[h].task = t /\ Ending(work'[h])
      BY DEF Attended
    <2>1. PICK h \in Requests : work[h].task = t /\ Ending(work[h])
      BY DEF RuleKeeps, Carries, Attending, Attended
    <2>2. CASE h = w
      <3>1. t # None
        BY RecurrenceAssumption
      <3>2. x.task = t /\ Ending(x)
        BY <2>1, <2>2, <3>1 DEF LetsGo, Carries
      <3> QED BY <1>1, <2>2, <3>2
    <2>3. CASE h # w
      BY <1>1, <2>1, <2>3 DEF Workers
    <2> QED BY <2>2, <2>3
  <1> QED BY <1>2, <1>4, <1>5 DEF Attending

\* A worker that is through with its task, the sweep it is in shorter or not.
LEMMA OneRests ==
  ASSUME IInv, Attending, NEW w \in Workers, NEW x \in Work,
         x.task = None, x.clone = None, x.at \notin Cloned,
         work' = [work EXCEPT ![w] = x], task' = task, disturbed \subseteq disturbed',
         \A r \in Replicas : DOMAIN batch'[r] \subseteq DOMAIN batch[r],
         \A t \in Tasks : RuleKeeps(t), LetsGo(w, x)
  PROVE  Attending'
  <1>1. StaysAt(w, x)
    BY DEF StaysAt
  <1> QED BY <1>1, OneGoesOn

LEMMA SameRuleKeeps ==
  ASSUME rule' = rule, NEW t \in Tasks
  PROVE  RuleKeeps(t)
  BY DEF RuleKeeps, Carries

LEMMA PeopleAttend ==
  ASSUME IInv, Attending, People \/ LockLost
  PROVE  Attending'
  <1>1. CASE \E t \in Tasks, next \in {"none", "ahead", "due"}, max \in Limits,
               until \in Untils : SetRecurrence(t, next, max, until)
    <2> PICK t \in Tasks, next \in {"none", "ahead", "due"}, max \in Limits,
             until \in Untils : SetRecurrence(t, next, max, until)
      BY <1>1
    <2>1. UNCHANGED <<task, work, batch, disturbed>>
      BY DEF SetRecurrence, sweeps
    <2>2. ASSUME NEW u \in Tasks PROVE RuleKeeps(u)
      <3>1. CASE u # t
        BY <3>1 DEF SetRecurrence, RuleKeeps, Carries, IInv, TypeOK
      <3>2. CASE u = t /\ task[t].completed
        BY <3>2 DEF SetRecurrence, RuleKeeps, IInv, TypeOK
      <3>3. CASE u = t /\ ~task[t].completed
        BY <2>1, <3>3 DEF RuleKeeps
      <3> QED BY <3>1, <3>2, <3>3
    <2> QED BY <2>1, <2>2, NobodyMoves
  <1>2. ASSUME NEW t \in Tasks, DeleteRecurrence(t) \/ DeleteTask(t) PROVE Attending'
    <2>1. /\ UNCHANGED <<work, batch, disturbed>> /\ rule' = [rule EXCEPT ![t] = None]
          /\ task' \in {task, [task EXCEPT ![t].at = "gone"]}
      BY <1>2 DEF DeleteRecurrence, DeleteTask, sweeps
    <2>2. \A u \in Tasks : RuleKeeps(u)
      BY <2>1 DEF RuleKeeps, Carries, IInv, TypeOK
    <2>3. \A u \in Tasks : /\ task[u].at # "free" => task'[u].at # "free"
                           /\ task'[u].completed => task[u].completed
      BY <2>1 DEF IInv, TypeOK, Task
    <2> QED BY <2>1, <2>2, <2>3, NobodyMoves
  <1>3. ASSUME NEW t \in Tasks, DueDateComes(t) \/ UntilDateComes(t) PROVE Attending'
    <2>1. UNCHANGED <<task, work, batch, disturbed>>
      BY <1>3 DEF DueDateComes, UntilDateComes, sweeps
    <2>2. rule[t] \in Rule
      BY <1>3 DEF DueDateComes, UntilDateComes, Carries, IInv, TypeOK
    <2>3. ASSUME NEW u \in Tasks PROVE RuleKeeps(u)
      BY <1>3, <2>2 DEF DueDateComes, UntilDateComes, RuleKeeps, Carries, Rule, IInv, TypeOK
    <2> QED BY <2>1, <2>3, NobodyMoves
  <1>4. ASSUME NEW t \in Tasks, NEW s \in {"todo", "done"}, AutomationSetsStatus(t, s)
        PROVE  Attending'
    <2>1. /\ UNCHANGED <<work, batch, rule>> /\ disturbed \subseteq disturbed'
          /\ s = "done" => task[t].completed \/ t \in disturbed'
          /\ task' = [task EXCEPT ![t] = [@ EXCEPT !.status = s, !.completed = (s = "done")]]
      BY <1>4 DEF AutomationSetsStatus, Finishes, Updated, sweeps
    <2>2. \A u \in Tasks : /\ task[u].at # "free" => task'[u].at # "free"
                           /\ task'[u].completed => task[u].completed \/ u \in disturbed'
      BY <2>1 DEF IInv, TypeOK, Task
    <2> QED BY <2>1, <2>2, SameRuleKeeps, NobodyMoves
  <1>5. CASE LockLost
    <2>1. UNCHANGED <<task, rule, work, batch, disturbed>>
      BY <1>5 DEF LockLost
    <2> QED BY <2>1, SameRuleKeeps, NobodyMoves
  <1> QED BY <1>1, <1>2, <1>3, <1>4, <1>5 DEF People

\* Whoever begins with a task that another has in hand disturbs it.
LEMMA BeginUpdateAttends ==
  ASSUME IInv, Attending, NEW h \in Requests, NEW t \in Tasks, NEW s \in Patches,
         BeginUpdate(h, t, s)
  PROVE  Attending'
  <1> DEFINE x == [Idle EXCEPT !.at = "update", !.task = t,
                               !.was = task[t].completed, !.patch = s]
  <1>1. h \in Workers /\ x.at = "update" /\ x.task = t /\ x.clone = None
    BY DEF Workers, Idle
  <1>2. /\ work'[h] = x /\ \A v \in Workers \ {h} : work'[v] = work[v]
        /\ UNCHANGED <<task, rule, batch>> /\ disturbed \subseteq disturbed'
    BY <1>1 DEF BeginUpdate, sweeps, IInv, TypeOK
  <1>3. \A v \in Workers : Placed(v)' /\ CloneOpen(v)'
    BY <1>1, <1>2 DEF BeginUpdate, Live, Placed, CloneOpen, Attending, Busy, Cloned
  <1>4. (\E w \in Workers : InHand(w, t)) => t \in disturbed'
    BY DEF BeginUpdate
  <1>5. \A g \in Requests, v \in Workers : Alone(g, v)'
    <2> SUFFICES ASSUME NEW g \in Requests, NEW v \in Workers, NEW u \in Tasks,
                        g # v, work'[g].task = u, InHand(v, u)'
                 PROVE  u \in disturbed'
      BY DEF Alone
    <2>1. u # None
      BY RecurrenceAssumption
    <2>2. CASE u = t
      <3>1. CASE g = h
        BY <1>2, <1>4, <2>2, <3>1 DEF InHand
      <3>2. CASE g # h
        <4>1. work[g].task = t /\ g \in Workers
          BY <1>2, <2>2, <3>2 DEF Workers
        <4> QED BY <1>4, <2>2, <4>1 DEF InHand
      <3> QED BY <3>1, <3>2
    <2>3. CASE u # t
      <3>1. g # h /\ work[g].task = u
        BY <1>1, <1>2, <2>3 DEF Workers
      <3>2. InHand(v, u)
        BY <1>1, <1>2, <2>1, <2>3 DEF InHand
      <3> QED BY <1>2, <3>1, <3>2 DEF Attending, Alone
    <2> QED BY <2>2, <2>3
  <1>6. \A u \in Tasks : Attended(u)'
    <2> SUFFICES ASSUME NEW u \in Tasks, Carries(u), rule[u].mode = "on_complete",
                        task[u].completed, ~rule[u].touched, u \notin disturbed'
                 PROVE  \E g \in Requests : work'[g].task = u /\ Ending(work'[g])
      BY <1>2 DEF Attended, Carries
    <2>1. PICK g \in Requests : work[g].task = u /\ Ending(work[g])
      BY <1>2 DEF Attending, Attended
    <2>2. g # h
      BY <2>1 DEF BeginUpdate, Ending, Busy
    <2> QED BY <1>2, <2>1, <2>2 DEF Workers
  <1> QED BY <1>3, <1>5, <1>6 DEF Attending

\* Finishing a task that another's clone is means having it in hand with the
\* other; finishing one read as finished disturbs it.
LEMMA UpdateAttends ==
  ASSUME IInv, Attending, NEW h \in Requests, Update(h)
  PROVE  Attending'
  <1> DEFINE t == work[h].task
             s == work[h].patch
             x == [work[h] EXCEPT !.at = "readback", !.patch = "none"]
  <1>1. h \in Workers /\ t \in Tasks /\ work[h] \in Work /\ work[h].clone = None
    BY DEF Workers, Update, IInv, TypeOK, InOrder, Busy, Attending, Placed, Cloned
  <1>2. CASE ~Live(t)
    <2>1. /\ Done(h) /\ UNCHANGED <<task, rule, batch, disturbed>>
      BY <1>2 DEF Update, sweeps
    <2>2. LetsGo(h, Rest(h))
      BY DEF LetsGo, Ending, Update
    <2>3. Rest(h).at \notin Cloned /\ Rest(h) \in Work
      BY RestIsIdle DEF Cloned
    <2> QED BY <1>1, <2>1, <2>2, <2>3, RestIsIdle, SameRuleKeeps, OneRests DEF Done
  <1>3. CASE Live(t)
    <2>1. /\ task' = Updated(t, s) /\ work' = [work EXCEPT ![h] = x]
          /\ disturbed' = IF Finishes(t, s) /\ work[h].was
                          THEN disturbed \cup {t} ELSE disturbed
          /\ UNCHANGED <<rule, batch>>
      BY <1>3 DEF Update, sweeps
    <2>2. /\ x.at = "readback" /\ x.task = t /\ x.clone = None /\ x.was = work[h].was
          /\ work[h].at = "update"
      BY <1>1 DEF Work, Update
    <2>3. work'[h] = x /\ \A v \in Workers \ {h} : work'[v] = work[v]
      BY <1>1, <2>1 DEF IInv, TypeOK
    <2>4. \A u \in Tasks :
            /\ task'[u].at = task[u].at
            /\ u # t => task'[u] = task[u]
            /\ task'[u].completed => task[u].completed \/ (u = t /\ Finishes(t, s))
      <3>1. CASE s = "none"
        <4>1. task' = task
          BY <2>1, <3>1 DEF Updated
        <4> HIDE DEF t, s
        <4> QED BY <4>1
      <3>2. CASE s # "none"
        <4> DEFINE y == [task[t] EXCEPT !.status = s, !.completed = (s = "done")]
        <4>1. y.at = task[t].at /\ y.completed = (s = "done")
          BY <1>1 DEF IInv, TypeOK, Task
        <4>2. task' = [task EXCEPT ![t] = y]
          BY <2>1, <3>2 DEF Updated
        <4>3. task'[t] = y /\ \A u \in Tasks \ {t} : task'[u] = task[u]
          BY <1>1, <4>2 DEF IInv, TypeOK
        <4>4. y.completed => s = "done"
          BY <4>1
        <4> HIDE DEF t, s, y
        <4>5. ASSUME NEW u \in Tasks
              PROVE  /\ task'[u].at = task[u].at
                     /\ u # t => task'[u] = task[u]
                     /\ task'[u].completed
                        => task[u].completed \/ (u = t /\ Finishes(t, s))
          <5>1. CASE u = t
            BY <4>1, <4>3, <4>4, <5>1 DEF Finishes
          <5>2. CASE u # t
            BY <4>3, <5>2
          <5> QED BY <5>1, <5>2
        <4> QED BY <4>5
      <3> QED BY <3>1, <3>2
    <2>5. \A v \in Workers : /\ work'[v].task = work[v].task
                             /\ work'[v].clone = work[v].clone
                             /\ \A u \in Tasks : InHand(v, u)' <=> InHand(v, u)
      BY <1>1, <2>1, <2>2, <2>3 DEF InHand
    <2>6. disturbed \subseteq disturbed'
      BY <2>1
    <2>7. ASSUME NEW v \in Workers PROVE Placed(v)' /\ CloneOpen(v)'
      <3>1. CASE v = h
        <4>1. work'[v].task = t /\ work'[v].at = "readback" /\ work'[v].clone = None
          BY <2>2, <2>3, <3>1
        <4>2. task'[t].at = "live"
          BY <1>1, <1>3, <2>4 DEF Live
        <4> QED BY <4>1, <4>2 DEF Placed, CloneOpen, Busy, Cloned
      <3>2. CASE v # h
        <4>1. work'[v] = work[v]
          BY <2>3, <3>2
        <4>2. Placed(v)'
          <5>1. work[v].task # None => work[v].task \in Tasks
            BY DEF Attending, Placed, IInv, InOrder
          <5> QED BY <2>4, <4>1, <5>1 DEF Attending, Placed
        <4>3. CloneOpen(v)'
          <5> SUFFICES ASSUME work[v].at \in Cloned, work[v].clone \notin disturbed'
                       PROVE  ~task'[work[v].clone].completed
            BY <4>1 DEF CloneOpen
          <5>1. work[v].clone \in Tasks /\ ~task[work[v].clone].completed
            BY <2>6 DEF Attending, CloneOpen, IInv, InOrder
          <5>2. work[v].clone # t
            BY <1>1, <2>6, <3>2, <5>1 DEF Attending, Alone, InHand
          <5> QED BY <2>4, <5>1, <5>2
        <4> QED BY <4>2, <4>3
      <3> QED BY <3>1, <3>2
    <2>8. \A g \in Requests, v \in Workers : Alone(g, v)'
      BY <2>5, <2>6 DEF Attending, Alone, Workers
    <2>9. ASSUME NEW u \in Tasks PROVE Attended(u)'
      <3> SUFFICES ASSUME Carries(u), rule[u].mode = "on_complete", task'[u].completed,
                          ~rule[u].touched, u \notin disturbed'
                   PROVE  \E g \in Requests : work'[g].task = u /\ Ending(work'[g])
        BY <2>1 DEF Attended, Carries
      <3>1. CASE task[u].completed
        <4>1. PICK g \in Requests : work[g].task = u /\ Ending(work[g])
          BY <2>6, <3>1 DEF Attending, Attended
        <4>2. g # h
          BY <2>2, <4>1 DEF Ending
        <4> QED BY <2>3, <4>1, <4>2 DEF Workers
      <3>2. CASE ~task[u].completed
        <4>1. u = t /\ Finishes(t, s)
          BY <2>4, <3>2
        <4>2. ~work[h].was
          BY <2>1, <4>1
        <4> QED BY <2>2, <2>3, <4>1, <4>2 DEF Ending
      <3> QED BY <3>1, <3>2
    <2> QED BY <2>7, <2>8, <2>9 DEF Attending
  <1> QED BY <1>2, <1>3

\* What a worker keeps by going on with the task it has.
LEMMA KeepsTask ==
  ASSUME IInv, Attending, NEW w \in Workers, NEW x, work[w].at \in Busy, x.at \in Busy,
         x.task = work[w].task,
         \/ work[w].at \notin Cloned /\ x.at \notin Cloned /\ x.clone = None
         \/ work[w].at \in Cloned /\ x.at \in Cloned /\ x.clone = work[w].clone
  PROVE  StaysAt(w, x)
  <1>1. work[w].task \in Tasks /\ work[w].task # None
    BY RecurrenceAssumption DEF IInv, InOrder
  <1>2. task[work[w].task].at # "free"
    BY <1>1 DEF Attending, Placed
  <1> QED BY <1>1, <1>2 DEF StaysAt, InHand

\* A worker that is through.
LEMMA DoneAttends ==
  ASSUME IInv, Attending, NEW w \in Workers, Done(w), task' = task, batch' = batch,
         disturbed \subseteq disturbed', \A t \in Tasks : RuleKeeps(t),
         LetsGo(w, Rest(w))
  PROVE  Attending'
  <1>1. Rest(w).at \notin Cloned /\ Rest(w) \in Work
    BY RestIsIdle DEF Cloned
  <1> QED BY <1>1, RestIsIdle, OneRests DEF Done

LEMMA ReadBackAttends ==
  ASSUME IInv, Attending, NEW h \in Requests, ReadBack(h)
  PROVE  Attending'
  <1> DEFINE t == work[h].task
             x == [work[h] EXCEPT !.at = "rule", !.status = task[t].status]
  <1>1. /\ h \in Workers /\ t \in Tasks /\ work[h] \in Work /\ work[h].clone = None
        /\ work[h].at = "readback" /\ UNCHANGED <<task, rule, batch, disturbed>>
    BY DEF Workers, ReadBack, IInv, TypeOK, InOrder, Busy, Attending, Placed, Cloned, sweeps
  <1>2. CASE Live(t) /\ ~work[h].was /\ task[t].completed
    <2>1. task[t].status \in {"todo", "done"}
      BY <1>1 DEF IInv, TypeOK, Task
    <2>2. /\ x \in Work /\ x.at = "rule" /\ x.task = t /\ x.clone = None
          /\ work' = [work EXCEPT ![h] = x]
      BY <1>1, <1>2, <2>1 DEF Work, ReadBack
    <2>3. StaysAt(h, x)
      <3> HIDE DEF x
      <3> QED BY <1>1, <2>2, KeepsTask DEF Busy, Cloned
    <2>4. LetsGo(h, x)
      BY <2>2 DEF LetsGo, Ending, Busy
    <2> QED BY <1>1, <2>2, <2>3, <2>4, SameRuleKeeps, OneGoesOn
  <1>3. CASE ~(Live(t) /\ ~work[h].was /\ task[t].completed)
    <2>1. Done(h)
      BY <1>3 DEF ReadBack
    <2>2. ~Live(t) => rule[t] = None
      BY <1>1 DEF IInv, CarriersSound, Carries
    <2>3. LetsGo(h, Rest(h))
      BY <1>1, <1>3, <2>2 DEF LetsGo, Ending
    <2> QED BY <1>1, <2>1, <2>3, SameRuleKeeps, DoneAttends
  <1> QED BY <1>2, <1>3

LEMMA SpawnOnCompletionAttends ==
  ASSUME IInv, Attending, NEW h \in Requests, SpawnOnCompletion(h)
  PROVE  Attending'
  <1> DEFINE t == work[h].task
             x == Taken(t, work[h].status, rule[t])
  <1>1. /\ h \in Workers /\ t \in Tasks /\ work[h] \in Work
        /\ work[h].at = "rule" /\ UNCHANGED <<task, rule, batch, disturbed>>
    BY DEF Workers, SpawnOnCompletion, IInv, TypeOK, InOrder, Busy, sweeps
  <1>2. CASE Carries(t) /\ rule[t].mode = "on_complete"
    <2>1. rule[t] \in Rule /\ work[h].status \in {"todo", "done"}
      BY <1>1, <1>2 DEF IInv, TypeOK, Work, Carries
    <2>2. /\ x \in Work /\ x.at \in {"expire", "create"} /\ x.task = t
          /\ work' = [work EXCEPT ![h] = x]
      BY <1>1, <1>2, <2>1, TakenIsWork DEF SpawnOnCompletion
    <2>3. x.clone = None
      BY DEF Taken, Idle
    <2>4. StaysAt(h, x)
      BY <1>1, <2>2, <2>3, KeepsTask DEF Busy, Cloned
    <2>5. LetsGo(h, x)
      BY <2>2 DEF LetsGo, Ending, Busy
    <2> QED BY <1>1, <2>2, <2>4, <2>5, SameRuleKeeps, OneGoesOn
  <1>3. CASE ~(Carries(t) /\ rule[t].mode = "on_complete")
    <2>1. Done(h)
      BY <1>3 DEF SpawnOnCompletion
    <2>2. LetsGo(h, Rest(h))
      BY <1>1, <1>3 DEF LetsGo, Carries
    <2> QED BY <1>1, <2>1, <2>2, SameRuleKeeps, DoneAttends
  <1> QED BY <1>2, <1>3

LEMMA ExpireAttends ==
  ASSUME IInv, Attending, NEW w \in Workers, Expire(w) \/ RemoveUnread(w)
  PROVE  Attending'
  <1>1. /\ work[w].task \in Tasks /\ rule' = [rule EXCEPT ![work[w].task] = None]
        /\ UNCHANGED <<task, batch, disturbed>> /\ Done(w)
    BY DEF Expire, RemoveUnread, IInv, InOrder, Busy, sweeps
  <1>2. \A t \in Tasks : RuleKeeps(t)
    BY <1>1 DEF RuleKeeps, Carries, IInv, TypeOK
  <1>3. LetsGo(w, Rest(w))
    BY <1>1 DEF LetsGo, IInv, TypeOK
  <1> QED BY <1>1, <1>2, <1>3, DoneAttends

\* Whatever breaks off leaves its task disturbed.
LEMMA CallFailsAttends ==
  ASSUME IInv, Attending, NEW w \in Workers, CallFails(w)
  PROVE  Attending'
  <1>1. /\ disturbed' = disturbed \cup {work[w].task} /\ Done(w)
        /\ UNCHANGED <<task, rule, batch>>
    BY DEF CallFails, sweeps
  <1>2. LetsGo(w, Rest(w))
    BY <1>1 DEF LetsGo
  <1> QED BY <1>1, <1>2, SameRuleKeeps, DoneAttends

LEMMA CopyRuleAttends ==
  ASSUME IInv, TypeOK', Attending, NEW w \in Workers, CopyRule(w)
  PROVE  Attending'
  <1> DEFINE x == [work[w] EXCEPT !.at = "commit",
                                  !.rule = Copied(rule[work[w].task], work[w].rule)]
  <1>1. UNCHANGED <<task, rule, batch>> /\ work[w].at = "move" /\ work[w] \in Work
    BY DEF CopyRule, sweeps, IInv, TypeOK
  <1>2. CASE MoveFails(w)
    <2>1. Done(w) /\ disturbed' = disturbed \cup {work[w].task}
      BY <1>2 DEF CopyRule
    <2>2. LetsGo(w, Rest(w))
      BY <2>1 DEF LetsGo
    <2> QED BY <1>1, <2>1, <2>2, SameRuleKeeps, DoneAttends
  <1>3. CASE ~MoveFails(w)
    <2>1. work' = [work EXCEPT ![w] = x] /\ disturbed' = disturbed
      BY <1>3 DEF CopyRule
    <2>2. /\ x.at = "commit" /\ x.task = work[w].task /\ x.clone = work[w].clone
          /\ x \in Work
      <3>1. work'[w] = x
        BY <2>1 DEF IInv, TypeOK
      <3>2. x \in Work
        BY <3>1 DEF TypeOK
      <3> QED BY <1>1, <3>2 DEF Work
    <2>3. StaysAt(w, x)
      <3> HIDE DEF x
      <3> QED BY <1>1, <2>2, KeepsTask DEF Busy, Cloned
    <2>4. LetsGo(w, x)
      BY <2>2 DEF LetsGo, Ending, Busy
    <2> QED BY <1>1, <2>1, <2>2, <2>3, <2>4, SameRuleKeeps, OneGoesOn
  <1> QED BY <1>2, <1>3

\* The clone that a rule arrives at is open, or disturbed.
LEMMA CommitAttends ==
  ASSUME IInv, Attending, NEW w \in Workers, CommitMove(w)
  PROVE  Attending'
  <1> DEFINE t == work[w].task
             c == work[w].clone
  <1>1. /\ t \in Tasks /\ c \in Tasks /\ work[w].at = "commit" /\ Done(w)
        /\ UNCHANGED <<task, batch, disturbed>>
    BY DEF CommitMove, IInv, InOrder, Busy, Cloned, sweeps
  <1>2. \A u \in Tasks \ {t, c} : rule'[u] = rule[u]
    BY <1>1 DEF CommitMove, IInv, TypeOK
  <1>3. c \in disturbed \/ ~task[c].completed
    BY <1>1 DEF Attending, CloneOpen, Cloned
  <1>4. t # c => rule'[t] = None
    BY <1>1 DEF CommitMove, IInv, TypeOK
  <1>5. \A u \in Tasks : RuleKeeps(u)
    BY <1>1, <1>2, <1>3, <1>4 DEF RuleKeeps, Carries
  <1>6. LetsGo(w, Rest(w))
    BY <1>1, <1>3, <1>4 DEF LetsGo
  <1> QED BY <1>1, <1>5, <1>6, DoneAttends

\* A new clone is nobody's task and not finished.
LEMMA CreateAttends ==
  ASSUME IInv, Attending, NEW w \in Workers, NEW c \in Tasks, Create(w, c)
  PROVE  Attending'
  <1> DEFINE x == [work[w] EXCEPT !.at = "move", !.clone = c]
  <1>1. /\ work[w].at = "create" /\ work[w] \in Work /\ work[w].task \in Tasks
        /\ task[c].at = "free" /\ UNCHANGED <<rule, batch, disturbed>>
    BY DEF Create, sweeps, IInv, TypeOK, InOrder, Busy
  <1>2. x.at = "move" /\ x.clone = c /\ x.task = work[w].task /\ x.was = work[w].was
    BY <1>1 DEF Work
  <1>3. work'[w] = x /\ \A v \in Workers \ {w} : work'[v] = work[v]
    BY DEF Create, IInv, TypeOK
  <1>4. /\ task'[c].at = "live" /\ task'[c].completed = FALSE
        /\ \A u \in Tasks \ {c} : task'[u] = task[u]
    BY DEF Create, IInv, TypeOK
  <1> HIDE DEF x
  <1>5. \A v \in Workers : work'[v].task = work[v].task
    BY <1>2, <1>3
  <1>6. \A v \in Workers : work[v].task # c
    BY <1>1, RecurrenceAssumption DEF Attending, Placed
  <1>7. ASSUME NEW v \in Workers PROVE Placed(v)' /\ CloneOpen(v)'
    <2>1. work[v].task # None => work[v].task \in Tasks /\ work[v].task # c
      BY <1>6 DEF Attending, Placed, IInv, InOrder
    <2>2. CASE v = w
      BY <1>1, <1>2, <1>3, <1>4, <1>6, <2>2 DEF Placed, CloneOpen, Attending, Busy, Cloned
    <2>3. CASE v # w
      <3>1. work[v].at \in Cloned => work[v].clone \in Tasks \ {c}
        BY <1>1 DEF IInv, InOrder
      <3> QED BY <1>1, <1>3, <1>4, <2>1, <2>3, <3>1 DEF Placed, CloneOpen, Attending
    <2> QED BY <2>2, <2>3
  <1>8. \A g \in Requests, v \in Workers : Alone(g, v)'
    <2> SUFFICES ASSUME NEW g \in Requests, NEW v \in Workers, NEW u \in Tasks,
                        g # v, work'[g].task = u, InHand(v, u)'
                 PROVE  u \in disturbed'
      BY DEF Alone
    <2>1. work[g].task = u /\ u # c
      BY <1>5, <1>6 DEF Workers
    <2>2. InHand(v, u)
      BY <1>1, <1>2, <1>3, <2>1 DEF InHand
    <2> QED BY <1>1, <2>1, <2>2 DEF Attending, Alone
  <1>9. ASSUME NEW u \in Tasks PROVE Attended(u)'
    <2> SUFFICES ASSUME Carries(u), rule[u].mode = "on_complete", task'[u].completed,
                        ~rule[u].touched, u \notin disturbed
                 PROVE  \E g \in Requests : work'[g].task = u /\ Ending(work'[g])
      BY <1>1 DEF Attended, Carries
    <2>1. PICK g \in Requests : work[g].task = u /\ Ending(work[g])
      BY <1>4 DEF Attending, Attended
    <2>2. Ending(work'[g])
      BY <1>2, <1>3, <2>1 DEF Workers, Ending, Busy
    <2> QED BY <1>5, <2>1, <2>2 DEF Workers
  <1> QED BY <1>7, <1>8, <1>9 DEF Attending

LEMMA StartAttends ==
  ASSUME IInv, Attending, NEW r \in Replicas, StartSweep(r) \/ StartUnlocked(r)
  PROVE  Attending'
  <1> DEFINE x == [work[r] EXCEPT !.at = "locked"]
  <1>1. /\ r \in Workers /\ r \notin Requests /\ work[r] \in Work
        /\ work[r].task = None /\ work[r].clone = None
        /\ UNCHANGED <<task, rule, batch, disturbed>> /\ work' = [work EXCEPT ![r] = x]
    BY RecurrenceAssumption
       DEF StartSweep, StartUnlocked, Workers, IInv, TypeOK, Attending, Placed, Busy, Cloned
  <1>2. x \in Work /\ x.task = None /\ x.clone = None /\ x.at \notin Cloned
    BY <1>1 DEF Work, Cloned
  <1> HIDE DEF x
  <1>3. LetsGo(r, x)
    BY <1>1 DEF LetsGo
  <1> QED BY <1>1, <1>2, <1>3, SameRuleKeeps, OneRests

\* A sweep that reads a rule whose task a request has in hand disturbs it.
LEMMA ReadDueAttends ==
  ASSUME IInv, Attending, NEW r \in Replicas, ReadDue(r)
  PROVE  Attending'
  <1> DEFINE x == [work[r] EXCEPT !.at = "sweep"]
  <1>1. PICK due \in SUBSET Tasks :
          /\ batch' = [batch EXCEPT ![r] = [t \in due |-> rule[t]]]
          /\ disturbed' = disturbed \cup {t \in due : \E h \in Requests : InHand(h, t)}
    BY DEF ReadDue
  <1>2. /\ r \in Workers /\ r \notin Requests /\ work[r] \in Work
        /\ work[r].task = None /\ work[r].clone = None /\ UNCHANGED <<task, rule>>
        /\ work' = [work EXCEPT ![r] = x]
    BY RecurrenceAssumption
       DEF ReadDue, Workers, IInv, TypeOK, Attending, Placed, Busy, Cloned
  <1>3. x.task = None /\ x.clone = None /\ x.at = "sweep"
    BY <1>2 DEF Work
  <1>4. work'[r] = x /\ \A v \in Workers \ {r} : work'[v] = work[v]
    BY <1>2 DEF IInv, TypeOK
  <1>5. DOMAIN batch'[r] = due /\ \A q \in Replicas \ {r} : batch'[q] = batch[q]
    BY <1>1 DEF IInv, TypeOK
  <1> HIDE DEF x
  <1>6. \A v \in Workers : Placed(v)' /\ CloneOpen(v)'
    BY <1>1, <1>2, <1>3, <1>4 DEF Attending, Placed, CloneOpen, Cloned
  <1>7. \A h \in Requests : work'[h] = work[h]
    BY <1>2, <1>4 DEF Workers
  <1>8. \A h \in Requests, v \in Workers : Alone(h, v)'
    <2> SUFFICES ASSUME NEW h \in Requests, NEW v \in Workers, NEW t \in Tasks,
                        h # v, work[h].task = t, InHand(v, t)'
                 PROVE  t \in disturbed'
      BY <1>7 DEF Alone
    <2>1. CASE v = r
      <3>1. t \in due
        BY <1>3, <1>4, <1>5, <2>1, RecurrenceAssumption DEF InHand
      <3> QED BY <1>1, <3>1 DEF InHand
    <2>2. CASE v # r
      <3>1. InHand(v, t)
        BY <1>4, <1>5, <2>2 DEF InHand
      <3> QED BY <1>1, <3>1 DEF Attending, Alone
    <2> QED BY <2>1, <2>2
  <1>9. \A t \in Tasks : Attended(t)'
    BY <1>1, <1>2, <1>7 DEF Attending, Attended, Carries
  <1> QED BY <1>6, <1>8, <1>9 DEF Attending

LEMMA NextItemAttends ==
  ASSUME IInv, Attending, NEW r \in Replicas, NEW t \in Tasks, NextItem(r, t)
  PROVE  Attending'
  <1> DEFINE read == batch[r][t]
             x == Taken(t, task[t].status, read)
             y == Unread(t, read)
  <1>1. /\ r \in Workers /\ r \notin Requests /\ work[r] \in Work
        /\ work[r].task = None /\ work[r].clone = None /\ work[r].at = "sweep"
        /\ UNCHANGED <<task, rule, disturbed>> /\ t \in DOMAIN batch[r]
    BY RecurrenceAssumption
       DEF NextItem, Workers, IInv, TypeOK, Attending, Placed, Busy, Cloned
  <1>2. \A q \in Replicas : DOMAIN batch'[q] \subseteq DOMAIN batch[q]
    BY DEF NextItem, IInv, TypeOK
  <1>3. /\ read \in Rule /\ task[t].status \in {"todo", "done"}
        /\ t \in Tasks /\ task[t].at # "free" /\ InHand(r, t)
    BY <1>1 DEF IInv, TypeOK, Task, BatchRead, InHand
  <1>4. ASSUME NEW z \in Work, work' = [work EXCEPT ![r] = z],
               z.at \in {"unread", "expire", "create"}, z.task = t, z.clone = None
        PROVE  Attending'
    <2>1. StaysAt(r, z)
      BY <1>1, <1>3, <1>4 DEF StaysAt, Busy, Cloned
    <2>2. LetsGo(r, z)
      BY <1>1 DEF LetsGo
    <2> QED BY <1>1, <1>2, <1>4, <2>1, <2>2, SameRuleKeeps, OneGoesOn
  <1>5. CASE work' = [work EXCEPT ![r] = x]
    <2>1. x \in Work /\ x.at \in {"expire", "create"} /\ x.task = t
      BY <1>3, TakenIsWork
    <2>2. x.clone = None
      BY DEF Taken, Idle
    <2> HIDE DEF x
    <2> QED BY <1>4, <1>5, <2>1, <2>2
  <1>6. CASE work' = [work EXCEPT ![r] = y]
    <2>1. y \in Work /\ y.at = "unread" /\ y.task = t /\ y.clone = None
      BY <1>3, UnreadIsWork
    <2> HIDE DEF y
    <2> QED BY <1>4, <1>6, <2>1
  <1> QED BY <1>5, <1>6 DEF NextItem

LEMMA SweepEndsAttends ==
  ASSUME IInv, Attending, NEW r \in Replicas, EndSweep(r) \/ Crash(r)
  PROVE  Attending'
  <1>1. /\ r \in Workers /\ r \notin Requests /\ UNCHANGED <<task, rule>>
        /\ work' = [work EXCEPT ![r] = Idle] /\ disturbed \subseteq disturbed'
    BY RecurrenceAssumption DEF EndSweep, Crash, Workers
  <1>2. \A q \in Replicas : DOMAIN batch'[q] \subseteq DOMAIN batch[q]
    BY DEF EndSweep, Crash, NoItems, IInv, TypeOK
  <1>3. Idle \in Work /\ Idle.task = None /\ Idle.clone = None /\ Idle.at \notin Cloned
    BY DEF Idle, Work, Cloned
  <1>4. LetsGo(r, Idle)
    BY <1>1 DEF LetsGo
  <1> QED BY <1>1, <1>2, <1>3, <1>4, SameRuleKeeps, OneRests

LEMMA AttendingInitially == Init => Attending
  <1> SUFFICES ASSUME Init PROVE Attending
    OBVIOUS
  <1>1. \A w \in Workers : work[w].at = "idle" /\ work[w].task = None /\ work[w].clone = None
    BY DEF Init, Idle
  <1>2. \A w \in Workers : Placed(w) /\ CloneOpen(w)
    BY <1>1 DEF Placed, CloneOpen, Cloned
  <1>3. \A h \in Requests, w \in Workers : Alone(h, w)
    BY <1>1, RecurrenceAssumption DEF Alone, Workers
  <1>4. \A t \in Tasks : Attended(t)
    BY DEF Init, Attended, Carries
  <1> QED BY <1>2, <1>3, <1>4 DEF Attending

LEMMA AttendingIsPreserved == IInv /\ IInv' /\ Attending /\ [Next]_vars => Attending'
  <1> SUFFICES ASSUME IInv, IInv', Attending, [Next]_vars PROVE Attending'
    OBVIOUS
  <1>1. CASE People \/ LockLost
    BY <1>1, PeopleAttend
  <1>2. CASE \E h \in Requests : Request(h)
    BY <1>2, BeginUpdateAttends, UpdateAttends, ReadBackAttends,
       SpawnOnCompletionAttends DEF Request
  <1>3. CASE \E w \in Workers : Spawning(w)
    <2>1. TypeOK'
      BY DEF IInv
    <2> QED BY <1>3, <2>1, ExpireAttends, CreateAttends, CopyRuleAttends,
               CommitAttends, CallFailsAttends DEF Spawning
  <1>4. CASE \E r \in Replicas : Sweep(r)
    BY <1>4, StartAttends, ReadDueAttends, NextItemAttends, ExpireAttends,
       SweepEndsAttends DEF Sweep, Workers
  <1>5. CASE UNCHANGED vars
    <2>1. UNCHANGED <<task, rule, work, batch, disturbed>>
      BY <1>5 DEF vars
    <2> QED BY <2>1, SameRuleKeeps, NobodyMoves
  <1> QED BY <1>1, <1>2, <1>3, <1>4, <1>5 DEF Next

\* A finished task does not keep a completion-driven rule once no request has it
\* in hand, unless somebody saved the rule too late or the task was disturbed:
\* the request that finishes a task alone sees its series on.
THEOREM FinishedSeriesContinues == Spec => []FinishedSeriesGoesOn
  <1>1. Attending => FinishedSeriesGoesOn
    BY DEF Attending, Attended, FinishedSeriesGoesOn, InHand
  <1> QED BY <1>1, InvariantHolds, AttendingInitially, AttendingIsPreserved, PTL DEF Spec
-----------------------------------------------------------------------------
(* One successor.                                                          *)
(*                                                                         *)
(* Unless the task is disturbed or a sweep ran without the lock, at most   *)
(* one worker has it in hand; and whoever is about to create its next      *)
(* instance from a rule is the first to do so from that rule.              *)

Excused(t) == t \in disturbed \/ unlocked
ExcusedThen(t) == t \in disturbed' \/ unlocked'

\* The replica that sweeps holds the lock.
OwnLock(r) ==
  /\ unlocked \/ work[r].at = "idle" \/ holder = r
  /\ work[r].at = "idle" => DOMAIN batch[r] = {}
  /\ work[r].task \notin DOMAIN batch[r]

Sole(v, w) ==
  \A t \in Tasks : v # w /\ InHand(v, t) /\ InHand(w, t) => Excused(t)

Exclusive ==
  /\ \A r \in Replicas : OwnLock(r)
  /\ \A v, w \in Workers : Sole(v, w)

\* Every rule seen so far has a number, and every parent was there.
Numbered ==
  /\ \A c \in Tasks :
       /\ task[c].of <= made
       /\ task[c].parent # None => task[task[c].parent].at # "free"
  /\ \A w \in Workers : work[w].rule # None => work[w].rule.created <= made
  /\ \A r \in Replicas : \A t \in DOMAIN batch[r] : batch[r][t].created <= made

NoHeir(t, k) == \A c \in Tasks : ~(task[c].parent = t /\ task[c].of = k)
Childless(t) == \A c \in Tasks : task[c].parent # t

OneHeir(t) ==
  \A c, d \in Tasks :
    c # d /\ task[c].parent = t /\ task[d].parent = t => task[c].of # task[d].of

\* A rule that has its clone already is on its way to it.
SeenTo(t) ==
  Carries(t) =>
    \/ NoHeir(t, rule[t].created)
    \/ \E w \in Workers : work[w].task = t /\ work[w].at \in Cloned

Heirs ==
  /\ \A t \in Tasks : ~Excused(t) => OneHeir(t) /\ SeenTo(t)
  /\ \A w \in Workers :
       /\ work[w].at = "create" =>
            Excused(work[w].task) \/ NoHeir(work[w].task, work[w].rule.created)
       /\ work[w].at \in Cloned =>
            Excused(work[w].clone) \/ Childless(work[w].clone)
  /\ \A r \in Replicas : \A t \in DOMAIN batch[r] :
       Excused(t) \/ NoHeir(t, batch[r][t].created)

Succeeding == Exclusive /\ Numbered /\ Heirs

\* What no step does to a rule: turn it into one that t has a clone from.
RuleSettles(t) ==
  \/ rule'[t] = None \/ ExcusedThen(t) \/ NoHeir(t, rule'[t].created)
  \/ Carries(t) /\ rule'[t].created = rule[t].created

FamiliesStay ==
  \A c \in Tasks : /\ task'[c].parent = task[c].parent /\ task'[c].of = task[c].of
                   /\ task[c].at # "free" => task'[c].at # "free"

\* People, and whatever else leaves every worker where it is.
LEMMA NobodySucceeds ==
  ASSUME IInv, Succeeding, UNCHANGED <<work, batch>>, FamiliesStay,
         made' \in Nat, made <= made', disturbed \subseteq disturbed',
         unlocked' \/ (unlocked' = unlocked /\ holder' = holder),
         \A t \in Tasks : RuleSettles(t)
  PROVE  Succeeding'
  <1>1. \A t : Excused(t) => Excused(t)'
    <2>1. unlocked => unlocked'
      OBVIOUS
    <2> QED BY <2>1 DEF Excused
  <1>2. Exclusive'
    <2>1. \A v, w \in Workers : Sole(v, w)'
      BY <1>1 DEF Succeeding, Exclusive, Sole, InHand
    <2>2. \A r \in Replicas : OwnLock(r)'
      BY DEF Succeeding, Exclusive, OwnLock
    <2> QED BY <2>1, <2>2 DEF Exclusive
  <1>3. \A t, k : NoHeir(t, k) => NoHeir(t, k)'
    BY DEF FamiliesStay, NoHeir
  <1>4. \A t : Childless(t) => Childless(t)'
    BY DEF FamiliesStay, Childless
  <1>5. Numbered'
    <2>1. made \in Nat /\ \A c \in Tasks : task[c].of \in Nat /\ task[c].parent \in Tasks \cup {None}
      BY RecurrenceAssumption DEF IInv, TypeOK, Task
    <2>2. \A w \in Workers : work[w].rule # None => work[w].rule.created \in Nat
      BY RecurrenceAssumption DEF IInv, TypeOK, Work, Rule
    <2>3. \A r \in Replicas : \A t \in DOMAIN batch[r] : batch[r][t].created \in Nat
      BY RecurrenceAssumption DEF IInv, TypeOK, Rule
    <2>4. \A c \in Tasks : /\ task'[c].of <= made'
                           /\ task'[c].parent # None => task'[task'[c].parent].at # "free"
      BY <2>1 DEF Succeeding, Numbered, FamiliesStay
    <2>5. \A w \in Workers : work[w].rule # None => work[w].rule.created <= made'
      BY <2>1, <2>2 DEF Succeeding, Numbered
    <2>6. \A r \in Replicas : \A t \in DOMAIN batch[r] : batch[r][t].created <= made'
      BY <2>1, <2>3 DEF Succeeding, Numbered
    <2> QED BY <2>4, <2>5, <2>6 DEF Numbered
  <1>6. ASSUME NEW t \in Tasks, ~Excused(t)' PROVE OneHeir(t)' /\ SeenTo(t)'
    <2>1. OneHeir(t) /\ SeenTo(t)
      BY <1>1, <1>6 DEF Succeeding, Heirs
    <2>2. OneHeir(t)'
      BY <2>1 DEF OneHeir, FamiliesStay
    <2>3. SeenTo(t)'
      BY <1>3, <1>6, <2>1 DEF RuleSettles, Excused, ExcusedThen, SeenTo, Carries, NoHeir,
                              FamiliesStay
    <2> QED BY <2>2, <2>3
  <1>7. \A w \in Workers :
          /\ work[w].at = "create" =>
               Excused(work[w].task)' \/ NoHeir(work[w].task, work[w].rule.created)'
          /\ work[w].at \in Cloned =>
               Excused(work[w].clone)' \/ Childless(work[w].clone)'
    BY <1>1, <1>3, <1>4 DEF Succeeding, Heirs, Excused, NoHeir, Childless, FamiliesStay
  <1>8. \A r \in Replicas : \A t \in DOMAIN batch[r] :
          Excused(t)' \/ NoHeir(t, batch[r][t].created)'
    BY <1>1, <1>3 DEF Succeeding, Heirs, NoHeir, FamiliesStay
  <1>9. Heirs'
    BY <1>6, <1>7, <1>8 DEF Heirs, Excused, NoHeir, Childless
  <1> QED BY <1>2, <1>5, <1>9 DEF Succeeding

\* w takes in hand what nobody else has, or what is excused by then.
TakesAlone(w) ==
  \A t \in Tasks :
    InHand(w, t)' => \/ InHand(w, t) \/ ExcusedThen(t)
                     \/ \A v \in Workers \ {w} : ~InHand(v, t)

LocksStay(w) ==
  /\ w \in Replicas => OwnLock(w)'
  /\ \A r \in Replicas \ {w} : unlocked' \/ (holder = r => holder' = r)

\* The rules w has read were there before, or have no clone yet.
ReadsSettle(w) ==
  /\ \A r \in Replicas \ {w} : batch'[r] = batch[r]
  /\ w \in Replicas =>
       \A t \in DOMAIN batch'[w] :
         \/ t \in DOMAIN batch[w] /\ batch'[w][t] = batch[w][t]
         \/ /\ batch'[w][t].created <= made
            /\ ExcusedThen(t) \/ NoHeir(t, batch'[w][t].created)

\* w goes to x with a rule that has no clone yet, or with the clone it has, and
\* a task whose clone it has is not left with the rule.
Proceeds(w, x) ==
  /\ x.rule # None => x.rule.created <= made
  /\ x.at = "create" => ExcusedThen(x.task) \/ NoHeir(x.task, x.rule.created)
  /\ x.at \in Cloned => work[w].at \in Cloned /\ x.clone = work[w].clone
  /\ work[w].at \in Cloned =>
       \/ x.at \in Cloned /\ x.task = work[w].task
       \/ ExcusedThen(work[w].task) \/ rule'[work[w].task] = None
       \/ Childless(work[w].task)

LEMMA OneSucceeds ==
  ASSUME IInv, Succeeding, NEW w \in Workers, NEW x \in Work,
         work' = [work EXCEPT ![w] = x], FamiliesStay, made' = made,
         disturbed \subseteq disturbed', unlocked => unlocked',
         TakesAlone(w), LocksStay(w), ReadsSettle(w), Proceeds(w, x),
         \A t \in Tasks : RuleSettles(t)
  PROVE  Succeeding'
  <1>1. work'[w] = x /\ \A v \in Workers \ {w} : work'[v] = work[v]
    BY DEF IInv, TypeOK
  <1>2. \A t : Excused(t) => Excused(t)'
    BY DEF Excused
  <1>3. \A v \in Workers \ {w}, t \in Tasks : InHand(v, t)' <=> InHand(v, t)
    BY <1>1 DEF InHand, ReadsSettle
  <1>4. \A u, v \in Workers : Sole(u, v)'
    <2> SUFFICES ASSUME NEW u \in Workers, NEW v \in Workers, NEW t \in Tasks,
                        u # v, InHand(u, t)', InHand(v, t)'
                 PROVE  Excused(t)'
      BY DEF Sole
    <2>1. CASE u # w /\ v # w
      BY <1>2, <1>3, <2>1 DEF Succeeding, Exclusive, Sole
    <2>2. CASE u = w
      BY <1>2, <1>3, <2>2 DEF Succeeding, Exclusive, Sole, TakesAlone, Excused, ExcusedThen
    <2>3. CASE v = w
      BY <1>2, <1>3, <2>3 DEF Succeeding, Exclusive, Sole, TakesAlone, Excused, ExcusedThen
    <2> QED BY <2>1, <2>2, <2>3
  <1>5. \A r \in Replicas : OwnLock(r)'
    <2> TAKE r \in Replicas
    <2>1. r \in Workers
      BY DEF Workers
    <2>2. CASE r = w
      BY <2>2 DEF LocksStay
    <2>3. CASE r # w
      BY <1>1, <2>1, <2>3 DEF Succeeding, Exclusive, OwnLock, LocksStay, ReadsSettle
    <2> QED BY <2>2, <2>3
  <1>6. \A t, k : NoHeir(t, k) => NoHeir(t, k)'
    BY DEF FamiliesStay, NoHeir
  <1>7. \A t : Childless(t) => Childless(t)'
    BY DEF FamiliesStay, Childless
  <1>8. Numbered'
    <2>1. \A c \in Tasks : /\ task'[c].of <= made'
                           /\ task'[c].parent # None => task'[task'[c].parent].at # "free"
      <3>1. \A c \in Tasks : task[c].parent \in Tasks \cup {None}
        BY DEF IInv, TypeOK, Task
      <3> QED BY <3>1 DEF Succeeding, Numbered, FamiliesStay
    <2>2. \A v \in Workers : work'[v].rule # None => work'[v].rule.created <= made'
      BY <1>1 DEF Succeeding, Numbered, Proceeds
    <2>3. \A r \in Replicas : \A t \in DOMAIN batch'[r] : batch'[r][t].created <= made'
      BY DEF Succeeding, Numbered, ReadsSettle
    <2> QED BY <2>1, <2>2, <2>3 DEF Numbered
  <1>9. ASSUME NEW t \in Tasks, ~Excused(t)' PROVE OneHeir(t)' /\ SeenTo(t)'
    <2>1. OneHeir(t) /\ SeenTo(t)
      BY <1>2, <1>9 DEF Succeeding, Heirs
    <2>2. OneHeir(t)'
      BY <2>1 DEF OneHeir, FamiliesStay
    <2>3. SeenTo(t)'
      <3> SUFFICES ASSUME rule'[t] # None, ~NoHeir(t, rule'[t].created)
                   PROVE  \E v \in Workers : work'[v].task = t /\ work'[v].at \in Cloned
        BY DEF SeenTo, Carries, NoHeir, FamiliesStay
      <3>1. PICK v \in Workers : work[v].task = t /\ work[v].at \in Cloned
        BY <1>9, <2>1 DEF RuleSettles, SeenTo, Excused, ExcusedThen
      <3>2. CASE v # w
        BY <1>1, <3>1, <3>2
      <3>3. CASE v = w
        <4>1. ~Childless(t)
          BY DEF NoHeir, Childless
        <4> QED BY <1>1, <1>9, <3>1, <3>3, <4>1 DEF Proceeds, Excused, ExcusedThen
      <3> QED BY <3>2, <3>3
    <2> QED BY <2>2, <2>3
  <1>10. ASSUME NEW v \in Workers
         PROVE  /\ work'[v].at = "create" =>
                     \/ ExcusedThen(work'[v].task)
                     \/ NoHeir(work'[v].task, work'[v].rule.created)
                /\ work'[v].at \in Cloned =>
                     ExcusedThen(work'[v].clone) \/ Childless(work'[v].clone)
    <2>1. /\ work[v].at = "create" =>
               Excused(work[v].task) \/ NoHeir(work[v].task, work[v].rule.created)
          /\ work[v].at \in Cloned =>
               Excused(work[v].clone) \/ Childless(work[v].clone)
      BY DEF Succeeding, Heirs
    <2>2. CASE v # w
      BY <1>1, <1>2, <2>1, <2>2 DEF Excused, ExcusedThen
    <2>3. CASE v = w
      BY <1>1, <1>2, <2>1, <2>3 DEF Proceeds, Excused, ExcusedThen
    <2> QED BY <2>2, <2>3
  <1>11. \A r \in Replicas : \A t \in DOMAIN batch'[r] :
           ExcusedThen(t) \/ NoHeir(t, batch'[r][t].created)
    <2> TAKE r \in Replicas
    <2> TAKE t \in DOMAIN batch'[r]
    <2>1. CASE t \in DOMAIN batch[r] /\ batch'[r][t] = batch[r][t]
      BY <1>2, <2>1 DEF Succeeding, Heirs, Excused, ExcusedThen
    <2>2. CASE batch'[r] = batch[r]
      BY <2>1, <2>2
    <2> QED BY <2>1, <2>2 DEF ReadsSettle
  <1>12. Heirs'
    BY <1>9, <1>10, <1>11
    DEF Heirs, Excused, ExcusedThen, NoHeir, Childless, FamiliesStay
  <1> QED BY <1>4, <1>5, <1>8, <1>12 DEF Succeeding, Exclusive

LEMMA SameRuleSettles ==
  ASSUME rule' = rule, NEW t \in Tasks
  PROVE  RuleSettles(t)
  BY DEF RuleSettles, Carries

LEMMA SameTasksStay ==
  ASSUME task' = task
  PROVE  FamiliesStay
  BY DEF FamiliesStay

LEMMA UpdatedStays ==
  ASSUME TypeOK, NEW t \in Tasks, NEW s, task' = Updated(t, s)
  PROVE  FamiliesStay
  <1>1. CASE s = "none"
    <2>1. task' = task
      BY <1>1 DEF Updated
    <2> QED BY <2>1, SameTasksStay
  <1>2. CASE s # "none"
    <2> DEFINE y == [task[t] EXCEPT !.status = s, !.completed = (s = "done")]
    <2>1. task' = [task EXCEPT ![t] = y] /\ task[t] \in Task
      BY <1>2 DEF Updated, TypeOK
    <2>2. y.parent = task[t].parent /\ y.of = task[t].of /\ y.at = task[t].at
      BY <2>1 DEF Task
    <2> HIDE DEF y
    <2>3. task'[t] = y /\ \A u \in Tasks \ {t} : task'[u] = task[u]
      BY <2>1 DEF TypeOK
    <2> QED BY <2>2, <2>3 DEF FamiliesStay
  <1> QED BY <1>1, <1>2

\* w goes on with the task it has, or is through with it.
LEMMA GoingOnSucceeds ==
  ASSUME IInv, Succeeding, NEW w \in Workers, NEW x \in Work,
         work' = [work EXCEPT ![w] = x], FamiliesStay,
         UNCHANGED <<made, batch, holder, unlocked>>, disturbed \subseteq disturbed',
         x.task \in {None, work[w].task}, x.clone \in {None, work[w].clone},
         w \in Replicas => work[w].at # "idle" /\ x.at # "idle",
         Proceeds(w, x), \A t \in Tasks : RuleSettles(t)
  PROVE  Succeeding'
  <1>1. work'[w] = x
    BY DEF IInv, TypeOK
  <1>2. TakesAlone(w)
    <2>1. None \notin Tasks
      BY RecurrenceAssumption
    <2> QED BY <1>1, <2>1 DEF TakesAlone, InHand
  <1>3. ASSUME w \in Replicas PROVE OwnLock(w)'
    <2>1. None \notin DOMAIN batch[w]
      BY <1>3, RecurrenceAssumption DEF IInv, BatchRead
    <2>2. OwnLock(w)
      BY <1>3 DEF Succeeding, Exclusive
    <2> QED BY <1>1, <1>3, <2>1, <2>2 DEF OwnLock
  <1>4. LocksStay(w) /\ ReadsSettle(w)
    BY <1>3 DEF LocksStay, ReadsSettle
  <1> QED BY <1>2, <1>4, OneSucceeds

LEMMA DoneSucceeds ==
  ASSUME IInv, Succeeding, NEW w \in Workers, Done(w), FamiliesStay,
         UNCHANGED <<made, batch, holder, unlocked>>, disturbed \subseteq disturbed',
         w \in Replicas => work[w].at # "idle",
         work[w].at \in Cloned =>
           \/ ExcusedThen(work[w].task) \/ rule'[work[w].task] = None
           \/ Childless(work[w].task),
         \A t \in Tasks : RuleSettles(t)
  PROVE  Succeeding'
  <1>1. Rest(w) \in Work /\ Rest(w).task = None /\ Rest(w).clone = None
    BY RestIsIdle
  <1>2. Rest(w).rule = None /\ (w \in Replicas => Rest(w).at = "sweep")
    BY DEF Rest, Idle
  <1>3. Rest(w).at \notin Cloned \cup {"create"}
    BY RestIsIdle DEF Cloned
  <1>4. Proceeds(w, Rest(w))
    BY <1>2, <1>3 DEF Proceeds
  <1> QED BY <1>1, <1>2, <1>4, GoingOnSucceeds DEF Done

LEMMA PeopleSucceed ==
  ASSUME IInv, Succeeding, People \/ LockLost
  PROVE  Succeeding'
  <1>0. made \in Nat /\ made <= made
    BY RecurrenceAssumption DEF IInv, TypeOK
  <1>1. CASE \E t \in Tasks, next \in {"none", "ahead", "due"}, max \in Limits,
               until \in Untils : SetRecurrence(t, next, max, until)
    <2> PICK t \in Tasks, next \in {"none", "ahead", "due"}, max \in Limits,
             until \in Untils : SetRecurrence(t, next, max, until)
      BY <1>1
    <2>1. /\ UNCHANGED <<task, work, batch, disturbed, unlocked, holder>>
          /\ made' = IF Carries(t) THEN made ELSE made + 1
          /\ rule'[t].created = IF Carries(t) THEN rule[t].created ELSE made'
          /\ \A u \in Tasks \ {t} : rule'[u] = rule[u]
      BY DEF SetRecurrence, sweeps, IInv, TypeOK
    <2>2. ~Carries(t) => NoHeir(t, made + 1)
      <3>1. \A c \in Tasks : task[c].of <= made /\ task[c].of \in Nat
        BY RecurrenceAssumption DEF Succeeding, Numbered, IInv, TypeOK, Task
      <3> QED BY <1>0, <3>1 DEF NoHeir
    <2>3. ASSUME NEW u \in Tasks PROVE RuleSettles(u)
      BY <2>1, <2>2 DEF RuleSettles, Carries
    <2>4. made' \in Nat /\ made <= made'
      BY <1>0, <2>1
    <2> QED BY <2>1, <2>3, <2>4, SameTasksStay, NobodySucceeds
  <1>2. ASSUME NEW t \in Tasks, DeleteRecurrence(t) \/ DeleteTask(t) PROVE Succeeding'
    <2>1. /\ UNCHANGED <<work, batch, disturbed, made, unlocked, holder>>
          /\ rule' = [rule EXCEPT ![t] = None]
          /\ task' \in {task, [task EXCEPT ![t].at = "gone"]}
      BY <1>2 DEF DeleteRecurrence, DeleteTask, sweeps
    <2>2. \A u \in Tasks : RuleSettles(u)
      BY <2>1 DEF RuleSettles, Carries, IInv, TypeOK
    <2>3. FamiliesStay
      BY <2>1 DEF FamiliesStay, IInv, TypeOK, Task
    <2> QED BY <1>0, <2>1, <2>2, <2>3, NobodySucceeds
  <1>3. ASSUME NEW t \in Tasks, DueDateComes(t) \/ UntilDateComes(t) PROVE Succeeding'
    <2>1. UNCHANGED <<task, work, batch, disturbed, made, unlocked, holder>>
      BY <1>3 DEF DueDateComes, UntilDateComes, sweeps
    <2>2. rule[t] \in Rule
      BY <1>3 DEF DueDateComes, UntilDateComes, Carries, IInv, TypeOK
    <2>3. ASSUME NEW u \in Tasks PROVE RuleSettles(u)
      BY <1>3, <2>2 DEF DueDateComes, UntilDateComes, RuleSettles, Carries, Rule, IInv, TypeOK
    <2> QED BY <1>0, <2>1, <2>3, SameTasksStay, NobodySucceeds
  <1>4. ASSUME NEW t \in Tasks, NEW s \in {"todo", "done"}, AutomationSetsStatus(t, s)
        PROVE  Succeeding'
    <2>1. /\ UNCHANGED <<work, batch, rule, made, unlocked, holder>>
          /\ disturbed \subseteq disturbed' /\ FamiliesStay
      BY <1>4, UpdatedStays DEF AutomationSetsStatus, sweeps, IInv
    <2> QED BY <1>0, <2>1, SameRuleSettles, NobodySucceeds
  <1>5. CASE LockLost
    <2>1. UNCHANGED <<task, rule, work, batch, disturbed, made>> /\ unlocked'
      BY <1>5 DEF LockLost
    <2> QED BY <1>0, <2>1, SameTasksStay, SameRuleSettles, NobodySucceeds
  <1> QED BY <1>1, <1>2, <1>3, <1>4, <1>5 DEF People

\* Whoever begins with a task that another has in hand disturbs it.
LEMMA BeginUpdateSucceeds ==
  ASSUME IInv, Succeeding, NEW h \in Requests, NEW t \in Tasks, NEW s \in Patches,
         BeginUpdate(h, t, s)
  PROVE  Succeeding'
  <1> DEFINE x == [Idle EXCEPT !.at = "update", !.task = t,
                               !.was = task[t].completed, !.patch = s]
  <1>1. /\ h \in Workers /\ h \notin Replicas /\ task[t] \in Task
        /\ s \in {"none", "todo", "done"} /\ work[h].at = "idle"
    BY RecurrenceAssumption DEF Workers, BeginUpdate, IInv, TypeOK
  <1>2. x \in Work /\ x.at = "update" /\ x.task = t /\ x.clone = None /\ x.rule = None
    BY <1>1 DEF Idle, Work, Task
  <1>3. /\ work' = [work EXCEPT ![h] = x] /\ disturbed \subseteq disturbed'
        /\ UNCHANGED <<task, rule, made, batch, holder, unlocked>>
        /\ (\E v \in Workers : InHand(v, t)) => t \in disturbed'
    BY DEF BeginUpdate, sweeps
  <1> HIDE DEF x
  <1>4. work'[h] = x
    BY <1>1, <1>3 DEF IInv, TypeOK
  <1>5. TakesAlone(h)
    <2>1. ASSUME NEW u \in Tasks, InHand(h, u)' PROVE u = t
      BY <1>1, <1>2, <1>4, <2>1, RecurrenceAssumption DEF InHand
    <2> QED BY <1>3, <2>1 DEF TakesAlone, ExcusedThen
  <1>6. LocksStay(h) /\ ReadsSettle(h)
    BY <1>1, <1>3 DEF LocksStay, ReadsSettle
  <1>7. Proceeds(h, x)
    BY <1>1, <1>2 DEF Proceeds, Cloned
  <1> QED BY <1>1, <1>2, <1>3, <1>5, <1>6, <1>7, SameTasksStay, SameRuleSettles, OneSucceeds

LEMMA RequestSucceeds ==
  ASSUME IInv, Attending, Succeeding, NEW h \in Requests,
         Update(h) \/ ReadBack(h) \/ SpawnOnCompletion(h)
  PROVE  Succeeding'
  <1> DEFINE t == work[h].task
  <1>1. /\ h \in Workers /\ h \notin Replicas /\ t \in Tasks /\ work[h] \in Work
        /\ work[h].at \in {"update", "readback", "rule"} /\ task[t] \in Task
        /\ disturbed \subseteq disturbed'
        /\ UNCHANGED <<rule, made, batch, holder, unlocked>>
    <2>1. h \in Workers /\ h \notin Replicas /\ work[h] \in Work
      BY RecurrenceAssumption DEF Workers, IInv, TypeOK
    <2>2. work[h].at \in {"update", "readback", "rule"}
      BY DEF Update, ReadBack, SpawnOnCompletion
    <2>3. t \in Tasks /\ task[t] \in Task
      BY <2>1, <2>2 DEF IInv, TypeOK, InOrder, Busy
    <2>4. disturbed \subseteq disturbed' /\ UNCHANGED <<rule, made, batch, holder, unlocked>>
      BY DEF Update, ReadBack, SpawnOnCompletion, sweeps
    <2> QED BY <2>1, <2>2, <2>3, <2>4
  <1>2. work[h].at \notin Cloned
    BY <1>1 DEF Cloned
  <1>3. FamiliesStay
    BY <1>1, UpdatedStays, SameTasksStay
       DEF Update, ReadBack, SpawnOnCompletion, IInv
  <1>4. CASE Done(h)
    BY <1>1, <1>2, <1>3, <1>4, SameRuleSettles, DoneSucceeds
  <1>5. ASSUME NEW x \in Work, work' = [work EXCEPT ![h] = x],
               x.task = t, x.clone \in {None, work[h].clone}, x.at \notin Cloned,
               x.rule # None => x.rule.created <= made,
               x.at = "create" => Excused(t) \/ NoHeir(t, x.rule.created)
        PROVE  Succeeding'
    <2>1. Proceeds(h, x)
      BY <1>1, <1>2, <1>5 DEF Proceeds, Excused, ExcusedThen
    <2> QED BY <1>1, <1>3, <1>5, <2>1, SameRuleSettles, GoingOnSucceeds
  <1>6. work[h].rule # None => work[h].rule.created <= made
    BY <1>1 DEF Succeeding, Numbered
  <1>7. CASE Update(h) /\ ~Done(h)
    <2> DEFINE x == [work[h] EXCEPT !.at = "readback", !.patch = "none"]
    <2>1. work' = [work EXCEPT ![h] = x]
      BY <1>7 DEF Update
    <2>2. /\ x \in Work /\ x.at = "readback" /\ x.task = t
          /\ x.rule = work[h].rule /\ x.clone = work[h].clone
      BY <1>1 DEF Work
    <2> HIDE DEF x
    <2> QED BY <1>5, <1>6, <2>1, <2>2 DEF Cloned
  <1>8. CASE ReadBack(h) /\ ~Done(h)
    <2> DEFINE x == [work[h] EXCEPT !.at = "rule", !.status = task[t].status]
    <2>1. work' = [work EXCEPT ![h] = x]
      BY <1>8 DEF ReadBack
    <2>2. /\ x \in Work /\ x.at = "rule" /\ x.task = t
          /\ x.rule = work[h].rule /\ x.clone = work[h].clone
      BY <1>1 DEF Work, Task
    <2> HIDE DEF x
    <2> QED BY <1>5, <1>6, <2>1, <2>2 DEF Cloned
  <1>9. CASE SpawnOnCompletion(h) /\ ~Done(h)
    <2> DEFINE x == Taken(t, work[h].status, rule[t])
    <2>1. Carries(t) /\ work' = [work EXCEPT ![h] = x]
      BY <1>9 DEF SpawnOnCompletion
    <2>2. rule[t] \in Rule /\ work[h].status \in {"todo", "done"}
      BY <1>1, <2>1 DEF Carries, IInv, TypeOK, Work
    <2>3. /\ x \in Work /\ x.at \in {"expire", "create"} /\ x.task = t
          /\ x.rule = rule[t]
      BY <1>1, <2>2, TakenIsWork
    <2>4. x.clone = None
      BY DEF Taken, Idle
    <2>5. rule[t].created <= made
      BY <1>1, <2>1 DEF IInv, CarriersSound
    <2>6. Excused(t) \/ NoHeir(t, rule[t].created)
      <3> SUFFICES ASSUME ~Excused(t), ~NoHeir(t, rule[t].created) PROVE FALSE
        OBVIOUS
      <3>1. PICK v \in Workers : work[v].task = t /\ work[v].at \in Cloned
        BY <1>1, <2>1 DEF Succeeding, Heirs, SeenTo
      <3>2. v # h /\ InHand(v, t) /\ InHand(h, t)
        BY <1>2, <3>1 DEF InHand
      <3> QED BY <1>1, <3>2 DEF Succeeding, Exclusive, Sole
    <2> HIDE DEF x
    <2> QED BY <1>5, <2>1, <2>3, <2>4, <2>5, <2>6 DEF Cloned
  <1> QED BY <1>4, <1>7, <1>8, <1>9

\* A worker that has the task and its clone, or is to clear the rule.
LEMMA SpawningSucceeds ==
  ASSUME IInv, TypeOK', Attending, Succeeding, NEW w \in Workers,
         Expire(w) \/ RemoveUnread(w) \/ CopyRule(w) \/ CommitMove(w) \/ CallFails(w)
  PROVE  Succeeding'
  <1> DEFINE t == work[w].task
             c == work[w].clone
  <1>1. /\ work[w] \in Work /\ disturbed \subseteq disturbed'
        /\ UNCHANGED <<task, made, batch, holder, unlocked>>
    BY DEF Expire, RemoveUnread, CopyRule, CommitMove, CallFails, IInv, TypeOK, sweeps
  <1>2. CASE Expire(w) \/ RemoveUnread(w)
    <2>1. /\ rule' = [rule EXCEPT ![t] = None] /\ Done(w) /\ t \in Tasks
          /\ work[w].at \in {"expire", "unread"}
      BY <1>2 DEF Expire, RemoveUnread, IInv, InOrder, Busy
    <2>2. \A u \in Tasks : RuleSettles(u)
      BY <2>1 DEF RuleSettles, Carries, IInv, TypeOK
    <2>3. work[w].at \notin Cloned
      BY <2>1 DEF Cloned
    <2> QED BY <1>1, <2>1, <2>2, <2>3, SameTasksStay, DoneSucceeds
  <1>3. CASE CallFails(w)
    <2>1. ExcusedThen(t) /\ Done(w) /\ rule' = rule
      BY <1>3 DEF CallFails, ExcusedThen
    <2>2. w \in Replicas => work[w].at # "idle"
      BY <1>3 DEF CallFails, Attending, Placed, Busy
    <2> QED BY <1>1, <2>1, <2>2, SameTasksStay, SameRuleSettles, DoneSucceeds
  <1>4. CASE CopyRule(w) /\ MoveFails(w)
    <2>1. ExcusedThen(t) /\ Done(w) /\ rule' = rule /\ work[w].at = "move"
      BY <1>4 DEF CopyRule, ExcusedThen
    <2> QED BY <1>1, <2>1, SameTasksStay, SameRuleSettles, DoneSucceeds
  <1>5. CASE CopyRule(w) /\ ~MoveFails(w)
    <2> DEFINE copy == Copied(rule[t], work[w].rule)
               x == [work[w] EXCEPT !.at = "commit", !.rule = copy]
    <2>1. work' = [work EXCEPT ![w] = x] /\ rule' = rule /\ work[w].at = "move"
      BY <1>5 DEF CopyRule
    <2>2. work'[w] = x
      BY <2>1 DEF IInv, TypeOK
    <2>3. x \in Work
      BY <2>2 DEF TypeOK
    <2>4. x.at = "commit" /\ x.task = t /\ x.clone = c /\ x.rule = copy
      BY <1>1 DEF Work
    <2>5. copy # None => copy.created <= made
      <3>1. t \in Tasks
        BY <2>1 DEF IInv, InOrder, Busy
      <3>2. copy # None => Carries(t) /\ copy.created = rule[t].created
        <4>1. CASE rule[t] = None
          BY <4>1 DEF Copied
        <4>2. CASE rule[t] # None
          <5>1. rule[t] \in Rule /\ work[w].rule \in Rule
            BY <2>1, <3>1, <4>2 DEF IInv, TypeOK, Decided
          <5> QED BY <4>2, <5>1, CopiedIsRule DEF Carries
        <4> QED BY <4>1, <4>2
      <3> QED BY <3>1, <3>2 DEF IInv, CarriersSound
    <2> HIDE DEF x, copy
    <2>6. Proceeds(w, x)
      BY <2>1, <2>4, <2>5 DEF Proceeds, Cloned
    <2> QED BY <1>1, <2>1, <2>3, <2>4, <2>6, SameTasksStay, SameRuleSettles, GoingOnSucceeds
  <1>6. CASE CommitMove(w)
    <2>1. /\ t \in Tasks /\ c \in Tasks /\ work[w].at = "commit" /\ Done(w)
          /\ \A u \in Tasks \ {t, c} : rule'[u] = rule[u]
          /\ t # c => rule'[t] = None
      BY <1>6 DEF CommitMove, IInv, InOrder, Busy, Cloned, TypeOK
    <2>2. ExcusedThen(c) \/ Childless(c)
      BY <1>1, <2>1 DEF Succeeding, Heirs, Cloned, Excused, ExcusedThen
    <2>3. ExcusedThen(c) \/ \A k : NoHeir(c, k)
      BY <2>2 DEF NoHeir, Childless
    <2>4. ASSUME NEW u \in Tasks PROVE RuleSettles(u)
      <3>1. CASE u = c
        BY <2>3, <3>1 DEF RuleSettles, Excused, ExcusedThen
      <3>2. CASE u # c
        BY <2>1, <3>2 DEF RuleSettles, Carries
      <3> QED BY <3>1, <3>2
    <2>5. ExcusedThen(t) \/ rule'[t] = None \/ Childless(t)
      BY <2>1, <2>2
    <2> QED BY <1>1, <2>1, <2>4, <2>5, SameTasksStay, DoneSucceeds
  <1> QED BY <1>2, <1>3, <1>4, <1>5, <1>6

\* The clone that w creates is the first that its task has from that rule.
LEMMA CreateSucceeds ==
  ASSUME IInv, Attending, Succeeding, NEW w \in Workers, NEW c \in Tasks, Create(w, c)
  PROVE  Succeeding'
  <1> DEFINE t == work[w].task
             k == work[w].rule.created
             x == [work[w] EXCEPT !.at = "move", !.clone = c]
  <1>1. /\ work[w].at = "create" /\ work[w] \in Work /\ t \in Tasks /\ task[c].at = "free"
        /\ work[w].rule # None /\ UNCHANGED <<rule, made, batch, holder, disturbed, unlocked>>
    BY NoneIsNoRule DEF Create, sweeps, IInv, TypeOK, InOrder, Busy, Decided
  <1>2. x.at = "move" /\ x.clone = c /\ x.task = t /\ x.rule = work[w].rule
    BY <1>1 DEF Work
  <1>3. work'[w] = x /\ \A v \in Workers \ {w} : work'[v] = work[v]
    BY DEF Create, IInv, TypeOK
  <1>4. /\ task'[c].at = "live" /\ task'[c].parent = t /\ task'[c].of = k
        /\ \A u \in Tasks \ {c} : task'[u] = task[u]
    BY DEF Create, IInv, TypeOK
  <1> HIDE DEF x
  <1>5. \A v \in Workers : ~InHand(v, c)
    <2> SUFFICES ASSUME NEW v \in Workers, InHand(v, c) PROVE FALSE
      OBVIOUS
    <2>1. work[v].task # c
      BY <1>1, RecurrenceAssumption DEF Attending, Placed
    <2>2. work[v].clone # c
      BY <1>1, RecurrenceAssumption DEF Attending, Placed, IInv, InOrder
    <2>3. v \in Replicas => c \notin DOMAIN batch[v]
      BY <1>1 DEF IInv, BatchRead
    <2> QED BY <2>1, <2>2, <2>3 DEF InHand
  <1>6. t # c
    BY <1>5 DEF InHand
  <1>7. \A v \in Workers, u \in Tasks \ {c} : InHand(v, u)' => InHand(v, u)
    BY <1>1, <1>2, <1>3, <1>6 DEF InHand
  <1>8. \A v \in Workers \ {w} : ~InHand(v, c)'
    BY <1>1, <1>3, <1>5 DEF InHand
  <1>9. Exclusive'
    <2>1. \A u, v \in Workers : Sole(u, v)'
      BY <1>1, <1>7, <1>8 DEF Succeeding, Exclusive, Sole, Excused
    <2>2. \A r \in Replicas : OwnLock(r)'
      BY <1>1, <1>2, <1>3 DEF Succeeding, Exclusive, OwnLock, Workers
    <2> QED BY <2>1, <2>2 DEF Exclusive
  <1>10. Numbered'
    <2>1. k <= made
      BY <1>1 DEF Succeeding, Numbered
    <2>2. task[t].at # "free"
      BY <1>1, RecurrenceAssumption DEF Attending, Placed
    <2>3. \A u \in Tasks : task[u].parent \in Tasks \cup {None}
      BY DEF IInv, TypeOK, Task
    <2>4. \A u \in Tasks : /\ task'[u].of <= made
                           /\ task'[u].parent # None => task'[task'[u].parent].at # "free"
      BY <1>1, <1>4, <1>6, <2>1, <2>2, <2>3 DEF Succeeding, Numbered
    <2>5. \A v \in Workers : work'[v].rule # None => work'[v].rule.created <= made
      BY <1>2, <1>3 DEF Succeeding, Numbered
    <2> QED BY <1>1, <2>4, <2>5 DEF Succeeding, Numbered
  <1>11. Childless(c)'
    <2>1. \A u \in Tasks : task[u].parent # c
      BY <1>1, RecurrenceAssumption DEF Succeeding, Numbered
    <2> QED BY <1>4, <1>6, <2>1 DEF Childless
  <1>12. ASSUME NEW u \in Tasks, u # t
         PROVE  /\ \A j : NoHeir(u, j) => NoHeir(u, j)'
                /\ Childless(u) => Childless(u)'
                /\ OneHeir(u) => OneHeir(u)'
    BY <1>4, <1>12 DEF NoHeir, Childless, OneHeir
  <1>13. \A v \in Workers \ {w} : InHand(v, t) => Excused(t)
    BY <1>1 DEF Succeeding, Exclusive, Sole, InHand
  <1>14. ASSUME NEW u \in Tasks, ~Excused(u) PROVE OneHeir(u)' /\ SeenTo(u)'
    <2>1. OneHeir(u) /\ SeenTo(u)
      BY <1>14 DEF Succeeding, Heirs
    <2>2. CASE u = t
      <3>1. NoHeir(u, k)
        BY <1>1, <1>14, <2>2 DEF Succeeding, Heirs
      <3>2. OneHeir(u)'
        BY <1>4, <2>1, <2>2, <3>1 DEF OneHeir, NoHeir
      <3>3. work'[w].task = u /\ work'[w].at \in Cloned
        BY <1>2, <1>3, <2>2 DEF Cloned
      <3> QED BY <3>2, <3>3 DEF SeenTo
    <2>3. CASE u # t
      <3>1. \A v \in Workers :
              work[v].task = u /\ work[v].at \in Cloned
              => work'[v].task = u /\ work'[v].at \in Cloned
        BY <1>1, <1>3, <2>3
      <3> QED BY <1>1, <1>12, <2>1, <2>3, <3>1 DEF SeenTo, Carries, NoHeir
    <2> QED BY <2>2, <2>3
  <1>15. ASSUME NEW v \in Workers \ {w}
         PROVE  /\ work[v].at = "create" =>
                     Excused(work[v].task) \/ \A d \in Tasks :
                       ~(task'[d].parent = work[v].task /\ task'[d].of = work[v].rule.created)
                /\ work[v].at \in Cloned =>
                     Excused(work[v].clone) \/ \A d \in Tasks : task'[d].parent # work[v].clone
    <2>1. /\ work[v].at = "create" =>
               Excused(work[v].task) \/ NoHeir(work[v].task, work[v].rule.created)
          /\ work[v].at \in Cloned =>
               Excused(work[v].clone) \/ Childless(work[v].clone)
      BY DEF Succeeding, Heirs
    <2>2. work[v].task = t \/ work[v].clone = t => Excused(t)
      BY <1>13 DEF InHand
    <2> QED BY <1>4, <2>1, <2>2 DEF NoHeir, Childless
  <1>16. ASSUME NEW r \in Replicas, NEW u \in DOMAIN batch[r]
         PROVE  Excused(u) \/ \A d \in Tasks :
                  ~(task'[d].parent = u /\ task'[d].of = batch[r][u].created)
    <2>1. Excused(u) \/ NoHeir(u, batch[r][u].created)
      BY DEF Succeeding, Heirs
    <2>2. CASE u # t
      BY <1>4, <2>1, <2>2 DEF NoHeir
    <2>3. CASE u = t
      <3>1. r # w
        BY <2>3 DEF Succeeding, Exclusive, OwnLock
      <3> QED BY <1>13, <2>3, <3>1 DEF InHand, Workers
    <2> QED BY <2>2, <2>3
  <1>17. Heirs'
    <2>1. \A u \in Tasks : ~Excused(u)' => OneHeir(u)' /\ SeenTo(u)'
      BY <1>1, <1>14 DEF Excused
    <2>2. \A v \in Workers :
            /\ work'[v].at = "create" =>
                 \/ ExcusedThen(work'[v].task)
                 \/ \A d \in Tasks : ~(/\ task'[d].parent = work'[v].task
                                       /\ task'[d].of = work'[v].rule.created)
            /\ work'[v].at \in Cloned =>
                 \/ ExcusedThen(work'[v].clone)
                 \/ \A d \in Tasks : task'[d].parent # work'[v].clone
      <3> TAKE v \in Workers
      <3>1. CASE v = w
        BY <1>2, <1>3, <1>11, <3>1 DEF Childless
      <3>2. CASE v # w
        BY <1>1, <1>3, <1>15, <3>2 DEF Excused, ExcusedThen
      <3> QED BY <3>1, <3>2
    <2>3. \A r \in Replicas : \A u \in DOMAIN batch'[r] :
            ExcusedThen(u) \/ \A d \in Tasks :
              ~(task'[d].parent = u /\ task'[d].of = batch'[r][u].created)
      BY <1>1, <1>16 DEF Excused, ExcusedThen
    <2> QED BY <2>1, <2>2, <2>3 DEF Heirs, Excused, ExcusedThen, NoHeir, Childless
  <1> QED BY <1>9, <1>10, <1>17 DEF Succeeding

\* Two replicas at work, and one of them is without the lock.
LEMMA LockIsOne ==
  ASSUME Attending, Succeeding, NEW r \in Replicas, NEW v \in Replicas \ {r}, NEW t \in Tasks,
         work[r].at # "idle", InHand(v, t)
  PROVE  unlocked
  <1>1. work[v].at # "idle"
    <2> SUFFICES ASSUME work[v].at = "idle" PROVE FALSE
      OBVIOUS
    <2>1. v \in Workers /\ DOMAIN batch[v] = {}
      BY DEF Workers, Succeeding, Exclusive, OwnLock
    <2> QED BY <2>1, RecurrenceAssumption DEF InHand, Attending, Placed, Busy, Cloned
  <1> QED BY <1>1 DEF Succeeding, Exclusive, OwnLock

LEMMA StartSucceeds ==
  ASSUME IInv, Attending, Succeeding, NEW r \in Replicas, StartSweep(r) \/ StartUnlocked(r)
  PROVE  Succeeding'
  <1> DEFINE x == [work[r] EXCEPT !.at = "locked"]
  <1>1. /\ r \in Workers /\ work[r] \in Work /\ work[r].at = "idle" /\ DOMAIN batch[r] = {}
        /\ UNCHANGED <<task, rule, made, batch, disturbed>> /\ work' = [work EXCEPT ![r] = x]
        /\ unlocked' \/ (unlocked' = unlocked /\ holder = None /\ holder' = r)
    BY DEF StartSweep, StartUnlocked, Workers, IInv, TypeOK, Succeeding, Exclusive, OwnLock
  <1>2. /\ x \in Work /\ x.at = "locked" /\ x.task = work[r].task
        /\ x.clone = work[r].clone /\ x.rule = work[r].rule
    BY <1>1 DEF Work
  <1> HIDE DEF x
  <1>3. work'[r] = x
    BY <1>1 DEF IInv, TypeOK
  <1>4. TakesAlone(r)
    BY <1>1, <1>2, <1>3 DEF TakesAlone, InHand
  <1>5. LocksStay(r)
    <2>1. None \notin Replicas
      BY RecurrenceAssumption DEF Workers
    <2> QED BY <1>1, <1>2, <1>3, <2>1 DEF LocksStay, OwnLock
  <1>6. ReadsSettle(r)
    BY <1>1 DEF ReadsSettle
  <1>7. Proceeds(r, x)
    BY <1>1, <1>2 DEF Proceeds, Cloned, Succeeding, Numbered
  <1>8. unlocked => unlocked'
    BY <1>1
  <1> QED BY <1>1, <1>2, <1>4, <1>5, <1>6, <1>7, <1>8, SameTasksStay, SameRuleSettles,
             OneSucceeds

\* A sweep that holds the lock reads rules that nobody is at, or that requests are.
LEMMA ReadDueSucceeds ==
  ASSUME IInv, Attending, Succeeding, NEW r \in Replicas, ReadDue(r)
  PROVE  Succeeding'
  <1> DEFINE x == [work[r] EXCEPT !.at = "sweep"]
  <1>1. PICK due \in SUBSET {t \in Tasks : Due(t)} :
          /\ batch' = [batch EXCEPT ![r] = [t \in due |-> rule[t]]]
          /\ disturbed' = disturbed \cup {t \in due : \E h \in Requests : InHand(h, t)}
    BY DEF ReadDue
  <1>2. /\ r \in Workers /\ work[r] \in Work /\ work[r].at = "locked" /\ work[r].task = None
        /\ UNCHANGED <<task, rule, made, holder, unlocked>>
        /\ work' = [work EXCEPT ![r] = x]
    BY DEF ReadDue, Workers, IInv, TypeOK, Attending, Placed, Busy
  <1>3. /\ x \in Work /\ x.at = "sweep" /\ x.task = None
        /\ x.clone = work[r].clone /\ x.rule = work[r].rule
    BY <1>2 DEF Work
  <1> HIDE DEF x
  <1>4. work'[r] = x
    BY <1>2 DEF IInv, TypeOK
  <1>5. /\ batch'[r] = [t \in due |-> rule[t]]
        /\ \A q \in Replicas \ {r} : batch'[q] = batch[q]
    BY <1>1 DEF IInv, TypeOK
  <1>6. ASSUME NEW t \in due, NEW v \in Workers \ {r}, InHand(v, t) PROVE ExcusedThen(t)
    <2>1. CASE v \in Requests
      BY <1>1, <1>6, <2>1 DEF ExcusedThen
    <2>2. CASE v \in Replicas
      BY <1>1, <1>2, <1>6, <2>2, LockIsOne DEF ExcusedThen
    <2> QED BY <2>1, <2>2 DEF Workers
  <1>7. TakesAlone(r)
    <2> SUFFICES ASSUME NEW t \in Tasks, InHand(r, t)', ~InHand(r, t)
                 PROVE  ExcusedThen(t) \/ \A v \in Workers \ {r} : ~InHand(v, t)
      BY DEF TakesAlone
    <2>1. t \in due
      BY <1>2, <1>3, <1>4, <1>5, RecurrenceAssumption DEF InHand
    <2> QED BY <1>6, <2>1
  <1>8. LocksStay(r)
    <2>1. None \notin due
      BY <1>1, RecurrenceAssumption
    <2>2. unlocked \/ holder = r
      BY <1>2 DEF Succeeding, Exclusive, OwnLock
    <2> QED BY <1>2, <1>3, <1>4, <1>5, <2>1, <2>2 DEF LocksStay, OwnLock
  <1>9. ReadsSettle(r)
    <2>1. ASSUME NEW t \in due
          PROVE  /\ rule[t].created <= made
                 /\ ExcusedThen(t) \/ NoHeir(t, rule[t].created)
      <3>1. t \in Tasks /\ Carries(t)
        BY <1>1 DEF Due
      <3>2. rule[t].created <= made
        BY <3>1 DEF IInv, CarriersSound
      <3>3. CASE Excused(t)
        BY <1>1, <1>2, <3>2, <3>3 DEF Excused, ExcusedThen
      <3>4. CASE ~Excused(t) /\ ~NoHeir(t, rule[t].created)
        <4>1. PICK v \in Workers : work[v].task = t /\ work[v].at \in Cloned
          BY <3>1, <3>4 DEF Succeeding, Heirs, SeenTo
        <4>2. v # r /\ InHand(v, t)
          BY <1>2, <4>1 DEF InHand, Cloned
        <4> QED BY <1>6, <3>2, <4>2
      <3> QED BY <3>2, <3>3, <3>4
    <2> QED BY <1>5, <2>1 DEF ReadsSettle
  <1>10. Proceeds(r, x)
    BY <1>2, <1>3 DEF Proceeds, Cloned, Succeeding, Numbered
  <1>11. disturbed \subseteq disturbed' /\ (unlocked => unlocked')
    BY <1>1, <1>2
  <1> QED BY <1>2, <1>3, <1>7, <1>8, <1>9, <1>10, <1>11, SameTasksStay, SameRuleSettles,
             OneSucceeds

LEMMA NextItemSucceeds ==
  ASSUME IInv, Attending, Succeeding, NEW r \in Replicas, NEW t \in Tasks, NextItem(r, t)
  PROVE  Succeeding'
  <1> DEFINE read == batch[r][t]
             taken == Taken(t, task[t].status, read)
             unread == Unread(t, read)
  <1>1. /\ r \in Workers /\ work[r] \in Work /\ work[r].at = "sweep" /\ t \in DOMAIN batch[r]
        /\ work[r].task = None /\ work[r].clone = None
        /\ UNCHANGED <<task, rule, made, holder, disturbed, unlocked>>
    BY DEF NextItem, Workers, IInv, TypeOK, Attending, Placed, Busy, Cloned
  <1>2. /\ DOMAIN batch'[r] = DOMAIN batch[r] \ {t}
        /\ \A u \in DOMAIN batch'[r] : batch'[r][u] = batch[r][u]
        /\ \A q \in Replicas \ {r} : batch'[q] = batch[q]
    BY DEF NextItem, IInv, TypeOK
  <1>3. read \in Rule /\ task[t].status \in {"todo", "done"}
    BY <1>1 DEF IInv, TypeOK, Task
  <1>4. /\ taken \in Work /\ taken.at \in {"expire", "create"} /\ taken.task = t
        /\ taken.rule = read
    BY <1>3, TakenIsWork
  <1>5. taken.clone = None
    BY DEF Taken, Idle
  <1> HIDE DEF taken
  <1>6. PICK x \in {taken, unread} : work' = [work EXCEPT ![r] = x]
    BY DEF NextItem, taken
  <1>7. /\ x \in Work /\ x.at \in {"expire", "create", "unread"} /\ x.task = t
        /\ x.clone = None /\ x.rule = read
    BY <1>3, <1>4, <1>5, <1>6, UnreadIsWork
  <1> HIDE DEF unread
  <1>12. work'[r] = x
    BY <1>1, <1>6 DEF IInv, TypeOK
  <1>8. TakesAlone(r)
    BY <1>1, <1>2, <1>7, <1>12, RecurrenceAssumption DEF TakesAlone, InHand
  <1>9. LocksStay(r)
    <2>1. None \notin DOMAIN batch[r]
      BY RecurrenceAssumption DEF IInv, BatchRead
    <2>2. unlocked \/ holder = r
      BY <1>1 DEF Succeeding, Exclusive, OwnLock
    <2> QED BY <1>1, <1>2, <1>7, <1>12, <2>1, <2>2 DEF LocksStay, OwnLock
  <1>10. ReadsSettle(r)
    BY <1>2 DEF ReadsSettle
  <1>11. Proceeds(r, x)
    <2>1. read.created <= made /\ (work[r].rule # None => work[r].rule.created <= made)
      BY <1>1 DEF Succeeding, Numbered
    <2>2. Excused(t) \/ NoHeir(t, read.created)
      BY <1>1 DEF Succeeding, Heirs
    <2> HIDE DEF read
    <2> QED BY <1>1, <1>7, <2>1, <2>2 DEF Proceeds, Cloned, Excused, ExcusedThen
  <1> QED BY <1>1, <1>6, <1>7, <1>8, <1>9, <1>10, <1>11, SameTasksStay, SameRuleSettles, OneSucceeds

LEMMA SweepEndsSucceeds ==
  ASSUME IInv, Attending, Succeeding, NEW r \in Replicas, EndSweep(r) \/ Crash(r)
  PROVE  Succeeding'
  <1>1. /\ r \in Workers /\ UNCHANGED <<task, rule, made, unlocked>>
        /\ work' = [work EXCEPT ![r] = Idle] /\ holder' = Released(r)
        /\ disturbed \subseteq disturbed'
    BY DEF EndSweep, Crash, Workers
  <1>2. DOMAIN batch'[r] = {} /\ \A q \in Replicas \ {r} : batch'[q] = batch[q]
    BY DEF EndSweep, Crash, NoItems, IInv, TypeOK
  <1>3. /\ Idle \in Work /\ Idle.at = "idle" /\ Idle.task = None /\ Idle.clone = None
        /\ Idle.rule = None
    BY DEF Idle, Work
  <1>4. work'[r] = Idle
    BY <1>1 DEF IInv, TypeOK
  <1>5. TakesAlone(r)
    BY <1>2, <1>3, <1>4, RecurrenceAssumption DEF TakesAlone, InHand
  <1>6. LocksStay(r)
    BY <1>1, <1>2, <1>3, <1>4 DEF LocksStay, OwnLock, Released
  <1>7. ReadsSettle(r)
    BY <1>2 DEF ReadsSettle
  <1>8. work[r].at \in Cloned => ExcusedThen(work[r].task)
    <2> SUFFICES ASSUME work[r].at \in Cloned PROVE ExcusedThen(work[r].task)
      OBVIOUS
    <2>1. work[r].task # None
      BY <1>1, RecurrenceAssumption DEF IInv, InOrder, Busy, Cloned
    <2> QED BY <2>1 DEF EndSweep, Crash, Cloned, ExcusedThen
  <1>9. Proceeds(r, Idle)
    BY <1>3, <1>8 DEF Proceeds, Cloned
  <1> QED BY <1>1, <1>3, <1>5, <1>6, <1>7, <1>9, SameTasksStay, SameRuleSettles, OneSucceeds

LEMMA SucceedingInitially == Init => Succeeding
  <1> SUFFICES ASSUME Init PROVE Succeeding
    OBVIOUS
  <1>1. \A w \in Workers : /\ work[w].at = "idle" /\ work[w].task = None
                           /\ work[w].clone = None /\ work[w].rule = None
    BY DEF Init, Idle
  <1>2. \A r \in Replicas : r \in Workers /\ DOMAIN batch[r] = {}
    BY DEF Init, NoItems, Workers
  <1>3. \A t \in Tasks : task[t].parent = None /\ task[t].of = 0 /\ rule[t] = None
    BY DEF Init
  <1>4. \A w \in Workers, t \in Tasks : ~InHand(w, t)
    BY <1>1, <1>2, RecurrenceAssumption DEF InHand
  <1>5. Exclusive
    BY <1>1, <1>2, <1>4 DEF Exclusive, Sole, OwnLock
  <1>6. Numbered
    BY <1>1, <1>2, <1>3 DEF Numbered, Init
  <1>7. Heirs
    <2>1. \A t \in Tasks : OneHeir(t) /\ SeenTo(t)
      BY <1>3, RecurrenceAssumption DEF OneHeir, SeenTo, Carries
    <2> QED BY <1>1, <1>2, <2>1 DEF Heirs, Cloned
  <1> QED BY <1>5, <1>6, <1>7 DEF Succeeding

LEMMA SucceedingIsPreserved ==
  IInv /\ IInv' /\ Attending /\ Succeeding /\ [Next]_vars => Succeeding'
  <1> SUFFICES ASSUME IInv, IInv', Attending, Succeeding, [Next]_vars PROVE Succeeding'
    OBVIOUS
  <1>1. CASE People \/ LockLost
    BY <1>1, PeopleSucceed
  <1>2. CASE \E h \in Requests : Request(h)
    BY <1>2, BeginUpdateSucceeds, RequestSucceeds DEF Request
  <1>3. CASE \E w \in Workers : Spawning(w)
    <2>1. TypeOK'
      BY DEF IInv
    <2> QED BY <1>3, <2>1, SpawningSucceeds, CreateSucceeds DEF Spawning
  <1>4. CASE \E r \in Replicas : Sweep(r)
    <2>1. TypeOK'
      BY DEF IInv
    <2> QED BY <1>4, <2>1, StartSucceeds, ReadDueSucceeds, NextItemSucceeds,
               SpawningSucceeds, SweepEndsSucceeds DEF Sweep, Workers
  <1>5. CASE UNCHANGED vars
    <2>1. UNCHANGED <<task, rule, made, work, batch, holder, disturbed, unlocked>>
      BY <1>5 DEF vars
    <2>2. made' \in Nat /\ made <= made'
      BY <2>1, RecurrenceAssumption DEF IInv, TypeOK
    <2> QED BY <2>1, <2>2, SameTasksStay, SameRuleSettles, NobodySucceeds
  <1> QED BY <1>1, <1>2, <1>3, <1>4, <1>5 DEF Next

\* A rule calls for one successor of a task, with as many replicas as one likes as
\* long as their lock works: two come only of requests side by side, a request
\* beside a sweep, a spawn that broke off, or a sweep without the lock.
THEOREM TaskHasOneSuccessor == Spec => []OneSuccessor
  <1>1. IInv /\ Succeeding => OneSuccessor
    <2> SUFFICES ASSUME IInv, Succeeding, NEW c \in Tasks, NEW d \in Tasks, c # d,
                        task[c].parent # None, task[c].parent = task[d].parent,
                        task[c].of = task[d].of
                 PROVE  Excused(task[c].parent)
      BY DEF OneSuccessor, Excused
    <2>1. task[c].parent \in Tasks
      BY DEF IInv, TypeOK, Task
    <2> QED BY <2>1 DEF Succeeding, Heirs, OneHeir
  <1> QED BY <1>1, InvariantHolds, AttendingInitially, AttendingIsPreserved,
             SucceedingInitially, SucceedingIsPreserved, PTL DEF Spec
=============================================================================
