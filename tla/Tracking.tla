------------------------------ MODULE Tracking ------------------------------
(* What people keep beside the tasks of a project: the time they spend,      *)
(* whether they watch, the values of custom fields, and the screen           *)
(* recordings, whose bytes are in the object store.  All but a recording's   *)
(* upload and deletion is one statement.                                     *)
EXTENDS Naturals, FiniteSets, FiniteSetsExt

CONSTANTS People, TimedTasks,
          Fields, FieldValues,   \* custom fields and what they may be set to
          Clips,                 \* recordings: each upload draws an id of its own
          NoRow, OfProject,      \* no row; a row that names no task
          MaxClock, MaxByHand    \* bounds: ticks of the clock, ticks logged at once

ASSUME TrackingAssumption ==
  /\ IsFiniteSet(TimedTasks) /\ MaxClock \in Nat /\ MaxByHand \in Nat
  /\ NoRow \notin TimedTasks \cup {OfProject} /\ OfProject \notin TimedTasks

VARIABLES
  clock,
  timers,     \* running entries: person, task, since when
  entries,    \* person -> task -> ticks of the stopped ones
  byHand,     \* person -> task -> ticks logged after the fact
  watching,   \* pairs of a person and a task
  values,     \* task -> the pairs of its custom_fields
  deleted,    \* tasks that have gone
  clip,       \* recording -> the task its row names, or OfProject or NoRow
  objects,    \* recordings the store holds the bytes of
  uploads,    \* recording -> how far its upload is, and the task it names
  removals,   \* recordings whose row was deleted and whose object is still to be
  unsure      \* history: recordings whose row was stored and reported as failed

timeVars == <<clock, timers, entries, byHand>>
taskVars == <<watching, values, deleted>>
clipVars == <<clip, objects, uploads, removals, unsure>>
trackingVars == <<timeVars, taskVars, clipVars>>

None == [p \in People |-> [t \in TimedTasks |-> 0]]

TrackingInit ==
  /\ clock = 0 /\ timers = {} /\ entries = None /\ byHand = None
  /\ watching = {} /\ values = [t \in TimedTasks |-> {}] /\ deleted = {}
  /\ clip = [c \in Clips |-> NoRow] /\ objects = {} /\ removals = {} /\ unsure = {}
  /\ uploads = [c \in Clips |-> [at |-> "start", task |-> OfProject]]

-----------------------------------------------------------------------------
(* Time, watchers and values *)

RunningOf(p) == {r \in timers : r.person = p}

Tick == clock < MaxClock /\ clock' = clock + 1
        /\ UNCHANGED <<timers, entries, byHand, taskVars, clipVars>>

\* Mutation: one timer to a person and task.
StartAnother(p, t) ==
  /\ t \notin deleted /\ \A r \in RunningOf(p) : r.task # t
  /\ timers' = timers \cup {[person |-> p, task |-> t, since |-> clock]}
  /\ UNCHANGED <<clock, entries, byHand, taskVars, clipVars>>

\* The index on running entries lets a person have one, on whichever task.
StartTimer(p, t) ==
  /\ t \notin deleted /\ RunningOf(p) = {}
  /\ timers' = timers \cup {[person |-> p, task |-> t, since |-> clock]}
  /\ UNCHANGED <<clock, entries, byHand, taskVars, clipVars>>

Elapsed(r) == clock - r.since

StopTimer(p) ==
  /\ RunningOf(p) # {} /\ timers' = timers \ RunningOf(p)
  /\ entries' = [entries EXCEPT ![p] = [t \in TimedTasks |->
       @[t] + MapThenSumSet(Elapsed, {r \in RunningOf(p) : r.task = t})]]
  /\ UNCHANGED <<clock, byHand, taskVars, clipVars>>

LogTime(p, t, ticks) ==
  /\ t \notin deleted /\ byHand[p][t] + ticks <= MaxByHand
  /\ byHand' = [byHand EXCEPT ![p][t] = @ + ticks]
  /\ UNCHANGED <<clock, timers, entries, taskVars, clipVars>>

WatchTask(p, t) ==
  /\ t \notin deleted /\ watching' = watching \cup {<<p, t>>}
  /\ UNCHANGED <<timeVars, values, deleted, clipVars>>

UnwatchTask(p, t) ==
  /\ watching' = watching \ {<<p, t>>} /\ UNCHANGED <<timeVars, values, deleted, clipVars>>

\* Fields the request does not name keep their value.
SetValues(t, f, v) ==
  /\ t \notin deleted
  /\ values' = [values EXCEPT ![t] = {x \in @ : x[1] # f} \cup {<<f, v>>}]
  /\ UNCHANGED <<timeVars, watching, deleted, clipVars>>

\* Everything kept beside a task goes with it, the timers that run on it too;
\* its recordings stay with the project.
LoseTask(t) ==
  /\ t \notin deleted /\ deleted' = deleted \cup {t}
  /\ timers' = {r \in timers : r.task # t}
  /\ entries' = [p \in People |-> [entries[p] EXCEPT ![t] = 0]]
  /\ byHand' = [p \in People |-> [byHand[p] EXCEPT ![t] = 0]]
  /\ watching' = {w \in watching : w[2] # t}
  /\ values' = [values EXCEPT ![t] = {}]
  /\ clip' = [c \in Clips |-> IF clip[c] = t THEN OfProject ELSE clip[c]]
  /\ UNCHANGED <<clock, objects, uploads, removals, unsure>>

-----------------------------------------------------------------------------
(* Recordings *)

Upload(c, at) == uploads' = [uploads EXCEPT ![c].at = at]

\* The task is looked up once the recording has arrived.
UploadClip(c, t) ==
  /\ uploads[c].at = "start" /\ t \notin deleted
  /\ uploads' = [uploads EXCEPT ![c] = [at |-> "read", task |-> t]]
  /\ UNCHANGED <<timeVars, taskVars, clip, objects, removals, unsure>>

\* A store that fails may yet have kept the bytes: nothing looks again.
PutClip(c) ==
  /\ uploads[c].at = "read"
  /\ \/ Upload(c, "stored") /\ objects' = objects \cup {c}
     \/ Upload(c, "end") /\ objects' \in {objects, objects \cup {c}}
  /\ UNCHANGED <<timeVars, taskVars, clip, removals, unsure>>

\* The row; the answer may be lost after it was written, and then the handler
\* takes the recording for refused.
CreateClip(c) ==
  /\ uploads[c].at = "stored" /\ uploads[c].task \notin deleted
  /\ clip' = [clip EXCEPT ![c] = uploads[c].task]
  /\ \/ Upload(c, "end") /\ UNCHANGED unsure
     \/ Upload(c, "refused") /\ unsure' = unsure \cup {c}
  /\ UNCHANGED <<timeVars, taskVars, objects, removals>>

CreateFails(c) ==
  /\ uploads[c].at = "stored" /\ Upload(c, "refused")
  /\ UNCHANGED <<timeVars, taskVars, clip, objects, removals, unsure>>

\* The clean-up of a refused one is tried once; its error is dropped.
CleanUp(c) ==
  /\ uploads[c].at = "refused" /\ Upload(c, "end")
  /\ objects' \in {objects, objects \ {c}}
  /\ UNCHANGED <<timeVars, taskVars, clip, removals, unsure>>

\* The process dies, or the client hangs up before anything was stored.
UploadDies(c) ==
  /\ uploads[c].at \notin {"start", "end"} /\ Upload(c, "end")
  /\ UNCHANGED <<timeVars, taskVars, clip, objects, removals, unsure>>

\* Mutation: the object goes first.
DeleteClipObject(c) ==
  /\ clip[c] # NoRow /\ objects' = objects \ {c}
  /\ removals' = removals \cup {c}
  /\ UNCHANGED <<timeVars, taskVars, clip, uploads, unsure>>

\* The row goes first.
DeleteClip(c) ==
  /\ clip[c] # NoRow /\ clip' = [clip EXCEPT ![c] = NoRow]
  /\ removals' = removals \cup {c}
  /\ UNCHANGED <<timeVars, taskVars, objects, uploads, unsure>>

\* ... then the object, tried once, if the process lives and the store is up.
DeleteObject(c) ==
  /\ c \in removals /\ removals' = removals \ {c}
  /\ objects' \in {objects, objects \ {c}}
  /\ UNCHANGED <<timeVars, taskVars, clip, uploads, unsure>>

\* The rows go with the project.  Their objects are nobody's from then on, for
\* the queue of 0008 is fed by attachments alone.
LoseProject ==
  /\ OfProject \notin deleted /\ deleted' = TimedTasks \cup {OfProject}
  /\ timers' = {} /\ entries' = None /\ byHand' = None
  /\ watching' = {} /\ values' = [t \in TimedTasks |-> {}]
  /\ clip' = [c \in Clips |-> NoRow]
  /\ UNCHANGED <<clock, objects, uploads, removals, unsure>>

TrackingNext ==
  \/ Tick \/ LoseProject
  \/ \E p \in People :
       \/ StopTimer(p)
       \/ \E t \in TimedTasks :
            \/ StartTimer(p, t) \/ WatchTask(p, t) \/ UnwatchTask(p, t)
            \/ \E ticks \in 1..MaxByHand : LogTime(p, t, ticks)
  \/ \E t \in TimedTasks :
       \/ \E f \in Fields : \E v \in FieldValues : SetValues(t, f, v)
       \/ LoseTask(t)
  \/ \E c \in Clips :
       \/ \E t \in TimedTasks \cup {OfProject} : UploadClip(c, t)
       \/ PutClip(c) \/ CreateClip(c) \/ CreateFails(c) \/ CleanUp(c) \/ UploadDies(c)
       \/ DeleteClip(c) \/ DeleteObject(c)

TrackingSpec == TrackingInit /\ [][TrackingNext]_trackingVars

-----------------------------------------------------------------------------
(* Properties *)

\* Of everything timers have measured for a person, no hour is counted twice:
\* the sum over all tasks is at most the time that has passed
\* (0004_product_engine.sql:118-122).
NoHourTwice ==
  \A p \in People :
    MapThenSumSet(LAMBDA t : entries[p][t], TimedTasks) + MapThenSumSet(Elapsed, RunningOf(p)) <= clock

\* A recording that is listed can be played, whatever fails or dies while it
\* is uploaded or deleted (handlers/canvas_handler.go:592-593) -- unless its
\* row was stored by a call that was told it was not.
ClipsPlay == \A c \in Clips : clip[c] # NoRow => c \in objects \cup unsure

\* What is kept beside tasks is right: no hour counts twice, and no recording
\* is a broken player.
KeptIsRight == NoHourTwice /\ ClipsPlay
=============================================================================
