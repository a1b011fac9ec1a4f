---------------------------- MODULE Attachments ----------------------------
(***************************************************************************)
(* Files on tasks and chat messages: the upload handler, the rows, the     *)
(* objects in the bucket, and the sweeper that removes objects whose rows  *)
(* are gone.                                                               *)
(*                                                                         *)
(* A file id is a fresh uuid and so is its storage key: one upload handler,*)
(* one row at most and one object at most belong to each, and a file id    *)
(* stands for all three.  The handler talks to two systems that share no   *)
(* transaction, the database and the bucket; every call is a step.         *)
(***************************************************************************)
EXTENDS Naturals, FiniteSets

CONSTANTS
  Files,        \* uploads, with the key each generates
  Tasks,        \* owners with a ceiling on what they hold
  Messages,     \* owners without one (chat)
  Sweepers,     \* replicas, each running an ObjectSweeper
  Batch,        \* keys one pass takes (100)
  TaskLimit,    \* files a task may hold (ATTACHMENT_MAX_TASK_MB)
  Refused,      \* keys the store refuses to delete for ever
  MaxAttempts,  \* bound: failed deletions that are counted
  StoreFaults,  \* TRUE: the store or the scanner may fail a call
  Hangups,      \* TRUE: a client may hang up, which cancels its handler's calls
  Crashes,      \* TRUE: a process may die, or the sweeper lose its database
  LostReplies,  \* TRUE: an INSERT may commit and its reply be lost
  NoOwner, NoFile

Owners == Tasks \cup Messages

ASSUME AttachmentsAssumption ==
  /\ Batch \in Nat \ {0}
  /\ TaskLimit \in Nat
  /\ MaxAttempts \in Nat \ {0}
  /\ Refused \subseteq Files
  /\ {StoreFaults, Hangups, Crashes, LostReplies} \subseteq BOOLEAN
  /\ NoOwner \notin Owners
  /\ NoFile \notin Files

VARIABLES
  alive,     \* the tasks and messages that exist
  row,       \* attachments.scan_status, or that there is no row (any more)
  store,     \* keys with an object in the bucket
  queue,     \* attachment_deletions
  attempts,  \* attachment_deletions.attempts
  up,        \* the upload handler of each file
  sweep      \* the pass each replica is in

vars == <<alive, row, store, queue, attempts, up, sweep>>
deletion == <<queue, attempts, sweep>>

-----------------------------------------------------------------------------
Verdicts == {"clean", "infected", "skipped"}
Stages == {"none", "put", "scan", "insert", "cleanup", "done", "failed"}

\* `gone`: the client hung up.  Two notes for the properties: the upload began
\* `beside` another to the same task; its INSERT committed `unreported`.
Upload == [at : Stages, owner : Owners \cup {NoOwner},
           verdict : Verdicts \cup {"pending"},
           gone : BOOLEAN, beside : BOOLEAN, unreported : BOOLEAN]

\* `todo` is the batch the pass has read and not come to; `doing` the key whose
\* object is deleted and whose entry is not cleared yet.
Pass == [todo : SUBSET Files, doing : Files \cup {NoFile}]

Resting == [todo |-> {}, doing |-> NoFile]

TypeOK ==
  /\ alive \subseteq Owners
  /\ row \in [Files -> Verdicts \cup {"none", "deleted"}]
  /\ store \subseteq Files
  /\ queue \subseteq Files
  /\ attempts \in [Files -> 0..MaxAttempts]
  /\ up \in [Files -> Upload]
  /\ sweep \in [Sweepers -> Pass]

Init ==
  /\ alive = Owners
  /\ row = [f \in Files |-> "none"]
  /\ store = {}
  /\ queue = {}
  /\ attempts = [f \in Files |-> 0]
  /\ up = [f \in Files |-> [at |-> "none", owner |-> NoOwner,
                            verdict |-> "pending", gone |-> FALSE,
                            beside |-> FALSE, unreported |-> FALSE]]
  /\ sweep = [r \in Sweepers |-> Resting]

Listed(f) == row[f] \in Verdicts

-----------------------------------------------------------------------------
(* The upload handlers, for a task and for a chat message.                 *)

\* SELECT sum(size_bytes) ... WHERE task_id = $1, every file being of one size.
UsageBytes(t) == Cardinality({f \in Files : Listed(f) /\ up[f].owner = t})

Goto(f, stage) == up' = [up EXCEPT ![f].at = stage]

\* An upload that may still insert its row.
Inserting(f) == up[f].at \in {"put", "scan", "insert"}

Begin(f, o) ==
  /\ up' = [up EXCEPT ![f].at = "put", ![f].owner = o,
                      ![f].beside = /\ o \in Tasks
                                    /\ \E g \in Files : Inserting(g) /\ up[g].owner = o]
  /\ UNCHANGED <<alive, row, store, deletion>>

\* Mutation: the file being uploaded is not counted.
UploadAtTheLimit(f, o) ==
  /\ up[f].at = "none"
  /\ o \in alive
  /\ o \in Tasks => UsageBytes(o) <= TaskLimit
  /\ Begin(f, o)

\* A chat message has no ceiling.
UploadAttachment(f, o) ==
  /\ up[f].at = "none"
  /\ o \in alive
  /\ o \in Tasks => UsageBytes(o) + 1 <= TaskLimit
  /\ Begin(f, o)

\* A call made with the context of a client that hung up fails.
CallFails(f) == StoreFaults \/ up[f].gone

\* Mutation: a failed Put is logged and the upload goes on.
PutIgnoringErrors(f) ==
  /\ up[f].at = "put"
  /\ ~up[f].gone \/ CallFails(f)
  /\ store' \in {store, store \cup {f}}
  /\ Goto(f, "scan")
  /\ UNCHANGED <<alive, row, deletion>>

Put(f) ==
  /\ up[f].at = "put"
  /\ \/ /\ ~up[f].gone
        /\ store' = store \cup {f}
        /\ Goto(f, "scan")
     \/ \* refused, or timed out with or without the bytes having landed
        /\ CallFails(f)
        /\ store' \in {store, store \cup {f}}
        /\ Goto(f, "failed")
  /\ UNCHANGED <<alive, row, deletion>>

\* The default scanner ignores the context and answers "skipped"; another one
\* may fail at any time.
Scan(f) ==
  /\ up[f].at = "scan"
  /\ \/ \E v \in Verdicts : up' = [up EXCEPT ![f].at = "insert", ![f].verdict = v]
     \/ Goto(f, "cleanup")
  /\ UNCHANGED <<alive, row, store, deletion>>

\* INSERT INTO attachments; the foreign key refuses an owner that is gone.
CreateRow(f) ==
  /\ row' = [row EXCEPT ![f] = up[f].verdict]
  /\ UNCHANGED <<alive, store, deletion>>

Insert(f) ==
  /\ up[f].at = "insert"
  /\ up[f].owner \in alive
  /\ ~up[f].gone
  /\ CreateRow(f)
  /\ Goto(f, "done")

InsertFails(f) ==
  /\ up[f].at = "insert"
  /\ up[f].owner \notin alive \/ CallFails(f)
  /\ Goto(f, "cleanup")
  /\ UNCHANGED <<alive, row, store, deletion>>

\* The connection breaks after the commit: the handler sees an error.
InsertReplyLost(f) ==
  /\ LostReplies
  /\ up[f].at = "insert"
  /\ up[f].owner \in alive
  /\ CreateRow(f)
  /\ up' = [up EXCEPT ![f].at = "cleanup", ![f].unreported = TRUE]

\* Objects.Delete with the request's own context; a failure is only logged.
Cleanup(f) ==
  /\ up[f].at = "cleanup"
  /\ \/ ~up[f].gone /\ store' = store \ {f}
     \/ CallFails(f) /\ UNCHANGED store
  /\ Goto(f, "failed")
  /\ UNCHANGED <<alive, row, deletion>>

InFlight(f) == up[f].at \in {"put", "scan", "insert", "cleanup"}

HangUp(f) ==
  /\ Hangups
  /\ InFlight(f) /\ ~up[f].gone
  /\ up' = [up EXCEPT ![f].gone = TRUE]
  /\ UNCHANGED <<alive, row, store, deletion>>

CrashUpload(f) ==
  /\ Crashes
  /\ InFlight(f)
  /\ Goto(f, "failed")
  /\ UNCHANGED <<alive, row, store, deletion>>

-----------------------------------------------------------------------------
(* Deleting rows, one or a cascade, and the trigger that queues their keys.*)

DeleteRows(gone) ==
  /\ row' = [f \in Files |-> IF f \in gone THEN "deleted" ELSE row[f]]
  /\ queue' = queue \cup gone
  /\ attempts' = [f \in Files |-> IF f \in gone THEN 0 ELSE attempts[f]]

DeleteAttachment(f) ==
  /\ Listed(f)
  /\ DeleteRows({f})
  /\ UNCHANGED <<alive, store, up, sweep>>

\* Mutation: the handler of a project queues nothing, only the one of a file does.
CascadeWithoutTrigger(owners) ==
  /\ owners # {}
  /\ owners \subseteq alive
  /\ alive' = alive \ owners
  /\ row' = [f \in Files |-> IF Listed(f) /\ up[f].owner \in owners
                            THEN "deleted" ELSE row[f]]
  /\ UNCHANGED <<store, queue, attempts, up, sweep>>

\* Deleting a task, a message, or a project with its tasks, in one statement.
Cascade(owners) ==
  /\ owners # {}
  /\ owners \subseteq alive
  /\ alive' = alive \ owners
  /\ DeleteRows({f \in Files : Listed(f) /\ up[f].owner \in owners})
  /\ UNCHANGED <<store, up, sweep>>

-----------------------------------------------------------------------------
(* ObjectSweeper.Run                                                       *)

\* Mutation: ORDER BY queued_at only.
PendingInAnyOrder(batch) ==
  /\ batch \subseteq queue
  /\ Cardinality(batch) = IF Cardinality(queue) < Batch THEN Cardinality(queue) ELSE Batch

\* ORDER BY attempts, queued_at LIMIT Batch; equals come in any order.
PendingDeletions(batch) ==
  /\ batch \subseteq queue
  /\ Cardinality(batch) = IF Cardinality(queue) < Batch THEN Cardinality(queue) ELSE Batch
  /\ \A f \in batch, g \in queue \ batch : attempts[f] <= attempts[g]

StartPass(r) ==
  /\ sweep[r] = Resting
  /\ queue # {}
  /\ \E batch \in SUBSET queue :
       /\ PendingDeletions(batch)
       /\ sweep' = [sweep EXCEPT ![r] = [todo |-> batch, doing |-> NoFile]]
  /\ UNCHANGED <<alive, row, store, queue, attempts, up>>

\* A key that is already absent counts as deleted.
DeleteObject(r, f) ==
  /\ sweep[r].doing = NoFile
  /\ f \in sweep[r].todo
  /\ f \notin Refused
  /\ store' = store \ {f}
  /\ sweep' = [sweep EXCEPT ![r] = [todo |-> @.todo \ {f}, doing |-> f]]
  /\ UNCHANGED <<alive, row, queue, attempts, up>>

\* An entry that could not be cleared stays for another pass.
DeletionDone(r) ==
  /\ sweep[r].doing # NoFile
  /\ \/ queue' = queue \ {sweep[r].doing}
     \/ Crashes /\ UNCHANGED queue
  /\ sweep' = [sweep EXCEPT ![r].doing = NoFile]
  /\ UNCHANGED <<alive, row, store, attempts, up>>

\* The object may be gone all the same.  A key that is not refused for ever is
\* refused fewer than MaxAttempts times.
DeletionFailed(r, f) ==
  /\ sweep[r].doing = NoFile
  /\ f \in sweep[r].todo
  /\ \/ f \in Refused /\ UNCHANGED store
     \/ /\ StoreFaults
        /\ f \notin Refused
        /\ attempts[f] + 1 < MaxAttempts
        /\ store' \in {store, store \ {f}}
  /\ \/ attempts' = [attempts EXCEPT ![f] =
                       IF f \in queue /\ @ < MaxAttempts THEN @ + 1 ELSE @]
     \/ Crashes /\ UNCHANGED attempts
  /\ sweep' = [sweep EXCEPT ![r].todo = @ \ {f}]
  /\ UNCHANGED <<alive, row, queue, up>>

CrashSweep(r) ==
  /\ Crashes
  /\ sweep[r] # Resting
  /\ sweep' = [sweep EXCEPT ![r] = Resting]
  /\ UNCHANGED <<alive, row, store, queue, attempts, up>>

-----------------------------------------------------------------------------
UploadStep(f) ==
  \/ \E o \in Owners : UploadAttachment(f, o)
  \/ Put(f) \/ Scan(f)
  \/ Insert(f) \/ InsertFails(f) \/ InsertReplyLost(f)
  \/ Cleanup(f)
  \/ HangUp(f) \/ CrashUpload(f)

SweepStep(r) ==
  \/ StartPass(r)
  \/ DeletionDone(r)
  \/ \E f \in Files : DeleteObject(r, f) \/ DeletionFailed(r, f)

Next ==
  \/ \E f \in Files : UploadStep(f) \/ DeleteAttachment(f)
  \/ \E owners \in SUBSET Owners : Cascade(owners)
  \/ \E r \in Sweepers : SweepStep(r) \/ CrashSweep(r)

Spec == Init /\ [][Next]_vars

\* Every replica's sweeper runs on a ticker for as long as the process does.
Fairness == \A r \in Sweepers : WF_vars(SweepStep(r))

FairSpec == Spec /\ Fairness

-----------------------------------------------------------------------------
(* Properties.                                                             *)

\* A row never promises a file that is not there: the object is stored before
\* the row is inserted and removed only after the row is gone.  The one exception
\* is an INSERT that committed and whose handler saw an error.
NoDanglingRow ==
  \A f \in Files : Listed(f) => f \in store \/ up[f].unreported

\* However its row went, an object still in the bucket is on the deletion queue:
\* no cascade, failed deletion, second replica or crash makes it forgotten.
DeletedIsQueued ==
  \A f \in Files : row[f] = "deleted" /\ f \in store => f \in queue

\* What the scanner's contract says of the clean-up after a failed scan: the
\* object is removed again.
CleanupRemoves == [][\A f \in Files : Cleanup(f) => f \notin store']_vars

\* The per-task ceiling of the settings: it is exceeded only by uploads to one
\* task that began side by side.
WithinTaskLimit ==
  \A t \in Tasks :
    \/ UsageBytes(t) <= TaskLimit
    \/ \E f \in Files : Listed(f) /\ up[f].owner = t /\ up[f].beside

\* The life of a file as its readers see it.
life ==
  [f \in Files |-> IF row[f] = "none" THEN "nowhere"
                   ELSE IF Listed(f) THEN "listed"
                   ELSE IF f \in store THEN "removed" ELSE "reclaimed"]

Ledger == INSTANCE FileLedger WITH file <- life, Kept <- Refused

\* Rows, objects, queue and sweepers together implement the ledger: nothing is
\* listed before its bytes are there or loses them while listed, and the bytes of
\* a removed file are given back, even while the store keeps refusing other keys
\* that were queued before it.  Needs replies that are not lost.
ImplementsLedger == Ledger!Spec
=============================================================================
