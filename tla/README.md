# ProjectView: a verification project in TLA+

ProjectView is a project-management server: a Go API over PostgreSQL and an
S3-compatible object store, a WebSocket hub, background sweeps, and a React
client.  Several replicas of the server may run against one database; inside a
replica every HTTP request is a goroutine.  No handler takes a row lock and
transactions run at READ COMMITTED, so nearly everything that can go wrong is
one statement of one handler falling between two statements of another, a
replica dying between two statements, or two replicas doing the same job.

This directory holds TLA+ modules of those mechanisms, TLC configurations that
check them on small instances, and TLAPS proofs of what matters most for every
instance.  Paths below are relative to the repository root; `internal/` stands
for `src/backend/internal/`.

## The system

| component | state it keeps | operations | interacts with | what makes it correct |
|---|---|---|---|---|
| Sessions (`repo/sessions.go`, `handlers/auth_handler.go`, `auth/middleware.go`) | rows of `sessions`, `users.active`, password hashes | login, refresh (rotation), middleware, logout, password change, sweeps | Accounts, SCIM, the browser | revocation is final; a deactivated account is not served; one sign-in is one live session |
| Accounts (`handlers/user_handler.go`, `scim_handler.go`, `repo/privacy.go`) | role, active, anonymised | update, SCIM PUT/PATCH/DELETE, erase | Sessions | somebody can always administer the installation |
| Attachments (`handlers/attachment_handler.go`, `chat_files_handler.go`, `services/attachments.go`, migration 0008) | rows, objects in the store, the deletion queue | upload, delete, sweep, cascade | object store, scanner | no row without an object, no deleted object forgotten, quota |
| Recurrence (`services/recurrence*.go`, `instantiate.go`, `repo/recurrence.go`) | one rule per series, `occurrences`, `next_run` | set, spawn on schedule or on completion, move | Tasks, sweeps | one task of a series carries the rule; each occurrence once |
| Documents (`repo/collaboration.go`, `DocsPage.tsx`) | current text, revision history | create, partial update, history | clients | no text a person saved is lost |
| Whiteboards and sheets (`repo/canvas.go` and their pages) | a scene with a version | save | clients | no silent overwrite |
| Tasks, automation, deadline alerts (`handlers/task_handler.go`, `services/automation.go`, `alerts.go`, `sweeplock.go`) | tasks, rules, `task_alerts_sent`, advisory locks | create, update, move; match, act; tick, guard, notify, mark | each other, every replica | no loops, nobody taken off a task by a rule, one notification per alert |
| Intake and triage (`handlers/intake_handler.go`, `services/triage.go`) | submissions, suggestions | submit, suggest, accept | Tasks, AI | a suggestion is accepted once, as it was shown |
| Spaces, projects, goals, teams (`handlers/space_handler.go`, `project_handler.go`, `goals_handler.go`, `team_handler.go`, their `repo/`) | the tree of work, roles, channels of projects, key results | create, change, move members, delete | chat, migrations' constraints | nothing refers to what is gone; work is deleted on purpose only |
| Dependencies (`repo/dependencies.go`, migration 0004) | edges | add, remove, critical path | Tasks | acyclic; the path is the longest |
| Time, watchers, custom fields, clips (`handlers/product_handler.go`, `canvas_handler.go`, `repo/product.go`) | timers, entries, values, recordings and their objects | start, stop, log; upload, delete | object store, Tasks | no hour counted twice; a listed clip plays |
| Settings (`handlers/settings_handler.go`, `repo/settings.go`, `config/managed.go`, `services/envmirror.go`) | overrides in the database, running configuration, schedules, `.env` mirror | save, reload, restart, mirror | every component | the running configuration is the saved one |
| Migrations at start (`db/db.go`) | `schema_migrations` | connect, migrate | every replica | each script once, in order |
| Live updates (`ws/hub.go`, `hooks/useRealtime.ts`) | sockets, typing; what a tab shows | register, unregister, send, type, expire | every handler | presence converges; an indicator goes off |
| Conversations (`repo/chat.go`, `repo/collaboration.go`, `handlers/chat_handler.go`, `collaboration_handler.go`) | channels, messages, reactions, mentions | open, post, reply, edit, react, push | hub, notifications | one direct message per pair; pages catch up |
| Notifications, digest, retention (`repo/notifications.go`, `services/digest.go`, `retention.go`) | notices, preferences, the digest's mark | create, read, sweep, mail, purge | e-mail, every replica | no digest twice in a window, none forgotten |
| Browser client (`src/frontend/src/lib`) | the access token, query cache | request, refresh, refetch | all of the above | what it shows is what is stored |

## What is hard here

* **Statements interleave.** Check-then-act without a lock: the refresh token,
  the last administrator, the storage quota, the recurring rule, the accepted
  suggestion.
* **Several steps, no transaction.** Update the account, then sweep its
  sessions; store the object, scan it, insert the row; create the clone, move
  the rule; notify, mark as sent.  Any of them may be the last one executed.
* **Two replicas.** Sweeps, the prune job, migrations, settings.
* **Constraints meet cascades.** `ON DELETE CASCADE` and `SET NULL`, triggers and
  checks of twelve migrations decide together what a deletion takes along, in
  transactions that do not see each other.
* **Announcements after the unlock.** What the hub tells is told by many goroutines,
  after the change, in any order, through buffers that may be full.
* **Stale reads.** The password hash the login upgrades, the task an automation
  event carries, the configuration a save re-reads.


## The modules

An action is one statement or one transaction of a handler together with the Go
(or TypeScript) code up to the next one, unless noted.  What a goroutine has read
and still holds is part of its state, so every stale read is a state of the
model.  Variables marked `history` are not in the program; they record what the
exceptions of a property talk about, and no guard reads them except to bound a
counter (`ends` in Sessions).

| module | models | state | steps |
|---|---|---|---|
| `Sessions` | login (local, directory, OIDC), refresh and rotation, `RequireAuth`, logout, password change, deactivation, SCIM, erasure, pruning | accounts, session rows and owners, what each request goroutine has read | one per SQL statement; `Abandon` ends a handler between any two |
| `Attachments` | upload (ceiling, put, scan, insert, clean-up), delete, cascades with the trigger of migration 0008, the sweeper of every replica | rows, objects, the deletion queue with attempts, one handler per file, one pass per replica | one per call to the database or to the store, each of which may fail, be cancelled, or lose its reply |
| `FileLedger` | what attachments promise: nowhere, listed, removed, reclaimed | one value per file | List, Remove, Reclaim (with fairness) |
| `Recurrence` | rules, completion by a request, sweeps on a schedule, the advisory lock, `SpawnNext` and `MoveTo` | tasks, rules, workers, batches, the lock's holder | one per statement; `MoveTo` is two, because READ COMMITTED shows a second transaction the rule before the first commits |
| `Documents` | `Docs.Create/Update`, the revision history, and the editor of `DocsPage.tsx` | the page, its revisions, each tab's list entry, draft and pending save, each save in flight | read, write, answer; typing, leaving, refetching |
| `Boards` | whiteboards and sheets: the version check of `canvas.go` and the two editors with their query cache | the stored scene and version, each tab's cache, scene, base version and dirty mark, each save in flight | fetch begin/end, opening with or without data, changes, save, store or refuse, answer |
| `Work` | one task under all its writers: `CreateTask`, `UpdateTask`, `MoveTask`, `DeleteTask`, the automation engine, the deadline sweep with its guard, a form submission, its triage and the acceptance of what was suggested | the task's row and assignees, alerts marked, the submission, what each goroutine holds | one per statement or transaction; a rule's action is one, a notification and its mark are two |
| `Accounts` | every writer of role, activation, the erasure mark and what one signs in with | account rows, calls between their reads and their write | load, count, write for the users screen; PATCH and DELETE with the account read at the start; PUT, which asks nothing |
| `Structure` | spaces with their grants, folders, projects with their chat channel, projects from templates, goals and key results, teams | rows, and what each request has been allowed but has not written | `Begin...` asks (the permission checks of `access.go`), one action per write does it, with everything its cascade takes; `Fail` ends a request between the two |
| `Planning` | dependencies: the handler's check, the transaction with the trigger, the critical path | tasks present, edges, transactions in flight with the edges they see | check, commit, fail; removing edges and tasks |
| `Tracking` | timers, time by hand, watchers, custom fields, clips | timers, entries, values; rows and objects of clips, each upload and removal | one statement each; an upload and a removal of a clip in steps, any of which fails |
| `Settings` | saves, reloads, schedules and mirror of every server | stored overrides, and for each server values, the schedules of the alerts and of the retention, file | store, read back, apply, stop and start the alerts and then the retention, write the mirror; fail and restart |
| `Schema` | `Store.Migrate` on servers that start | scripts run, versions recorded, how far each server is | read the versions, then one transaction per script |
| `Inbox` | notifications, preferences, the digest sweep, the purge | notices, marks, sweeps with what they read, the lock | an hour passing, a sweep starting, each mail and its mark, deaths and lost locks |
| `Hub` | sockets, presence, typing, delivery, and what tabs show | client map, typing map, per goroutine the announcements it has still to make, per observing tab what it shows | changes under the lock are one action; each announcement takes its snapshot and then sends user by user |
| `Conversations` | channels, direct messages, messages, replies, edits, reactions, mentions, and views that fetch | rows, each call between its statements; each view, on screen or not, with what it read and how much it knows of its age | one per statement; the push after it reaches each view or not; a view turns, leaves, comes back, asks, is answered or is not |

Correspondences worth knowing before reading them:

* A session id stands for its row, its refresh token and the access tokens minted
  with it.  `Account.legacy` is a bcrypt hash.  Sessions lets an administrator
  deactivate anybody; whether he may is the subject of Accounts.
* A file id stands for the upload, its storage key and its row, as a fresh uuid
  does in the code.  All files have one size, so a ceiling in megabytes is a
  number of files.  `Refused` are keys the store never deletes.
* Dates of a series are `ahead`, `due` or absent; the computation of the next date
  is left out (below).  `created` of a rule names its series, as `created_at` does
  when `MoveTo` copies it.
* A text of a document is a title and a body, each a model value; an empty title is
  kept apart, because the server reads it as "leave the title alone".
* A scene is the set of changes it contains.  A new version is a new scene.  An emptied title
  (`Blanks`) and added rows or columns (`Resizes`) are changes of their own kind: the server
  keeps the title it has for an empty one (`repo/canvas.go:215`) and the larger size
  (`:325-327`), and the editor does not count a new size as a change (`SheetsPage.tsx:238-243`).
  The base version 0 is that of an editor whose data did not come (`isLoading` is false after a
  first fetch that failed or paused): it shows an empty scene, and is refilled when they do.
* `member` in Accounts stands for every role but `admin`.  A key is the way to the
  row (e-mail or provider subject) or the local password; a password change by its
  owner and a sign-in that upgrades an old hash are the same write of the same key.
* A worker of Work is a request or a sweep.  Only one task is modelled: rows of other
  tasks have nothing in common with it but the sweep that visits them, which is why an
  alert is left at any point of a batch.  `proc.seen` is `Event.Task.Assignees`, the copy
  an action writes back; the actions of all rules an event calls for are settled when the
  task is read (`Plan`), because conditions, `already` and the loop guard look at nothing
  but that copy.  A condition is the set of statuses it holds in; actions that set the
  priority, watch or notify, the run log, and the notice of an assignment write nothing
  another step reads.  A due date is `far`, `soon` or `overdue`.  A suggestion is empty, a
  priority alone, or a person, with or without a priority.  Completion and
  `spawnOnCompletion`, which come last in `UpdateTask` and `MoveTask`, are in Recurrence.
* A space, folder, team, project or goal of Structure is an id that a request draws and
  uses once, as a fresh uuid is.  Fields that no permission asks for are left out: names,
  colours, dates, archiving.  A project that names no space gets any or none, because the
  default skips archived ones and a failed search counts as none
  (`project_handler.go:165-167`).  Roles in a space are the numbers the code compares
  (`SpaceRoleAtLeast`).  A key result is a pair of a goal and the project it measures;
  the kind that is typed by hand refers to nothing.
* The trigger of Planning looks at the edges that are committed when an edge is inserted;
  the edge itself is committed later.  `raced` is history: edges whose insertion
  overlapped another's.  A sub-task is left out of the critical path by `Known`, as in the
  query.
* Four keys of Settings stand for the kinds there are: a secret (a blank keeps what is
  stored), a number, which is the days to keep something (one that does not parse leaves the
  environment's), and two texts, the cron expressions of the alerts and of the retention (one
  that does not parse runs nothing).  The retention is not scheduled at all while no count of
  days in force is positive (`services/retention.go:48-51`), which is the default.  Stopping
  is the second of the two stops a restart makes.  `doubts` is history: which of values,
  schedules and file two saves at once, a failed or dead request, a save on another server, a
  start that could not read the overrides, or a start or write that left the file behind have
  put in doubt; a save that nothing meets settles values and file, a restart the rest.
* A script of Schema is its number.  The row of a version and the effect of its script
  are one transaction; a server whose start failed is started again.
* An announcement of the hub is `Unsent` until its goroutine has taken the snapshot of who
  is to hear it.  `missed` is history: a tab and a topic that was told to it by two
  goroutines at once, while it was offline, into a full buffer or, for presence, while its
  first list was on its way.
* In Conversations a view is a query in the cache of a tab, on screen (`shown`) or not;
  `Everything` is the list of channels.  A push invalidates queries.  One on screen fetches,
  and fetches again if it was fetching, unless it holds nothing yet: TanStack joins a push to
  the first fetch and takes its answer for the new one.  One off screen fetches when it comes
  back.  An answer may lack reactions or reply counts (`Plain`): `decorateMessages` drops the
  errors of their queries (`collaboration_handler.go:221-222`).  `state` says what a view
  knows of its age; one that came back within the 30 seconds of `staleTime` is shown as it is.
* A day of Inbox has few hours, and `Window` is counted in them.  A mark is a number of
  hours, so at an age of exactly the window seconds decide: `sure` says which way.  A sweep
  that got the lock, or did not ask the database for it (`got`), reads who is due once.
  `swept`, `waited`, `mailed`, `unmarked` and `early` are history; nothing but the
  property reads them.
* `mutation` in a comment marks a variant of the definition that follows it with a
  plausible bug; the variants are used by nothing and serve to show that a property
  notices.

The modules share no state: what they have in common (an account is deactivated in
Sessions, Accounts and Inbox) is modelled in each with the detail its properties need.
Attachments is composed with FileLedger by refinement.  Four `MC` modules run several
components side by side, one chosen at the start by `part` while the others stay as they
begin; as no two share a variable, nothing that can happen is lost, and the states are
the sum of the parts' and not their product.

## What is checked

Each run is an `MC` module and a configuration.  States are distinct states found.

| run | instance | properties | states |
|---|---|---|---|
| `sessions` | Sessions: an administrator and a person, three rows, two requests; Accounts: two accounts, two calls, four patches | `EndedAccountGetsNoService`, `ExchangedTokenIsDead`, `OneLivePerSignIn`, `RevocationIsFinal`; `AdministratorRemains`, `ErasedHasNoKey` | 1 431 000 |
| `attachments` | two files, a task and a message, two replicas, every fault | `NoDanglingRow`, `DeletedIsQueued`, `WithinTaskLimit` | 1 259 000 |
| `attachments_ledger` | three files, one replica with batches of two, two keys refused for ever | `ImplementsLedger` | 243 000 |
| `recurrence` | one series of three tasks, two requests, two replicas | `OneCarrier`, `OneSuccessor`, `ScheduledHasItsMoment`, `CountWithinLimit`, `FinishedSeriesGoesOn`, `SeriesEndsForAReason` | 522 000 |
| `documents` | Documents: two tabs, two saves, two titles and two bodies; Conversations: three people, two channels, two messages, two calls, a view that leaves and comes back; Inbox: a person, a notice, two sweeps | `HistoryHoldsPage`, `NewestIsPage`, `TypingIsKept`; `ConversationsAgree`; `DigestsKeepTheirPace` | 1 776 000 |
| `boards` | two tabs, two saves, four changes (one empties the title, one adds rows), three versions | `NothingOverwritten`, `SavedIsStored`, `RefusedForAnother` | 1 262 000 |
| `work` | Work: one task, two people, two workers, three rules, a creation and two requests, one fault; Hub: three tabs of two people, one observing, one channel | `AlertedOnce`, `AcceptedOnce`, `AcceptedAsShown`, `RulesKeepAssignees`, `NothingLeftOver`, `AllAnswered`; `TypingIsOnline`, `OnlineListIsRight`, `IndicatorGoesOff` | 239 000 |
| `structure` | Structure three times (with folders, goals, teams): two people, two requests, one of each; Planning: four tasks, one of them a sub-task, two transactions; Tracking: a person, two tasks, a clip; Settings: two servers, two saves, four keys; Schema: two servers, three scripts | `WorkHangsTogether`, `WorkIsDeletedOnPurpose`; `Acyclic`, `CriticalPathIsLongest`; `KeptIsRight`; `SavedIsInForce`; `MigratedInOrder` | 843 000 |

The type invariants of the modules that have a `*Proofs` module are theorems, and no
run repeats them.

Four runs end in a counterexample, and each is a disagreement between the code and
what the repository says of it:

| run | says | does |
|---|---|---|
| `sessions_token_once` | a refresh token is usable at most once (`repo/sessions.go:120`) | two refreshes that both pass `ByToken` before either rotates each get a live session |
| `attachments_hangup` | a refused upload's object is removed again (`services/attachments.go:26`) | the removal uses the context of the request; a client that hung up cancels it, and the object is on no list |
| `recurrence_done` | re-opening a task in "done" would be absurd (`services/instantiate.go:89`) | the next instance of a finished task takes its status, which is done |
| `accounts_last_admin` | refusing to deactivate the last administrator is enforced on the SCIM path too (`BACKLOG.md:31`) | PUT does not ask `scimMayDeactivate`, and a body without `active` deactivates |

### Bounds

Two requests, transactions, saves, servers or sweeps are what a check-then-act needs to go
wrong; the third element, where there is one, is there because two are not enough: three
session rows for a sign-in and two rotations of it, three tasks for a series with two
successors, three keys so that two refused ones can fill a batch and the third still has to
get its turn, three versions so that a tab can be two behind, two ordinary changes of a board
and one of each odd kind, three rules in Work: two that undo each other's status, one of which
assigns as well, and one on a missed deadline.  Two requests after the creation are what two
acceptances, or a change and a deletion, take; one fault is enough for each exception, and
each has a name of its own. Two people of Structure suffice because a request may be the
administrator's or the manager's, and every check compares one of them with one row; one space
and one folder because a folder in the wrong space is a folder whose space was deleted, or a
project of no space.  Four tasks allow a cycle of three and a sub-task beside it, three edges
close it, and two transactions are enough to race.  Two clock ticks are what two timers at once
would count twice.  Two messages are a message and its reply; three people are author, reader
and one outside.  In Hub at most `MaxAnnouncing` goroutines have something to tell at a time,
and two tell things in the wrong order. Constraints of the `MC` modules cut further and are
named: administrators sign in once (`AdminsSignInOnce`); at most two workers active and one
mishap in a series (`OneMishap`); a history of three texts (`FewRevisions`); of the odd things
about a board (an emptied title, a new size, an editor without data or a save of one, an
editor that is dirty or a save without a change) two at a time, over the first two versions
and with no answer astray, and versions that differ (`FewOddities`); no exploration after the
first named exception of `AdministratorRemains` (`FewExceptions`), which loses nothing of that
property, as it says nothing then, and of `ErasedHasNoKey` only what the proof covers.  The
proofs use none of these constraints and none of the small numbers.  What a module itself
bounds (`MaxEnds`, `MaxRules`, `MaxVersion`, `MaxAttempts`, `MaxRequests`, `MaxClock`, who
writes in a conversation, and the like: each is a `CONSTANT` with "bound" beside it) is
bounded in the theorems too, by an arbitrary number or set.

### Fairness

Two runs need any.  In `attachments_ledger` every replica's sweeper goes on (`WF` of
`SweepStep`), because it runs on a ticker for as long as the process does
(`services/attachments.go:82-98`).  A key that is not refused for ever is refused
finitely often: that is an assumption about the store, written in the guard of
`DeletionFailed`.  Uploads, people and crashes are not fair.
`ORDER BY attempts` is what makes it hold; without it two refused keys starve the third,
which is the mutation that goes with the property.
In `work` a handler or sweep that has begun goes on (`WF` of `Step`, in which a call may
fail), and the timers start sweeps as long as there is something to find (`WF` of
`AlertSweep` and `TriageSweep` with the lock): cron and ticker run as long as the process
does (`services/alerts.go:62-78`, `services/triage.go:81-93`).  Sweeps after a restart,
requests, faults and the passing of time are not fair, and faults are finitely many.
The same run asks of Hub (`HubFairness`) that a goroutine with something to tell tells it
(a send never waits: `ws/hub.go:229-252`), that typing that is not repeated ages, and that
the ticker of `expireTyping` ticks (`ws/hub.go:368-376`); nobody has to connect, fetch or
type.  No property of `structure` needs any.

Deadlock is not checked where the instance may really be used up: ids of sessions,
files, tasks or versions run out, and a deleted board has nothing left to do.

## What the properties say

* **Sessions.**  A session that was revoked, expired or pruned stays so, although
  `Rotate` updates its row by id alone (`RevocationIsFinal`).  A token that was
  exchanged is dead (`ExchangedTokenIsDead`), and one sign-in has one live session
  unless a token was exchanged twice (`OneLivePerSignIn`; that it can be is
  `TokenUsedOnce`).  A request inside a handler belongs to an active account or
  arrived before it ended (`EndedAccountGetsNoService`): this holds although a
  refresh in flight may insert a session after the sweep of a deactivation, and
  only because `RequireAuth` reads the account after the session.
* **Attachments.**  A listed file has its bytes, but for an INSERT that committed
  and lost its reply (`NoDanglingRow`); a deleted one is on the queue until its
  bytes are gone, however it was deleted (`DeletedIsQueued`); the ceiling is passed
  only by uploads side by side (`WithinTaskLimit`); and all of it implements
  `FileLedger`.
* **Recurrence.**  A series has one carrier unless two transactions copied its rule
  at once (`OneCarrier`); a rule calls for one successor but for named overlaps
  (`OneSuccessor`); a worker ends a series only at its end, when the rule was
  saved under its hands, or when a sweep could not read the task
  (`SeriesEndsForAReason`); a scheduled rule is found by the
  sweep (`ScheduledHasItsMoment`); a limit is a limit (`CountWithinLimit`); a
  finished task does not keep the rule (`FinishedSeriesGoesOn`).
* **Documents.**  The page is always in its history (`HistoryHoldsPage`), and is its
  newest revision unless saves overlapped (`NewestIsPage`).  A fetch or an answer
  discards no typing but what was typed while a save was in flight (`TypingIsKept`).
* **Boards.**  A saved scene contains every change of the scene it replaces
  (`NothingOverwritten`); an editor that has loaded and says Saved shows what is stored,
  an emptied title and added rows or columns apart, unless something was changed during
  the save (`SavedIsStored`); a refusal of an editor that has loaded means that somebody
  else saved, once one's own answers have arrived (`RefusedForAnother`).
* **Work.**  Each person is alerted once to each state of the deadline, whatever becomes of
  the task meanwhile, but for a lost mark or two sweeps that had the alert in hand at once,
  not both under the lock (`AlertedOnce`).  A suggestion is accepted, and audited, once,
  but for two people at it at once or a mark that failed (`AcceptedOnce`), and stays what
  was accepted, though it is stored by id alone (`AcceptedAsShown`).  A rule takes nobody
  off who was on the task in its event (`RulesKeepAssignees`): who came since may be lost.
  Once people leave the task alone, whoever is to be alerted is and the submission is
  answered (`NothingLeftOver`), and nothing goes on for ever (`AllAnswered`).
* **Accounts.**  Somebody can administer the installation, unless two calls that
  took an administrator overlapped, a PUT took one, or an erased account that was
  reactivated asked for an erasure (`AdministratorRemains`).  An erased account has
  no key but one given knowingly by an administrator or a directory, or by a call
  that had read the account before the erasure (`ErasedHasNoKey`).

* **Structure.**  A project is in a folder of its own space only, a key result keeps the
  project it reads, and a project has its chat channel but for three named ways to lose it,
  however requests, which ask first and write later, mix with deletions
  (`WorkHangsTogether`).  A project goes only by the hand of somebody who was allowed to
  delete it or its space (`WorkIsDeletedOnPurpose`).
* **Planning.**  Edges that were added one at a time form no cycle, nor do they with the
  updates of others (`Acyclic`).  Where there is none, the memoised walk finds a chain that
  no other outweighs, compared with all sequences of tasks (`CriticalPathIsLongest`).
* **Tracking.**  No hour a timer measured is counted twice for one person, and a clip that
  is listed has its bytes, but for an INSERT that lost its reply (`KeptIsRight`).
* **Settings.**  Saved means in force: on a server that is handling no save the values, the
  schedule of the alerts, that of the retention (one where a count of days calls for it, none
  where not) and the file agree with what is stored, but for what `doubts` names
  (`SavedIsInForce`).
* **Schema.**  Every script has run once, in order and as recorded, and a server that is up
  has them all, however many start together and fail (`MigratedInOrder`).
* **Inbox.**  Nobody is mailed twice within his window, unless a mark was lost or two sweeps
  overlapped, and whoever is owed a digest and saw a good sweep at each of his hours waits
  no longer than his window and a day (`DigestsKeepTheirPace`).
* **Hub.**  Whoever is typing is online (`TypingIsOnline`).  A tab that heard all there was to
  hear, none of it while waiting for its first list, and fetched since, shows who is online,
  though announcements overtake each other (`OnlineListIsRight`).  An indicator goes off by
  itself, but on a tab that was offline, too slow, or told the contrary by two goroutines at
  once (`IndicatorGoesOff`).
* **Conversations.**  One direct message per set of people, unless two calls opened it at
  once; a view that was reached by every push, none of them during its first fetch, and has
  its answer since shows what is stored or is still to be told, but for the reactions or the
  reply counts its answer lacked; nobody
  hears of a conversation he has no part in, or of his own words (`ConversationsAgree`).

The exceptions in these statements are the point: each is a behaviour of the code,
found by checking the statement without it, and the property says that there is no
other.

## What is proved

The theorems hold for every value of the constants that the `ASSUME`s of the modules allow:
any number of accounts, requests, replicas, files, tabs.  The assumptions say only that markers
such as `None` are not members of the sets, that limits are natural numbers and flags
Booleans, and of which set a constant is a part or a function; that tasks are finitely many
(Planning, Tracking); and of the digests that the daily window is shorter than a day and the
weekly one no shorter.  `CHECK_DEADLOCK`, symmetry and the constraints of the configurations
play no part in them.

Each `*Proofs` module states an inductive invariant `IInv`, shows that `Init` implies
it, that every action preserves it, and that it implies the properties.

| module | theorems | why the invariant is more than the properties |
|---|---|---|
| `SessionsProofs` | `TypeCorrect`, `EndedAccountsAreNotServed`, `ExchangedTokensAreDead`, `RevocationIsForever`, `OneDevicePerSignIn` | what a handler holds must stay true under the others: `Good` says a looked-up row was there and that the account is active or was ended since; `Onward` says what no step undoes. One device per sign-in needs a second invariant, `ChainsOK`, about the rows of one chain |
| `AttachmentsProofs` | `TypeCorrect`, `RowsHaveObjects`, `DeletedObjectsAreQueued`, `TaskStaysWithinLimit`, `StepsFollowTheLedger` | two systems change in separate steps: `UploadsInOrder` (past the put the object is there and the row is not), `QueuedWasDeleted`, `ClearedIsGone`; for the ceiling, that of the uploads begun alone at most one is on its way and has left room for itself (`RoomLeft`) |
| `RecurrenceProofs` | `TypeCorrect`, `SeriesHasOneCarrier`, `ScheduledSeriesIsFound`, `SeriesCountIsBounded`, `SeriesEnd`, `FinishedSeriesContinues`, `TaskHasOneSuccessor` | a worker decides on a copy of the rule: `Follows` says what the stored rule still has in common with it, or that it was `touched`; `OneMove` that a rule being moved once is nowhere else; for `FinishedSeriesContinues`, on top of it, that a request has its task alone or disturbed (`Alone`), and that a finished task with a rule has a request that is to see to it (`Attended`); for `TaskHasOneSuccessor`, that at most one worker has an undisturbed task in hand while the lock works (`Exclusive`), and that a rule about to be used has no clone yet (`Heirs`) |
| `DocumentsProofs` (documents) | `TypeCorrect`, `PageIsInHistory`, `EveryChangeHasItsRevision`, `TypingSurvives` | `Underway`: a text that was read from the page is in the history; `Awaited`: a draft is what the save in flight carries, or was typed since |
| `DocumentsProofs` (conversations) | `ConversationsStayOne` | `NobodyElse`: a call about to open a direct message that is there, or that another is about to open, met another. `ViewIsServed`: a view that has read, and was neither missed nor told during its first fetch, agrees with the tables but for the decorations its answer lacked, or a call has still to tell it (`StillComing`), which needs that a call knows the members of the channel it wrote to (`CallsKnow`), that a reply is where its parent is (`NotesHangTogether`), and that a view shows only what its viewer may read (`InView`) |
| `DocumentsProofs` (inboxes) | `DigestsComeInTime` | not too soon: what is marked is no older than what was mailed (`MarkedAsMailed`), and a sweep that was alone is alone, with each person before it once (`KeepsWindows`). Not too late: `WaitsInTime` counts: within the window a wait is no longer than the age of the mark, past it wait and hours to go until the person's hour is over are a window and a day at most; and an undisturbed sweep has everybody before it whose hour it is (`Gathers`) |
| `BoardsProofs` | `TypeCorrect`, `NobodyIsOverwritten`, `WhatIsSavedIsStored`, `RefusalIsAnothersSave` | the version check helps only because an editor holds the whole scene of its base version (`Holds`), and a save in flight too (`Carries`), unless it has not loaded; the save an editor waits for is its own and holds what it held, but one of an editor that had not loaded, which cannot be stored (`Awaits`); versions have authors and stored titles are not empty (`Authored`, `NoBlanks`); `Informed` says of which versions a tab knows that it made them |
| `WorkProofs` | `Typed`, `AlertsOnce`, `AcceptsOnce`, `AcceptsAsShown`, `RulesKeep` | three invariants, one per concern. `Locked`: a guarded sweep's worker holds its lock, so two guarded ones are not at it together. For alerts, `Listed` (what a sweep has left was not delivered, or is excused), `Apart` (two sweeps have an alert in hand only if it is excused), `Accounted` (delivered means marked, about to be, excused, or the task is gone) and `Begun` (nobody sweeps before there is a task). For suggestions, `Unaccepted`, `Unasked`, `OneEach` and `Agreed` say what a person about to accept, or a sweep about to answer, still has in common with the row |
| `WorkProofs` (hub) | `HubInvariant`, `HubTypingIsOnline`, `HubOnlineListIsRight` | a list is wrong only while news of it is on its way: `TabIsServed` says to whom an announcement that was begun is still `Coming`, and that a tab it has reached is `due` or has `missed` it |
| `StructureProofs` (structure) | `StructureIsTyped`, `WorkStaysTogether`, `WorkIsOnlyDeletedOnPurpose` | a request writes on an answer it got earlier. `AskedOK` types what it has still to do; `FoldersAreFresh` says that the folder it is about to insert has an id that nothing refers to and nobody else has drawn. That a project is in a folder of its own space needs no more than the trigger at each write, since no folder moves |
| `StructureProofs` (planning) | `EdgesAreAcyclic`, `CriticalPathIsRight` | `AloneIsSafe`: an edge the trigger let pass closes no loop as long as its insertion is the only one under way; edges that go only shorten chains, and what two insertions at once may have closed is `raced`. The critical path needs no invariant but the types: every set of tasks has one that waits for none of them (`FirstOfSome`), so the recursion of the walk has a solution (`WalkWalks`), and what it finds is the heaviest chain to a task as soon as it is for the blockers (`WalkIsHeaviest`); without a loop a chain has no task twice and is no longer than the schedule (`ChainsAreShort`) |
| `StructureProofs` (tracking) | `KeptStaysRight` | `OneTimerEach`: so the sum over tasks and timers grows no faster than the clock. `UploadsComeFirst`: an upload before its row has no row and nobody to remove it, past the put it has its object, and a refused one with a row is `unsure` |
| `StructureProofs` (settings) | `SavedStaysInForce` | `OnTheWay`: how far each step of a save that nothing came between has brought values, the two timetables and file: a sweep's is `Steady` until Apply and from its start on, `Undisturbed` until its stop; `saving[w].alone` that no other save is under way on its server |
| `StructureProofs` (schema) | `SchemaIsMigratedInOrder` | `RunInOrder`: the versions are 1 to the number of scripts that ran; `PastIsApplied`: what a server read or is past is applied |
| `AccountsProofs` | `TypeCorrect`, `AnAdministratorRemains`, `ErasedIsNotSignedIn` | `Guarded`: a call about to write whose answer is not stale leaves an administrator besides its target; `Knowing`: a call about to give a key to an erased account knows that it is erased |

`StepsFollowTheLedger` is the safety half of the refinement: it assumes `Reported`
(no INSERT loses its reply), as the run does.

Sums over tasks (Tracking), closures of edges and the recursion of the critical path
(Planning) are data one would prove about by induction.  The prover cannot take the
library's induction theorems, whose hypothesis is an operator, so the lemmas argue by a
least counterexample: of the finite sets for which the statement fails, `SmallestSet`
gives one with no other of them inside it, and taking one element away contradicts it.
A chain is the least set closed under the edges,
so what holds of one closed set that contains the start holds of the chain.  That a
recursive function is defined at all is shown the same way: of the sets of tasks still
without a value, a smallest one that is not empty has a task all whose blockers have one.

Only model-checked: the liveness half of `ImplementsLedger`, `NothingLeftOver`,
`AllAnswered` and `IndicatorGoesOff` (fairness is beyond the prover), and the four
counterexamples.  Every invariant and every action property that a passing run checks
is also a theorem.

## Behaviour worth knowing

Found while modelling; each is inside a model as a named exception, or outside for the
reason given.

* **Sessions.**  A sign-in or refresh in flight inserts its session after the sweep of a
  deactivation.  It is not served, but it lives and serves again if the account is reactivated
  before it expires (README:473 says every live session is revoked).  A sign-in that upgrades a
  bcrypt hash (`auth_handler.go:146-154`) writes the password it verified, unless that fails, which is only logged, undoing a change
  made in between.
* **Attachments.**  When the reply of a committed INSERT is lost, the handler removes the
  object under the row (`attachment_handler.go:230-241`).
* **Recurrence.**  When two moves of one rule overlap, the series belongs to two tasks
  (README:985 says never).  A rule deleted while it is being moved comes back on the
  clone.  A sweep that judged a rule exhausted deletes it although it was extended since.
  A sweep deletes a rule on any error of reading
  its task, a timeout of one of the five queries too (`services/recurrence_scheduler.go:80-86`),
  so the series of a live task may end, though the comment there speaks only of a task that is
  gone.  An automation that finishes a task spawns nothing.  A clone is left without a rule when
  the process dies between the two calls.  Outside the model: a monthly series on the
  31st goes on from the 28th of February (`services/recurrence.go:59`).
* **Documents.**  The answer of a save clears the dirty mark of what was typed meanwhile
  (`DocsPage.tsx:85`).
* **Boards.**  The same (`WhiteboardsPage.tsx:281`).  After a first fetch that failed or was
  paused an editor opens all the same, empty and saying Saved, at version 0
  (`WhiteboardsPage.tsx:300`, `SheetsPage.tsx:194`): what is drawn there cannot be saved, the
  refusal says that somebody else saved though nobody did, and the data, when they come,
  replace it.  An emptied title is kept as it was and a sheet only grows, while the editor
  says Saved; added rows and columns alone are never saved.  Nobody subscribes to the events
  `whiteboard:saved` and `sheet:saved` that tell the other tabs (`canvas_handler.go:237`),
  so these learn of a save from a refetch or a refusal; after a refusal the editor keeps
  its own base, and reopening within the life of the cache may be refused again.
* **Work.**  The sweep 15 seconds after every start, or save of the settings, takes no lock
  (`services/alerts.go:82-88`), though `db/advisory.go:10` says that a sweep runs once
  across the installation: replicas started together alert twice.  Of two rules of one
  event that assign, the second writes the event's assignees and its own, so the first
  one's is lost (`services/automation.go:220`).  An alert's automation runs after its mark:
  a process that dies in between never runs it.  Marks outlive the date they were made for, so a
  deadline that was put off alerts nobody the second time.  Accepting a suggestion replaces all
  assignees by the one suggested, and asks whether that person is active, not, as
  `handlers/intake_handler.go:432` says, whether the project still has that member.
* **Structure.**  Deleting a team takes the chat channels, with their messages, of the
  projects created for it, of those too that have left it since: the channel cascades
  (`0001_init.sql:180`) where the project's team is set to null (`:67`), and a project's
  update never moves its channel, though `project_handler.go:147-149` says that they agree. A
  project made from a template has neither space nor channel (`template_handler.go:266-282`),
  though `project_handler.go:160-161` says that the tree never has orphans.  A project whose
  channel could not be opened stays, its creation answers 500, and a second try is a
  conflict.  A project that a key result measures cannot be deleted, nor can its space: the
  reference is set to null where a CHECK forbids it (`0006_enterprise.sql:47-53`).  The default
  space is the first one of anybody's, though `repo/projects.go:201` says the first the person
  can see.  The last owner of a private space may be removed.
* **Planning.**  Two insertions at once may close a cycle, which `repo/dependencies.go`
  calls impossible ("guaranteed acyclic by the trigger"); the walk of the critical path then
  recurses without end.  The path is empty when one task outweighs every chain.
* **Tracking.**  When the reply of a clip's INSERT is lost the handler removes the object
  under the row.  Objects of a deleted project's clips stay for ever: the queue of migration
  0008 is fed by attachments alone.
* **Settings.**  Of two saves at once on one server, the older values may stay in force and
  a schedule may stay running that nobody can stop.  Retention runs on no schedule until a count
  of days is positive, whatever its cron expression.  Other servers learn of a save when they
  are restarted.
* **Schema.**  Of two servers that start together on a new migration, one fails and has to
  be started again.
* **Inbox.**  A digest that could not be mailed is tried again a day later, though
  `services/digest.go:71-72` says the next sweep; with SMTP disabled it counts as sent.
  Whoever was read before a sweep is mailed by it, deactivated or erased meanwhile or not.
  An ended account still gets notices.  Changing the hour may cost a day.  The quiet hours and
  the choice of e-mails by kind (README:87, 998) are stored and asked by nobody: `WantsEmail`
  (`repo/collaboration.go:600`) has no caller, and `services/notify.go:56` asks only
  whether there is to be e-mail at all.
* **Hub.**  A tab that is offline when somebody stops typing shows him typing until it
  looks at another channel, though `ws/hub.go:12-13` says that a reconnection costs
  nothing.  Presence announced in the wrong order does no harm: tabs fetch the list.
* **Conversations.**  Two people may open the same direct message twice.  A message pushed
  while a page's first transcript is on its way may be missing until the next push or refetch,
  and a transcript whose reactions or reply counts could not be read shows none and says
  nothing (`collaboration_handler.go:221-222`); what a tab misses while its socket is down is
  not fetched when it reconnects.  A new channel is
  pushed to nobody.  A message that is not a reply records and announces no mention.
* **Browser client.**  Outside the models: of two tabs that refresh one cookie, the one
  that is refused clears the token the other has just stored (`lib/api.ts:73`).
* **Accounts.**  Two demotions that overlap leave nobody.  A PUT on an erased account gives
  it an e-mail address and activates it, so it can be signed in to again
  (`BACKLOG.md:33` says it cannot).  A profile edit in flight restores the erased name
  (names are outside the model).

## What is not modelled, and why

`PROJECT.json` lists every component with its status.

* Handlers that only read (search, dashboards, export) and remote calls without state (the
  AI client, SMTP).
* Formatting and validation of input; what is inserted one row at a time and never read back
  to decide something (comments on tasks, audit, baselines, stored templates, layouts,
  service tokens).
* The exchange with identity providers and cryptography: Sessions begins when the
  provider has answered.
* The drawing surface and formula engine of the editors, and of the browser client
  everything but the editors of documents, whiteboards and sheets and the refetching that
  Hub and Conversations describe.
* `cmd/migrate`, which copies an old installation once, alone, with the servers stopped.
* The arithmetic of dates (`NextOccurrence`): what is done with the next date is in
  Recurrence, how it is computed is not.

## Plan

1. `Dates`: `NextOccurrence` and the clamping of months as functions, compared with a
   definition over bounded calendars.
2. A composition of Work with Recurrence, a completion by an automation included: the two are
   connected by the task's status only.
