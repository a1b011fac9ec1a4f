------------------------------- MODULE Boards -------------------------------
(***************************************************************************)
(* A whiteboard or a sheet that several people have open.  It is one       *)
(* document saved whole, against the version it was opened at.  The server *)
(* refuses a stale version in one statement; whether nobody's work is lost *)
(* rests as much on the editor, which loads once, on the tab's query cache *)
(* and on answers that come late, to a closed editor, or never.            *)
(*                                                                         *)
(* A scene is the set of the changes it has taken in: a scene that lacks   *)
(* one of its predecessor's changes has overwritten somebody's work.  The  *)
(* title and the size of a sheet are saved with it, but not as it is: the  *)
(* server keeps the title it has for an empty one, and the editor does not *)
(* count added rows and columns as a change.                               *)
(***************************************************************************)
EXTENDS Naturals

CONSTANTS
  Editors,     \* browser tabs
  Requests,    \* PUT /api/whiteboards/:id or /api/sheets/:id, in flight
  Changes,     \* what people draw or type, each once
  Blanks,      \* among them: the title is emptied
  Resizes,     \* among them: a sheet is given more rows or columns
  MaxVersion,  \* bound: versions of the board
  None

ASSUME BoardsAssumption ==
  /\ Blanks \subseteq Changes /\ Resizes \subseteq Changes
  /\ MaxVersion \in Nat \ {0}
  /\ None \notin Requests \cup Editors

VARIABLES
  alive,     \* the row exists
  version,   \* whiteboards.version
  scenes,    \* the scene of each version so far
  author,    \* history: who saved each version
  cached,    \* the version in each tab's query cache, 0 if none
  fetched,   \* the version a fetch under way has read, 0 if none
  tab,       \* the editor of each tab
  request,
  strayed    \* history: tabs with a save whose answer was lost or came to a
             \* closed editor, or whose cache took a late fetch

vars == <<alive, version, scenes, author, cached, fetched, tab, request, strayed>>
row == <<alive, version, scenes, author>>
cache == <<cached, fetched>>

Versions == 1..MaxVersion

\* An editor has base 0 until it has loaded.  `raced`, for the properties:
\* something changed while a save was in flight.
Tab == [open : BOOLEAN, items : SUBSET Changes, base : 0..MaxVersion,
        dirty : BOOLEAN, saving : Requests \cup {None}, raced : BOOLEAN]

\* `lost`: the tab was told of an error and no longer waits.
Request == [at : {"free", "sent", "saved", "stale", "failed"},
            by : Editors \cup {None}, items : SUBSET Changes,
            base : 0..MaxVersion, lost : BOOLEAN]

Closed == [open |-> FALSE, items |-> {}, base |-> 0, dirty |-> FALSE,
           saving |-> None, raced |-> FALSE]
Free == [at |-> "free", by |-> None, items |-> {}, base |-> 0, lost |-> FALSE]

-----------------------------------------------------------------------------
(* The tab (BoardEditor, SheetEditor and their queries).                   *)

FetchBegins(e) ==
  /\ alive /\ fetched[e] = 0
  /\ fetched' = [fetched EXCEPT ![e] = version]
  /\ UNCHANGED <<row, cached, tab, request, strayed>>

Unloaded(e) == tab[e].open /\ tab[e].base = 0

\* An editor that is open before there is data takes the first that comes, in
\* place of whatever was drawn on it, and is as dirty as it was.
Loaded(e, v) ==
  IF Unloaded(e) THEN [tab[e] EXCEPT !.items = scenes[v], !.base = v] ELSE tab[e]

\* Mutation: an open editor takes the version of what is fetched.
FetchMovesBase(e) ==
  /\ fetched[e] # 0
  /\ cached' = [cached EXCEPT ![e] = fetched[e]]
  /\ fetched' = [fetched EXCEPT ![e] = 0]
  /\ tab' = [tab EXCEPT ![e] =
       IF tab[e].open THEN [Loaded(e, fetched[e]) EXCEPT !.base = fetched[e]] ELSE @]
  /\ UNCHANGED <<row, request, strayed>>

\* The cache takes it; an editor that has loaded does not.
FetchEnds(e) ==
  /\ fetched[e] # 0
  /\ cached' = [cached EXCEPT ![e] = fetched[e]]
  /\ fetched' = [fetched EXCEPT ![e] = 0]
  /\ tab' = [tab EXCEPT ![e] = Loaded(e, fetched[e])]
  /\ strayed' = IF fetched[e] < cached[e] THEN strayed \cup {e} ELSE strayed
  /\ UNCHANGED <<row, request>>

FetchFails(e) ==
  /\ fetched[e] # 0
  /\ fetched' = [fetched EXCEPT ![e] = 0]
  /\ UNCHANGED <<row, cached, tab, request, strayed>>

\* The cache drops a board nobody shows (gcTime).
Evict(e) ==
  /\ ~tab[e].open /\ fetched[e] = 0 /\ cached[e] # 0
  /\ cached' = [cached EXCEPT ![e] = 0]
  /\ UNCHANGED <<row, fetched, tab, request, strayed>>

\* The editor loads what is in the cache, once.  With nothing there it begins
\* empty, at version 0.
Open(e) ==
  /\ ~tab[e].open
  /\ tab' = [tab EXCEPT ![e] = [Closed EXCEPT !.open = TRUE,
       !.base = cached[e],
       !.items = IF cached[e] = 0 THEN {} ELSE scenes[cached[e]]]]
  /\ UNCHANGED <<row, cache, request, strayed>>

Close(e) ==
  /\ tab[e].open
  /\ tab' = [tab EXCEPT ![e] = Closed]
  /\ strayed' = IF tab[e].saving # None THEN strayed \cup {e} ELSE strayed
  /\ UNCHANGED <<row, cache, request>>

Unused(x) ==
  /\ \A e \in Editors : x \notin tab[e].items
  /\ \A r \in Requests : x \notin request[r].items
  /\ \A v \in Versions : x \notin scenes[v]

\* The editor is on screen unless a first fetch is under way (isLoading): one
\* that failed or waits for the network leaves it there, unloaded.
Ready(e) == tab[e].open /\ (Unloaded(e) => fetched[e] = 0)

\* The surface takes changes while a save is in flight.
Change(e, x) ==
  /\ Ready(e) /\ Unused(x)
  /\ tab' = [tab EXCEPT ![e] =
       [@ EXCEPT !.items = tab[e].items \cup {x},
                 !.dirty = tab[e].dirty \/ x \notin Resizes,
                 !.raced = tab[e].raced \/ tab[e].saving # None]]
  /\ UNCHANGED <<row, cache, request, strayed>>

\* The button is disabled while a save of this editor is pending.
Save(e, r) ==
  /\ Ready(e) /\ tab[e].dirty /\ tab[e].saving = None
  /\ request[r].at = "free"
  /\ request' = [request EXCEPT ![r] =
       [at |-> "sent", by |-> e, items |-> tab[e].items, base |-> tab[e].base,
        lost |-> FALSE]]
  /\ tab' = [tab EXCEPT ![e] = [@ EXCEPT !.saving = r, !.raced = FALSE]]
  /\ UNCHANGED <<row, cache, strayed>>

-----------------------------------------------------------------------------
(* The server (Whiteboards.Save, Spreadsheets.Save).                       *)

\* Mutation: the version is not looked at.
MatchesAny(r) == alive

Matches(r) == alive /\ version = request[r].base

\* UPDATE ... WHERE id = $1 AND version = $4, where an empty title leaves the
\* stored one.  `base` of an answered save is the version it made.
Store(r) ==
  /\ request[r].at = "sent"
  /\ Matches(r) /\ version < MaxVersion
  /\ version' = version + 1
  /\ scenes' = [scenes EXCEPT ![version + 1] = request[r].items \ Blanks]
  /\ author' = [author EXCEPT ![version + 1] = request[r].by]
  /\ request' = [request EXCEPT ![r] =
       [@ EXCEPT !.at = "saved", !.base = version + 1]]
  /\ UNCHANGED <<alive, cache, tab, strayed>>

\* If the update finds nothing a second look tells a stale version (409) from a
\* board that is gone; a save may fail for other reasons too (rights, size).
Refuse(r) ==
  /\ request[r].at = "sent"
  /\ \E answer \in {"stale", "failed"} :
       /\ answer = "stale" => alive /\ ~Matches(r)
       /\ request' = [request EXCEPT ![r] = [@ EXCEPT !.at = answer]]
  /\ UNCHANGED <<row, cache, tab, strayed>>

Delete ==
  /\ alive /\ alive' = FALSE
  /\ UNCHANGED <<version, scenes, author, cache, tab, request, strayed>>

-----------------------------------------------------------------------------
(* Answers.                                                                *)

Waiting(r) == request[r].at # "free" /\ ~request[r].lost

\* Mutation: the editor keeps the version it was opened at.
AnswerSavedKeepsBase(r) == LET e == request[r].by IN
  /\ Waiting(r) /\ request[r].at = "saved"
  /\ request' = [request EXCEPT ![r] = Free]
  /\ cached' = [cached EXCEPT ![e] = request[r].base]
  /\ tab' = [tab EXCEPT ![e] =
       IF tab[e].saving = r THEN [@ EXCEPT !.dirty = FALSE, !.saving = None]
       ELSE Loaded(e, request[r].base)]
  /\ UNCHANGED <<row, fetched, strayed>>

\* The cache takes the saved board in any case, and an unloaded editor from it;
\* the editor, if it is still the one that saved, takes the version alone, and is
\* no longer dirty whatever was drawn since.
AnswerSaved(r) == LET e == request[r].by IN
  /\ Waiting(r) /\ request[r].at = "saved"
  /\ request' = [request EXCEPT ![r] = Free]
  /\ cached' = [cached EXCEPT ![e] = request[r].base]
  /\ tab' = [tab EXCEPT ![e] =
       IF tab[e].saving = r
       THEN [@ EXCEPT !.base = request[r].base, !.dirty = FALSE, !.saving = None]
       ELSE Loaded(e, request[r].base)]
  /\ UNCHANGED <<row, fetched, strayed>>

NoLongerSaving(r) ==
  tab' = [e \in Editors |->
    IF tab[e].saving = r THEN [tab[e] EXCEPT !.saving = None] ELSE tab[e]]

\* 409 or an error: the editor keeps its changes and its version.
AnswerRefused(r) ==
  /\ Waiting(r) /\ request[r].at \in {"stale", "failed"}
  /\ request' = [request EXCEPT ![r] = Free]
  /\ NoLongerSaving(r)
  /\ UNCHANGED <<row, cache, strayed>>

\* The connection breaks: the tab is told of an error, the save goes on or not.
Lose(r) ==
  /\ Waiting(r)
  /\ request' = [request EXCEPT ![r].lost = TRUE]
  /\ NoLongerSaving(r)
  /\ strayed' = strayed \cup {request[r].by}
  /\ UNCHANGED <<row, cache>>

Vanish(r) ==
  /\ request[r].lost
  /\ request' = [request EXCEPT ![r] = Free]
  /\ UNCHANGED <<row, cache, tab, strayed>>

-----------------------------------------------------------------------------
Init ==
  /\ alive = TRUE /\ version = 1
  /\ scenes = [v \in Versions |-> {}]
  /\ author = [v \in Versions |-> None]
  /\ cached = [e \in Editors |-> 0]
  /\ fetched = [e \in Editors |-> 0]
  /\ tab = [e \in Editors |-> Closed]
  /\ request = [r \in Requests |-> Free]
  /\ strayed = {}

Editing(e) ==
  \/ FetchBegins(e) \/ FetchEnds(e) \/ FetchFails(e) \/ Evict(e)
  \/ Open(e) \/ Close(e)
  \/ \E x \in Changes : Change(e, x)
  \/ \E r \in Requests : Save(e, r)

Handling(r) ==
  \/ Store(r) \/ Refuse(r)
  \/ AnswerSaved(r) \/ AnswerRefused(r) \/ Lose(r) \/ Vanish(r)

Next ==
  \/ \E e \in Editors : Editing(e)
  \/ \E r \in Requests : Handling(r)
  \/ Delete

Spec == Init /\ [][Next]_vars

-----------------------------------------------------------------------------
(* Properties.                                                             *)

TypeOK ==
  /\ alive \in BOOLEAN
  /\ version \in Versions
  /\ scenes \in [Versions -> SUBSET Changes]
  /\ author \in [Versions -> Editors \cup {None}]
  /\ cached \in [Editors -> 0..MaxVersion]
  /\ fetched \in [Editors -> 0..MaxVersion]
  /\ tab \in [Editors -> Tab]
  /\ request \in [Requests -> Request]
  /\ strayed \subseteq Editors

\* "Two people on one board cannot silently overwrite each other"
\* (README.md:47): whatever tabs load, cache and are told, and in which order, a
\* saved scene holds all that the scene before it held.
NothingOverwritten ==
  \A v \in 2..MaxVersion : v <= version => scenes[v - 1] \subseteq scenes[v]

\* An editor that says "Saved" shows what is stored as its version, unless
\* something was changed while a save was in flight, or it has not loaded.  A
\* title that was emptied and rows or columns that were added are no part of it.
SavedIsStored ==
  \A e \in Editors :
    tab[e].open /\ tab[e].base # 0 /\ ~tab[e].dirty /\ ~tab[e].raced
    => tab[e].items \ (Blanks \cup Resizes) = scenes[tab[e].base] \ Resizes

\* "Somebody else saved this board while you were editing it"
\* (canvas_handler.go:226): a refusal is another's save, unless an answer to
\* this tab went astray or its editor had not loaded.
RefusedForAnother ==
  \A r \in Requests :
    /\ request[r].at = "stale" /\ request[r].base # 0
    /\ request[r].by \notin strayed
    => \E v \in Versions : /\ request[r].base < v /\ v <= version
                           /\ author[v] \in Editors \ {request[r].by}
=============================================================================
