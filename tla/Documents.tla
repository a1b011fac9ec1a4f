----------------------------- MODULE Documents -----------------------------
(***************************************************************************)
(* A Markdown page that several people edit: the stored text and its       *)
(* revisions, Docs.Update with its reads and writes apart, and the editor  *)
(* of the Docs screen with the query cache it loads from.  Saves carry no  *)
(* version, so the last one wins; the history is what keeps the others.    *)
(***************************************************************************)
CONSTANTS
  Editors,   \* browser tabs that have the page open
  Requests,  \* PUT /api/docs/:id, in flight
  Titles, Bodies,
  Typed,     \* what people type, an empty title included
  First,     \* the page as created
  Empty, None

Text == [title : Titles, content : Bodies]
Draft == [title : Titles \cup {Empty}, content : Bodies]

ASSUME DocumentsAssumption ==
  /\ Typed \subseteq Draft
  /\ First \in Text
  /\ Empty \notin Titles
  /\ None \notin Draft \cup Requests \cup Editors

VARIABLES
  doc,         \* docs.title and docs.content, None once it is deleted
  revisions,   \* doc_revisions
  newest,      \* the last one
  page,        \* each tab's cached document
  draft,       \* what is typed and not saved (`dirty`), or None
  waits,       \* the save whose callbacks the tab will run
  raced,       \* history: the draft was typed while a save was in flight
  request,
  overlapped   \* history: a save wrote over a text it had not read

vars == <<doc, revisions, newest, page, draft, waits, raced, request, overlapped>>
stored == <<doc, revisions, newest, overlapped>>
tabs == <<page, draft, waits, raced>>

Request == [at : {"free", "sent", "write", "ok", "failed"},
            text : Draft \cup {None},   \* the body of the request
            read : Text \cup {None}]    \* the row as the transaction read it

Free == [at |-> "free", text |-> None, read |-> None]
Answer(how) == [Free EXCEPT !.at = how]

Shown(e) == IF draft[e] = None THEN page[e] ELSE draft[e]

-----------------------------------------------------------------------------
(* The editor (DocsPage).                                                  *)

\* Typing, or restoring a revision, which lands as an unsaved edit.
Type(e, d) ==
  /\ d \in Typed \cup revisions
  /\ draft' = [draft EXCEPT ![e] = d]
  /\ raced' = [raced EXCEPT ![e] = waits[e] # None]
  /\ UNCHANGED <<stored, page, waits, request>>

\* Going to another page and back drops what is not saved; the save in flight
\* stays the editor's.
Leave(e) ==
  /\ draft' = [draft EXCEPT ![e] = None]
  /\ raced' = [raced EXCEPT ![e] = FALSE]
  /\ UNCHANGED <<stored, page, waits, request>>

\* Mutation: a refetched page is loaded over unsaved edits.
RefetchOver(e) ==
  /\ doc # None
  /\ page' = [page EXCEPT ![e] = doc]
  /\ draft' = [draft EXCEPT ![e] = None]
  /\ UNCHANGED <<stored, waits, raced, request>>

\* A fetch (on focus, or after a save) is loaded into a clean editor only.
Refetch(e) ==
  /\ doc # None
  /\ page' = [page EXCEPT ![e] = doc]
  /\ UNCHANGED <<stored, draft, waits, raced, request>>

\* Ctrl+S saves a clean page as well, and while another save is in flight; a
\* second mutate() drops the callbacks of the first.
Save(e, r) ==
  /\ request[r].at = "free"
  /\ request' = [request EXCEPT ![r] =
       [Free EXCEPT !.at = "sent", !.text = Shown(e)]]
  /\ waits' = [waits EXCEPT ![e] = r]
  /\ raced' = [raced EXCEPT ![e] = FALSE]
  /\ UNCHANGED <<stored, page, draft>>

-----------------------------------------------------------------------------
(* The server (UpdateDoc, Docs.Update).                                    *)

Read(r) ==
  /\ request[r].at = "sent"
  /\ request' = [request EXCEPT ![r] =
       IF doc = None THEN Answer("failed")
       ELSE [@ EXCEPT !.at = "write", !.read = doc]]
  /\ UNCHANGED <<stored, tabs>>

\* An empty title is not supplied: the one that was read stays.
Merged(text, read) ==
  [title |-> IF text.title = Empty THEN read.title ELSE text.title,
   content |-> text.content]

\* Mutation: only a changed body makes a revision.
ChangesBody(next, read) == next.content # read.content

Changes(next, read) == next # read

\* Mutation: the revision holds the text as it was before.
SnapshotBefore(next, read) == read

Snapshot(next, read) == next

\* The transaction commits: the revision, if the text moved from what was read,
\* and the row.  A page deleted in between fails it.
Write(r) == LET next == Merged(request[r].text, request[r].read) IN
  /\ request[r].at = "write"
  /\ IF doc = None
     THEN /\ request' = [request EXCEPT ![r] = Answer("failed")]
          /\ UNCHANGED stored
     ELSE /\ request' = [request EXCEPT ![r] = Answer("ok")]
          /\ doc' = next
          /\ IF Changes(next, request[r].read)
             THEN /\ newest' = Snapshot(next, request[r].read)
                  /\ revisions' = revisions \cup {newest'}
             ELSE UNCHANGED <<revisions, newest>>
          /\ overlapped' = (overlapped \/ doc # request[r].read)
  /\ UNCHANGED tabs

\* The revisions go with the page (ON DELETE CASCADE).
Delete ==
  /\ doc # None
  /\ doc' = None /\ revisions' = {} /\ newest' = None
  /\ UNCHANGED <<overlapped, tabs, request>>

-----------------------------------------------------------------------------
(* Answers.                                                                *)

Settle(r) ==
  waits' = [e \in Editors |-> IF waits[e] = r THEN None ELSE waits[e]]

\* onSuccess clears `dirty`, whatever was typed since; a cleared editor shows
\* the cached page.
AnswerOk(r) ==
  /\ request[r].at = "ok"
  /\ request' = [request EXCEPT ![r] = Free]
  /\ draft' = [e \in Editors |-> IF waits[e] = r THEN None ELSE draft[e]]
  /\ raced' = [e \in Editors |-> IF waits[e] = r THEN FALSE ELSE raced[e]]
  /\ Settle(r)
  /\ UNCHANGED <<stored, page>>

\* Any call of the handler may fail: before the commit, which undoes it, or
\* reading the page back after it.
AnswerFailed(r) ==
  /\ request[r].at # "free"
  /\ request' = [request EXCEPT ![r] = Free]
  /\ Settle(r)
  /\ UNCHANGED <<stored, page, draft, raced>>

\* The connection breaks: the tab is told of an error, the server goes on.
Lose(r) ==
  /\ request[r].at # "free"
  /\ Settle(r)
  /\ UNCHANGED <<stored, page, draft, raced, request>>

-----------------------------------------------------------------------------
Init ==
  /\ doc = First /\ revisions = {First} /\ newest = First
  /\ page = [e \in Editors |-> First]
  /\ draft = [e \in Editors |-> None]
  /\ waits = [e \in Editors |-> None]
  /\ raced = [e \in Editors |-> FALSE]
  /\ request = [r \in Requests |-> Free]
  /\ overlapped = FALSE

Editing(e) ==
  \/ \E d \in Typed \cup revisions : Type(e, d)
  \/ Leave(e) \/ Refetch(e)
  \/ \E r \in Requests : Save(e, r)

Handling(r) ==
  Read(r) \/ Write(r) \/ AnswerOk(r) \/ AnswerFailed(r) \/ Lose(r)

Next ==
  \/ \E e \in Editors : Editing(e)
  \/ \E r \in Requests : Handling(r)
  \/ Delete

Spec == Init /\ [][Next]_vars

-----------------------------------------------------------------------------
(* Properties.                                                             *)

TypeOK ==
  /\ doc \in Text \cup {None}
  /\ revisions \subseteq Text
  /\ newest \in Text \cup {None}
  /\ page \in [Editors -> Text]
  /\ draft \in [Editors -> Draft \cup {None}]
  /\ waits \in [Editors -> Requests \cup {None}]
  /\ raced \in [Editors -> BOOLEAN]
  /\ request \in [Requests -> Request]
  /\ overlapped \in BOOLEAN

\* "Every save keeps the previous version" (0005_collaboration.sql:96): however
\* saves interleave, the text of the page is in its history, so that the next
\* save can destroy nothing.
HistoryHoldsPage == doc # None => doc \in revisions

\* "A version kept on every save that changes the text" (README.md:82): the
\* newest revision is the page, unless two saves overlapped; then a save may put
\* back a text it had read and leave no revision of its own.
NewestIsPage == doc # None => newest = doc \/ overlapped

Kept(d) ==
  \E t \in revisions : t.content = d.content /\ d.title \in {Empty, t.title}

\* "A background refetch must not discard what someone is typing"
\* (DocsPage.tsx:56), and an answer clears the editor of what was saved: a draft
\* that ends by a fetch or an answer is in the history, unless it was typed
\* while a save was in flight or the page is deleted.
TypingIsKept ==
  [][page' # page \/ request' # request =>
       \A e \in Editors :
         draft[e] # None /\ draft'[e] = None
         => Kept(draft[e]) \/ raced[e] \/ doc = None]_vars
=============================================================================
