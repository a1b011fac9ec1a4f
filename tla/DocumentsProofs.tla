-------------------------- MODULE DocumentsProofs --------------------------
(***************************************************************************)
(* What documents, conversations and inboxes keep for any number of        *)
(* people, tabs, calls and sweeps, as MCDocuments checks them side by side.*)
(*                                                                         *)
(* A save acts on the row it read.  Revisions are only ever added while    *)
(* the page lives, so what was read from the page stays in the history,    *)
(* which is why writing it back without a revision does no harm.  A page   *)
(* of a conversation is wrong only while a call has still to tell it.  A   *)
(* digest is due by the mark, which is never older than what was mailed.   *)
(***************************************************************************)
EXTENDS Documents, Conversations, Inbox, TLAPS

\* A transaction between its read and its write.
Underway(r) ==
  /\ request[r].at \in {"sent", "write"} => request[r].text \in Draft
  /\ request[r].at = "write" =>
       /\ request[r].read \in Text
       /\ doc # None => request[r].read \in revisions

\* A draft is what the save its tab waits for carries, or was typed since.
Awaited(e) ==
  waits[e] # None =>
    /\ request[waits[e]].at # "free"
    /\ draft[e] # None /\ ~raced[e] =>
         /\ request[waits[e]].at \in {"sent", "write"} =>
              request[waits[e]].text = draft[e]
         /\ request[waits[e]].at = "ok" => Kept(draft[e]) \/ doc = None

\* The inductive invariant.
IInv ==
  /\ TypeOK
  /\ HistoryHoldsPage
  /\ NewestIsPage
  /\ \A r \in Requests : Underway(r)
  /\ \A e \in Editors : Awaited(e)

-----------------------------------------------------------------------------
(* Operators.                                                              *)

LEMMA TextIsDraft ==
  /\ Text \subseteq Draft
  /\ None \notin Draft /\ None \notin Text
  BY DocumentsAssumption DEF Text, Draft

LEMMA AnswerIsRequest ==
  /\ Free \in Request /\ Free.at = "free"
  /\ \A how \in {"ok", "failed"} :
       Answer(how) \in Request /\ Answer(how).at = how
  BY DEF Answer, Free, Request

\* What a save writes: its body, with the title that was read if it has none.
LEMMA MergedIsKept ==
  ASSUME NEW text \in Draft, NEW row \in Text
  PROVE  /\ Merged(text, row) \in Text
         /\ Merged(text, row).content = text.content
         /\ text.title \in {Empty, Merged(text, row).title}
  BY DEF Merged, Text, Draft

-----------------------------------------------------------------------------
(* The steps.                                                              *)

\* Steps of a tab.
LEMMA TypeKeepsInvariant ==
  ASSUME IInv, NEW e \in Editors, NEW d \in Typed \cup revisions, Type(e, d)
  PROVE  IInv'
  <1>1. d \in Draft
    BY TextIsDraft, DocumentsAssumption DEF IInv, TypeOK
  <1>2. /\ draft' = [draft EXCEPT ![e] = d]
        /\ raced' = [raced EXCEPT ![e] = waits[e] # None]
        /\ UNCHANGED <<doc, revisions, newest, overlapped, page, waits, request>>
    BY DEF Type, stored
  <1>3. TypeOK'
    BY <1>1, <1>2 DEF IInv, TypeOK
  <1>4. HistoryHoldsPage' /\ NewestIsPage'
    BY <1>2 DEF IInv, HistoryHoldsPage, NewestIsPage
  <1>5. \A r \in Requests : Underway(r)'
    BY <1>2 DEF IInv, Underway
  <1>6. \A f \in Editors : Awaited(f)'
    BY <1>2 DEF IInv, TypeOK, Awaited, Kept
  <1> QED BY <1>3, <1>4, <1>5, <1>6 DEF IInv

LEMMA LeaveKeepsInvariant ==
  ASSUME IInv, NEW e \in Editors, Leave(e)
  PROVE  IInv'
  <1>1. /\ draft' = [draft EXCEPT ![e] = None]
        /\ raced' = [raced EXCEPT ![e] = FALSE]
        /\ UNCHANGED <<doc, revisions, newest, overlapped, page, waits, request>>
    BY DEF Leave, stored
  <1>2. TypeOK'
    BY <1>1 DEF IInv, TypeOK
  <1>3. HistoryHoldsPage' /\ NewestIsPage'
    BY <1>1 DEF IInv, HistoryHoldsPage, NewestIsPage
  <1>4. \A r \in Requests : Underway(r)'
    BY <1>1 DEF IInv, Underway
  <1>5. \A f \in Editors : Awaited(f)'
    BY <1>1 DEF IInv, TypeOK, Awaited, Kept
  <1> QED BY <1>2, <1>3, <1>4, <1>5 DEF IInv

LEMMA RefetchKeepsInvariant ==
  ASSUME IInv, NEW e \in Editors, Refetch(e)
  PROVE  IInv'
  <1>1. /\ doc # None /\ page' = [page EXCEPT ![e] = doc]
        /\ UNCHANGED <<doc, revisions, newest, overlapped, draft, waits, raced, request>>
    BY DEF Refetch, stored
  <1>2. TypeOK'
    BY <1>1 DEF IInv, TypeOK
  <1>3. HistoryHoldsPage' /\ NewestIsPage'
    BY <1>1 DEF IInv, HistoryHoldsPage, NewestIsPage
  <1>4. \A r \in Requests : Underway(r)'
    BY <1>1 DEF IInv, Underway
  <1>5. \A f \in Editors : Awaited(f)'
    BY <1>1 DEF IInv, Awaited, Kept
  <1> QED BY <1>2, <1>3, <1>4, <1>5 DEF IInv

LEMMA SaveKeepsInvariant ==
  ASSUME IInv, NEW e \in Editors, NEW r \in Requests, Save(e, r)
  PROVE  IInv'
  <1> DEFINE x == [Free EXCEPT !.at = "sent", !.text = Shown(e)]
  <1>1. Shown(e) \in Draft
    BY TextIsDraft DEF Shown, IInv, TypeOK
  <1>2. x \in Request /\ x.at = "sent" /\ x.text = Shown(e)
    BY <1>1 DEF Free, Request
  <1> HIDE DEF x
  <1>3. /\ request[r].at = "free"
        /\ request' = [request EXCEPT ![r] = x]
        /\ waits' = [waits EXCEPT ![e] = r]
        /\ raced' = [raced EXCEPT ![e] = FALSE]
        /\ UNCHANGED <<doc, revisions, newest, overlapped, page, draft>>
    BY DEF Save, stored, x
  <1>4. TypeOK'
    BY <1>2, <1>3 DEF IInv, TypeOK
  <1>5. HistoryHoldsPage' /\ NewestIsPage'
    BY <1>3 DEF IInv, HistoryHoldsPage, NewestIsPage
  <1>6. \A q \in Requests : Underway(q)'
    BY <1>1, <1>2, <1>3 DEF IInv, TypeOK, Underway
  <1>7. ASSUME NEW f \in Editors
        PROVE  Awaited(f)'
    <2>1. CASE f = e
      BY <1>2, <1>3, <2>1 DEF IInv, TypeOK, Awaited, Shown
    <2>2. CASE f # e
      <3>1. waits'[f] = waits[f] /\ draft'[f] = draft[f] /\ raced'[f] = raced[f]
        BY <1>3, <2>2 DEF IInv, TypeOK
      <3>2. waits[f] # None => waits[f] # r
        BY <1>3 DEF IInv, Awaited
      <3>3. waits[f] # None => request'[waits[f]] = request[waits[f]]
        BY <1>3, <3>2 DEF IInv, TypeOK
      <3>4. draft'[f] = draft[f] => (Kept(draft[f])' <=> Kept(draft[f]))
        BY <1>3 DEF Kept
      <3>5. Awaited(f)
        BY DEF IInv
      <3> QED BY <1>3, <3>1, <3>3, <3>4, <3>5 DEF Awaited
    <2> QED BY <2>1, <2>2
  <1> QED BY <1>4, <1>5, <1>6, <1>7 DEF IInv

\* The steps of the server.  One request moves on; what it leaves to show.
LEMMA RequestMovesOn ==
  ASSUME IInv, TypeOK', NEW r \in Requests, NEW x \in Request,
         request' = [request EXCEPT ![r] = x], x.at # "free",
         UNCHANGED <<draft, waits, raced>>,
         HistoryHoldsPage', NewestIsPage',
         revisions \subseteq revisions', doc' # None => doc # None,
         Underway(r)',
         \A e \in Editors : waits[e] = r => Awaited(e)'
  PROVE  IInv'
  <1>1. request'[r] = x /\ \A q \in Requests \ {r} : request'[q] = request[q]
    BY DEF IInv, TypeOK
  <1>2. \A q \in Requests : Underway(q)'
    BY <1>1 DEF IInv, Underway
  <1>3. ASSUME NEW e \in Editors, waits[e] # None, waits[e] # r
        PROVE  Awaited(e)'
    <2>1. waits[e] \in Requests /\ request'[waits[e]] = request[waits[e]]
      BY <1>1, <1>3 DEF IInv, TypeOK
    <2>2. draft[e] # None /\ Kept(draft[e]) => Kept(draft[e])'
      BY DEF Kept
    <2>3. doc = None => doc' = None
      OBVIOUS
    <2> QED BY <1>3, <2>1, <2>2, <2>3 DEF IInv, Awaited
  <1>4. \A e \in Editors : Awaited(e)'
    BY <1>3 DEF Awaited
  <1> QED BY <1>2, <1>4 DEF IInv

LEMMA ReadKeepsInvariant ==
  ASSUME IInv, NEW r \in Requests, Read(r)
  PROVE  IInv'
  <1> DEFINE x == IF doc = None THEN Answer("failed")
                  ELSE [request[r] EXCEPT !.at = "write", !.read = doc]
  <1>1. /\ request[r].at = "sent" /\ request[r] \in Request /\ request[r].text \in Draft
        /\ UNCHANGED <<doc, revisions, newest, overlapped, page, draft, waits, raced>>
    BY DEF Read, stored, tabs, IInv, TypeOK, Underway
  <1>2. request' = [request EXCEPT ![r] = x]
    BY DEF Read
  <1>3. /\ x \in Request
        /\ doc = None => x.at = "failed"
        /\ doc # None => x.at = "write" /\ x.read = doc /\ x.text = request[r].text
    <2>1. CASE doc = None
      BY <2>1, AnswerIsRequest
    <2>2. CASE doc # None
      BY <1>1, <2>2 DEF Request, IInv, TypeOK
    <2> QED BY <2>1, <2>2
  <1> HIDE DEF x
  <1>4. TypeOK' /\ request'[r] = x
    BY <1>1, <1>2, <1>3 DEF IInv, TypeOK
  <1>5. HistoryHoldsPage' /\ NewestIsPage'
    BY <1>1 DEF IInv, HistoryHoldsPage, NewestIsPage
  <1>6. Underway(r)'
    BY <1>1, <1>3, <1>4 DEF Underway, IInv, TypeOK, HistoryHoldsPage
  <1>7. ASSUME NEW e \in Editors, waits[e] = r
        PROVE  Awaited(e)'
    BY <1>1, <1>3, <1>4, <1>7, DocumentsAssumption DEF IInv, Awaited
  <1>8. x.at # "free"
    BY <1>3
  <1> QED BY <1>1, <1>2, <1>3, <1>4, <1>5, <1>6, <1>7, <1>8, RequestMovesOn

LEMMA WriteKeepsInvariant ==
  ASSUME IInv, NEW r \in Requests, Write(r)
  PROVE  IInv'
  <1> DEFINE text == request[r].text
             row == request[r].read
             next == Merged(text, row)
  <1>1. /\ request[r].at = "write" /\ text \in Draft /\ row \in Text
        /\ doc # None => row \in revisions
        /\ UNCHANGED <<page, draft, waits, raced>>
    BY DEF Write, tabs, IInv, Underway
  <1>2. /\ next \in Text /\ next.content = text.content
        /\ text.title \in {Empty, next.title}
    BY <1>1, MergedIsKept
  <1>3. CASE doc = None
    <2>1. /\ request' = [request EXCEPT ![r] = Answer("failed")]
          /\ UNCHANGED <<doc, revisions, newest, overlapped>>
      BY <1>3 DEF Write, stored
    <2>2. TypeOK' /\ request'[r] = Answer("failed")
      BY <1>1, <2>1, AnswerIsRequest DEF IInv, TypeOK
    <2>3. HistoryHoldsPage' /\ NewestIsPage' /\ Underway(r)'
      BY <1>3, <2>1, <2>2, AnswerIsRequest DEF HistoryHoldsPage, NewestIsPage, Underway
    <2>4. \A e \in Editors : waits[e] = r => Awaited(e)'
      BY <1>1, <2>2, AnswerIsRequest DEF Awaited
    <2> QED BY <1>1, <2>1, <2>2, <2>3, <2>4, AnswerIsRequest, RequestMovesOn
  <1>4. CASE doc # None
    <2>1. /\ request' = [request EXCEPT ![r] = Answer("ok")]
          /\ doc' = next
          /\ overlapped' = (overlapped \/ doc # row)
      BY <1>4 DEF Write
    <2>2. \/ /\ next # row /\ newest' = next
             /\ revisions' = revisions \cup {next}
          \/ next = row /\ newest' = newest /\ revisions' = revisions
      BY <1>4 DEF Write, Changes, Snapshot
    <2> HIDE DEF next
    <2>3. next \in revisions' /\ revisions \subseteq revisions'
      BY <1>1, <1>4, <2>2
    <2>4. overlapped' \in BOOLEAN
      BY <2>1 DEF IInv, TypeOK
    <2>5. TypeOK' /\ request'[r] = Answer("ok")
      BY <1>1, <1>2, <2>1, <2>2, <2>4, AnswerIsRequest DEF IInv, TypeOK
    <2>6. HistoryHoldsPage'
      BY <2>1, <2>3 DEF HistoryHoldsPage
    <2>7. NewestIsPage'
      <3>1. CASE doc = row
        BY <1>4, <2>1, <2>2, <3>1 DEF IInv, NewestIsPage
      <3>2. CASE doc # row
        BY <2>1, <3>2 DEF NewestIsPage
      <3> QED BY <3>1, <3>2
    <2>8. Underway(r)'
      BY <2>5, AnswerIsRequest DEF Underway
    <2>9. ASSUME NEW e \in Editors, waits[e] = r
          PROVE  Awaited(e)'
      <3>1. draft[e] # None /\ ~raced[e] => text = draft[e]
        BY <1>1, <2>9, DocumentsAssumption DEF IInv, Awaited
      <3>2. draft[e] # None /\ ~raced[e] => Kept(draft[e])'
        BY <1>2, <2>3, <3>1, <1>1 DEF Kept
      <3> QED BY <1>1, <2>5, <2>9, <3>2, AnswerIsRequest DEF Awaited
    <2> QED BY <1>1, <1>4, <2>1, <2>3, <2>5, <2>6, <2>7, <2>8, <2>9, AnswerIsRequest, RequestMovesOn
  <1> QED BY <1>3, <1>4

LEMMA DeleteKeepsInvariant ==
  ASSUME IInv, Delete
  PROVE  IInv'
  <1>1. /\ doc' = None /\ revisions' = {} /\ newest' = None
        /\ UNCHANGED <<overlapped, page, draft, waits, raced, request>>
    BY DEF Delete, tabs
  <1>2. TypeOK'
    BY <1>1 DEF IInv, TypeOK
  <1>3. HistoryHoldsPage' /\ NewestIsPage'
    BY <1>1 DEF HistoryHoldsPage, NewestIsPage
  <1>4. \A r \in Requests : Underway(r)'
    BY <1>1 DEF IInv, Underway
  <1>5. \A e \in Editors : Awaited(e)'
    BY <1>1 DEF IInv, Awaited
  <1> QED BY <1>2, <1>3, <1>4, <1>5 DEF IInv

\* The answers.
LEMMA SettledOrNot ==
  ASSUME IInv, NEW r \in Requests, Settle(r)
  PROVE  /\ waits' \in [Editors -> Requests \cup {None}]
         /\ \A e \in Editors : \/ waits'[e] = None
                               \/ waits'[e] = waits[e] /\ waits[e] # r
  BY DEF Settle, IInv, TypeOK

LEMMA AnswersKeepInvariant ==
  ASSUME IInv, NEW r \in Requests, AnswerOk(r) \/ AnswerFailed(r) \/ Lose(r)
  PROVE  IInv'
  <1>1. Settle(r) /\ UNCHANGED <<doc, revisions, newest, overlapped, page>>
    BY DEF AnswerOk, AnswerFailed, Lose, stored
  <1>2. /\ request' \in [Requests -> Request]
        /\ \A q \in Requests \ {r} : request'[q] = request[q]
        /\ request'[r] = Free \/ request'[r] = request[r]
    BY AnswerIsRequest DEF AnswerOk, AnswerFailed, Lose, IInv, TypeOK
  <1>3. /\ draft' \in [Editors -> Draft \cup {None}] /\ raced' \in [Editors -> BOOLEAN]
        /\ \A e \in Editors : waits[e] # r => draft'[e] = draft[e] /\ raced'[e] = raced[e]
    BY DEF AnswerOk, AnswerFailed, Lose, IInv, TypeOK
  <1>4. TypeOK'
    BY <1>1, <1>2, <1>3, SettledOrNot DEF IInv, TypeOK
  <1>5. HistoryHoldsPage' /\ NewestIsPage'
    BY <1>1 DEF IInv, HistoryHoldsPage, NewestIsPage
  <1>6. \A q \in Requests : Underway(q)'
    BY <1>1, <1>2, AnswerIsRequest DEF IInv, Underway
  <1>7. ASSUME NEW e \in Editors, waits'[e] # None
        PROVE  Awaited(e)'
    <2>1. waits'[e] = waits[e] /\ waits[e] # r /\ waits[e] \in Requests
      BY <1>1, <1>7, SettledOrNot DEF IInv, TypeOK
    <2>2. /\ request'[waits[e]] = request[waits[e]]
          /\ draft'[e] = draft[e] /\ raced'[e] = raced[e]
      BY <1>2, <1>3, <2>1
    <2>3. Kept(draft[e])' <=> Kept(draft[e])
      BY <1>1, <2>2 DEF Kept
    <2>4. Awaited(e)
      BY DEF IInv
    <2> QED BY <1>1, <2>1, <2>2, <2>3, <2>4 DEF Awaited
  <1>8. \A e \in Editors : Awaited(e)'
    BY <1>7 DEF Awaited
  <1> QED BY <1>4, <1>5, <1>6, <1>8 DEF IInv

LEMMA StutteringKeepsInvariant ==
  ASSUME IInv, UNCHANGED vars
  PROVE  IInv'
  <1>1. UNCHANGED <<doc, revisions, newest, page, draft, waits, raced, request, overlapped>>
    BY DEF vars
  <1>2. TypeOK' /\ HistoryHoldsPage' /\ NewestIsPage'
    BY <1>1 DEF IInv, TypeOK, HistoryHoldsPage, NewestIsPage
  <1>3. \A r \in Requests : Underway(r)'
    BY <1>1 DEF IInv, Underway
  <1>4. \A e \in Editors : Awaited(e)'
    BY <1>1 DEF IInv, Awaited, Kept
  <1> QED BY <1>2, <1>3, <1>4 DEF IInv

-----------------------------------------------------------------------------
(* The invariant.                                                          *)

LEMMA InvariantHoldsInitially == Init => IInv
  <1> SUFFICES ASSUME Init PROVE IInv
    OBVIOUS
  <1>1. TypeOK
    <2>1. request \in [Requests -> Request]
      BY AnswerIsRequest DEF Init
    <2>2. doc \in Text /\ revisions \subseteq Text /\ newest \in Text
      BY DocumentsAssumption DEF Init
    <2>3. page \in [Editors -> Text]
      BY DocumentsAssumption DEF Init
    <2>4. draft \in [Editors -> Draft \cup {None}]
      BY DEF Init
    <2>5. waits \in [Editors -> Requests \cup {None}]
      BY DEF Init
    <2>6. raced \in [Editors -> BOOLEAN] /\ overlapped \in BOOLEAN
      BY DEF Init
    <2> QED BY <2>1, <2>2, <2>3, <2>4, <2>5, <2>6 DEF TypeOK
  <1>2. HistoryHoldsPage /\ NewestIsPage
    BY DEF Init, HistoryHoldsPage, NewestIsPage
  <1>3. \A r \in Requests : Underway(r)
    BY AnswerIsRequest DEF Init, Underway
  <1>4. \A e \in Editors : Awaited(e)
    BY DEF Init, Awaited
  <1> QED BY <1>1, <1>2, <1>3, <1>4 DEF IInv

LEMMA InvariantIsPreserved == IInv /\ [Next]_vars => IInv'
  <1> SUFFICES ASSUME IInv, [Next]_vars PROVE IInv'
    OBVIOUS
  <1>1. CASE \E e \in Editors : Editing(e)
    BY <1>1, TypeKeepsInvariant, LeaveKeepsInvariant, RefetchKeepsInvariant,
       SaveKeepsInvariant DEF Editing
  <1>2. CASE \E r \in Requests : Handling(r)
    BY <1>2, ReadKeepsInvariant, WriteKeepsInvariant, AnswersKeepInvariant DEF Handling
  <1>3. CASE Delete
    BY <1>3, DeleteKeepsInvariant
  <1>4. CASE UNCHANGED vars
    BY <1>4, StutteringKeepsInvariant
  <1> QED BY <1>1, <1>2, <1>3, <1>4 DEF Next

LEMMA InvariantHolds == Spec => []IInv
  BY InvariantHoldsInitially, InvariantIsPreserved, PTL DEF Spec

-----------------------------------------------------------------------------
(* The theorems.                                                           *)

\* Every state of Documents is well typed: no stored page or revision ever has
\* an empty title.
THEOREM TypeCorrect == Spec => []TypeOK
  <1>1. IInv => TypeOK
    BY DEF IInv
  <1> QED BY <1>1, InvariantHolds, PTL

\* However many saves of a page run at once, its text is in its history.
THEOREM PageIsInHistory == Spec => []HistoryHoldsPage
  <1>1. IInv => HistoryHoldsPage
    BY DEF IInv
  <1> QED BY <1>1, InvariantHolds, PTL

\* As long as no save wrote over a text it had not read, every save that
\* changed the text left its revision.
THEOREM EveryChangeHasItsRevision == Spec => []NewestIsPage
  <1>1. IInv => NewestIsPage
    BY DEF IInv
  <1> QED BY <1>1, InvariantHolds, PTL

\* No fetch and no answer discards typing that is not in the history, unless it
\* was typed while a save was in flight.
THEOREM TypingSurvives == Spec => TypingIsKept
  <1>1. ASSUME IInv, Next, page' # page \/ request' # request,
               NEW e \in Editors, draft[e] # None, draft'[e] = None
        PROVE  Kept(draft[e]) \/ raced[e] \/ doc = None
    <2>1. PICK r \in Requests : AnswerOk(r) /\ waits[e] = r
      <3>1. CASE \E f \in Editors : Editing(f)
        BY <1>1, <3>1 DEF Editing, Type, Leave, Refetch, Save
      <3>2. CASE \E r \in Requests : Handling(r)
        BY <1>1, <3>2 DEF Handling, Read, Write, AnswerOk, AnswerFailed, Lose, tabs
      <3>3. CASE Delete
        BY <1>1, <3>3 DEF Delete, tabs
      <3> QED BY <1>1, <3>1, <3>2, <3>3 DEF Next
    <2>2. waits[e] # None /\ request[waits[e]].at = "ok"
      BY <2>1, DocumentsAssumption DEF AnswerOk
    <2> QED BY <1>1, <2>2 DEF IInv, Awaited
  <1>2. IInv /\ [Next]_vars =>
          [page' # page \/ request' # request =>
             \A e \in Editors :
               draft[e] # None /\ draft'[e] = None
               => Kept(draft[e]) \/ raced[e] \/ doc = None]_vars
    BY <1>1
  <1> QED BY <1>2, InvariantHolds, PTL DEF Spec, TypingIsKept
-----------------------------------------------------------------------------
(* Conversations: a page is wrong only while somebody has still to tell it.  *)

Threads == {"name", "tell", "add"}

Call == [at : {"idle"}]
        \cup [at : {"create"}, type : {"team", "project", "dm"}, members : SUBSET Talkers]
        \cup [at : Threads, by : Talkers, note : Notes, to : SUBSET Talkers,
              about : SUBSET (Lists \cup {Nothing})]

ConversationsTypeOK ==
  /\ rooms \in [Rooms -> Room \cup {Nothing}] /\ together \subseteq SUBSET Talkers
  /\ notes \in [Notes -> Note \cup {Nothing}]
  /\ reactions \subseteq Notes \X Talkers /\ told \subseteq Notes \X Talkers
  /\ calls \in [Calls -> Call]
  /\ looking \in [Views -> Lists] /\ state \in [Views -> Freshness]
  /\ shown \subseteq Views /\ held \subseteq Views /\ DOMAIN read = Views

\* The groups for which k is about to open a direct message.
OpensFor(k, g) == calls[k].at = "create" /\ calls[k].type = "dm" /\ calls[k].members = g

\* Who is about to open a direct message that is there, or that another is
\* about to open, is opening it at the same time as another.
NobodyElse ==
  \A k \in Calls : \A g \in SUBSET Talkers :
    OpensFor(k, g) /\ (FindDM(g) # {} \/ \E x \in Calls \ {k} : OpensFor(x, g)) => g \in together

\* A note is in a channel that is there, and a reply where what it answers is,
\* which answers nothing itself.
NotesHangTogether ==
  \A n \in Posted :
    /\ notes[n].room \in Opened
    /\ notes[n].parent # Nothing =>
         /\ notes[n].parent \in Posted /\ notes[notes[n].parent].parent = Nothing
         /\ notes[notes[n].parent].room = notes[n].room

\* A call that has written knows the members of the channel it wrote to.
CallsKnow ==
  \A k \in Calls : calls[k].at \in Threads =>
    /\ calls[k].note \in Posted /\ calls[k].to = rooms[notes[calls[k].note].room].members
    /\ calls[k].at = "name" => calls[k].by = notes[calls[k].note].author
    /\ calls[k].at = "add" => calls[k].about = Lists

\* What was told names somebody of the channel, of a note that is there.
ToldInside ==
  \A x \in told : /\ x[1] \in Posted /\ x[2] # notes[x[1]].author
                  /\ x[2] \in rooms[notes[x[1]].room].members

\* A view shows what its viewer may read.
InView(v) ==
  \/ looking[v] = Everything
  \/ looking[v] \in MemberOf(Viewer[v])
  \/ /\ looking[v] \in Posted /\ notes[looking[v]].parent = Nothing
     /\ notes[looking[v]].room \in MemberOf(Viewer[v])

\* Somebody is still to tell v to read again.
StillComing(v) ==
  \E k \in Calls : calls[k].at \in {"name", "tell"} /\ looking[v] \in calls[k].about
                   /\ Viewer[v] \in calls[k].to

Agrees(v) ==
  IF looking[v] = Everything
  THEN {notes[n].room : n \in Posted} \cap MemberOf(Viewer[v]) \subseteq read[v]
  ELSE \E without \in SUBSET Decorations :
         read[v] = Plain(Content(looking[v], Viewer[v]), without)

\* What a view holds, or is to hold, is out of date only as long as somebody is
\* to tell it.
ViewIsServed(v) ==
  InView(v) /\ (state[v] \in {"loading", "fresh"} => StillComing(v) \/ Agrees(v))

\* The inductive invariant.
ConversationsInv ==
  /\ ConversationsTypeOK
  /\ OneConversation /\ NobodyElse
  /\ NotesHangTogether /\ CallsKnow /\ ToldInside
  /\ \A v \in Views : ViewIsServed(v)

\* A row is not the marker of its absence.
LEMMA RowsOfConversations ==
  ASSUME ConversationsTypeOK
  PROVE  /\ \A n \in Posted : n \in Notes /\ notes[n] \in Note
         /\ \A r \in Opened : r \in Rooms /\ rooms[r] \in Room
         /\ \A x \in Room \cup Note : x # Nothing
  BY ConversationsAssumption DEF ConversationsTypeOK, Posted, Opened

LEMMA UnusedIsFree ==
  ASSUME NEW table, \E x \in DOMAIN table : table[x] = Nothing
  PROVE  Unused(table) \in DOMAIN table /\ table[Unused(table)] = Nothing
  BY DEF Unused

\* The fields of what a call holds, by where it is.
LEMMA CallFields ==
  ASSUME NEW c \in Call
  PROVE  /\ c.at = "create" => c.type \in {"team", "project", "dm"} /\ c.members \in SUBSET Talkers
         /\ c.at \in Threads => c \in [at : Threads, by : Talkers, note : Notes, to : SUBSET Talkers,
                                      about : SUBSET (Lists \cup {Nothing})]
  BY DEF Call, Threads

LEMMA WentIsCall ==
  ASSUME ConversationsTypeOK, NEW at \in Threads, NEW u \in Talkers, NEW n \in Notes,
         NEW r \in Opened, NEW about \in SUBSET (Lists \cup {Nothing})
  PROVE  /\ Went(at, u, r, n, about) \in Call
         /\ Went(at, u, r, n, about).at = at /\ Went(at, u, r, n, about).by = u
         /\ Went(at, u, r, n, about).note = n /\ Went(at, u, r, n, about).about = about
         /\ Went(at, u, r, n, about).to = rooms[r].members
  BY RowsOfConversations DEF Went, Call, Room

-----------------------------------------------------------------------------
(* What a view shows. *)

\* n has a line where w is shown.
Within(n, w) == IF w \in Rooms THEN notes[n].room = w /\ notes[n].parent = Nothing
                ELSE notes[n].parent = w

\* Only the notes in view, and the replies to them and reactions, matter.
LEMMA ContentStays ==
  ASSUME NEW w \in Rooms \cup Notes, NEW u,
         \A n \in Notes : n \in Posted' /\ Within(n, w)' <=> n \in Posted /\ Within(n, w),
         \A n \in Posted : Within(n, w) =>
            /\ notes'[n].edits = notes[n].edits
            /\ \A y \in Notes : y \in Posted' /\ notes'[y].parent = n <=> y \in Posted /\ notes[y].parent = n
            /\ \A x \in Talkers : <<n, x>> \in reactions' <=> <<n, x>> \in reactions
  PROVE  Content(w, u)' = Content(w, u)
<1> DEFINE seen == {n \in Posted : Within(n, w)}
<1>1. seen' = seen
  BY DEF Posted
<1>2. \A n \in seen : Line(n)' = Line(n)
  <2> SUFFICES ASSUME NEW n \in seen PROVE Line(n)' = Line(n)
    OBVIOUS
  <2>1. {x \in Posted : notes[x].parent = n}' = {x \in Posted : notes[x].parent = n}
    BY DEF Posted
  <2>2. {x \in Talkers : <<n, x>> \in reactions}' = {x \in Talkers : <<n, x>> \in reactions}
    OBVIOUS
  <2>3. notes'[n].edits = notes[n].edits
    OBVIOUS
  <2> QED
    BY <2>1, <2>2, <2>3 DEF Line
<1>3. w # Everything
  BY ConversationsAssumption
<1>4. Content(w, u) = {Line(n) : n \in seen}
  BY <1>3 DEF Content, RootMessages, Thread, Within
<1>5. Content(w, u)' = {Line(n)' : n \in seen'}
  BY <1>3 DEF Content, RootMessages, Thread, Within
<1> QED
  BY <1>1, <1>2, <1>4, <1>5

\* A step that adds rooms, and writes to no note but c, leaves v served if v
\* is told of c whenever c is to be seen.
LEMMA ViewStays ==
  ASSUME ConversationsInv, ConversationsTypeOK', NotesHangTogether', NEW v \in Views, ViewIsServed(v),
         looking'[v] = looking[v], read'[v] = read[v],
         state'[v] \in {"loading", "fresh"} => state[v] \in {"loading", "fresh"},
         \A r \in Opened : r \in Opened' /\ rooms'[r] = rooms[r],
         \A n \in Posted : n \in Posted' /\ notes'[n].room = notes[n].room /\ notes'[n].parent = notes[n].parent,
         NEW c \in Notes \cup {Nothing},
         \A n \in Notes \ {c} : notes'[n] = notes[n] /\ \A x \in Talkers : <<n, x>> \in reactions' <=> <<n, x>> \in reactions,
         c # Nothing => c \in Posted' /\ notes'[c].room \in Opened,
         StillComing(v) => StillComing(v)',
         c # Nothing => \/ StillComing(v)'
                        \/ Viewer[v] \notin rooms'[notes'[c].room].members
                        \/ looking[v] \notin {Everything, notes'[c].room, notes'[c].parent}
  PROVE  ViewIsServed(v)'
<1> DEFINE me == Viewer[v]
<1> PICK w \in Lists : w = looking[v] /\ w = looking'[v]
  BY DEF ConversationsInv, ConversationsTypeOK
<1>0. ConversationsTypeOK /\ NotesHangTogether /\ InView(v) /\ Nothing \notin Notes
  BY ConversationsAssumption DEF ConversationsInv, ViewIsServed
<1>1. InView(v)'
  BY <1>0 DEF InView, MemberOf
<1>2. SUFFICES ASSUME state'[v] \in {"loading", "fresh"}, ~StillComing(v)' PROVE Agrees(v)'
  BY <1>1 DEF ViewIsServed
<1>3. Agrees(v)
  BY <1>2 DEF ViewIsServed
<1>4. c # Nothing => me \notin rooms'[notes'[c].room].members \/ w \notin {Everything, notes'[c].room, notes'[c].parent}
  BY <1>2
<1>5. ASSUME w = Everything PROVE Agrees(v)'
  <2>1. \A n \in Posted' : notes'[n].room \in MemberOf(me)' =>
                           n \in Posted /\ notes[n].room = notes'[n].room /\ notes[n].room \in MemberOf(me)
    <3> SUFFICES ASSUME NEW n \in Posted', notes'[n].room \in MemberOf(me)'
                 PROVE  n \in Posted /\ notes[n].room = notes'[n].room /\ notes[n].room \in MemberOf(me)
      OBVIOUS
    <3>1. n \in Notes /\ n # c
      BY <1>0, <1>4, <1>5 DEF MemberOf, Posted
    <3>2. n \in Posted /\ notes[n].room = notes'[n].room
      BY <3>1 DEF Posted
    <3>3. notes[n].room \in Opened
      BY <1>0, <3>2 DEF NotesHangTogether
    <3> QED
      BY <3>2, <3>3 DEF MemberOf
  <2> QED
    BY <1>3, <1>5, <2>1 DEF Agrees
<1>6. ASSUME w # Everything PROVE Agrees(v)'
  <2>1. w \in Rooms \cup Notes
    BY <1>0, <1>6 DEF ConversationsTypeOK, Lists
  <2>2. w \in Rooms => w \in Opened /\ me \in rooms[w].members
    BY <1>0, <1>6, ConversationsAssumption DEF InView, MemberOf, Posted, Opened
  <2>3. w \in Notes => /\ w \in Posted /\ notes[w].parent = Nothing
                       /\ notes[w].room \in Opened /\ me \in rooms[notes[w].room].members
    BY <1>0, <1>6, ConversationsAssumption DEF InView, MemberOf, Posted, Opened
  <2>4. ASSUME c # Nothing PROVE ~Within(c, w)' /\ (c \in Posted => ~Within(c, w))
    <3>1. ~Within(c, w)'
      <4>1. ASSUME w \in Rooms, notes'[c].room = w PROVE FALSE
        BY <1>4, <2>2, <2>4, <4>1
      <4>2. ASSUME w \notin Rooms, notes'[c].parent = w PROVE FALSE
        <5>1. w \in Posted /\ notes[w].room \in Opened /\ me \in rooms[notes[w].room].members
          BY <2>1, <2>3, <4>2
        <5>2. notes'[notes'[c].parent].room = notes'[c].room
          BY <2>1, <2>4, <4>2, <1>0 DEF NotesHangTogether
        <5>3. me \in rooms'[notes'[c].room].members
          BY <4>2, <5>1, <5>2
        <5> QED
          BY <1>4, <2>4, <4>2, <5>3
      <4> QED
        BY <4>1, <4>2 DEF Within
    <3> QED
      BY <3>1 DEF Within
  <2>5. \A n \in Notes : n \in Posted' /\ Within(n, w)' <=> n \in Posted /\ Within(n, w)
    <3> SUFFICES ASSUME NEW n \in Notes
                 PROVE  n \in Posted' /\ Within(n, w)' <=> n \in Posted /\ Within(n, w)
      OBVIOUS
    <3>1. CASE n = c
      BY <1>0, <2>4, <3>1
    <3>2. CASE n # c
      BY <3>2 DEF Posted, Within
    <3> QED
      BY <3>1, <3>2
  <2>6. ASSUME NEW n \in Posted, Within(n, w)
        PROVE  /\ n # c /\ notes'[n] = notes[n]
               /\ \A y \in Notes : y \in Posted' /\ notes'[y].parent = n <=> y \in Posted /\ notes[y].parent = n
               /\ \A x \in Talkers : <<n, x>> \in reactions' <=> <<n, x>> \in reactions
    <3>1. n \in Notes /\ n # c
      BY <1>0, <2>4, <2>6 DEF Posted
    <3>2. notes'[n] = notes[n] /\ n \in Posted'
      BY <3>1, <2>6
    <3>3. ASSUME NEW y \in Notes
          PROVE  y \in Posted' /\ notes'[y].parent = n <=> y \in Posted /\ notes[y].parent = n
      <4>1. CASE y # c
        BY <4>1 DEF Posted
      <4>2. CASE y = c
        <5>1. ASSUME y \in Posted', notes'[y].parent = n PROVE FALSE
          <6>1. /\ notes'[n].parent = Nothing /\ notes'[n].room = notes'[c].room
            BY <1>0, <3>1, <4>2, <5>1 DEF NotesHangTogether
          <6>2. w \in Rooms /\ notes'[c].room = w
            BY <1>0, <2>1, <2>6, <3>2, <6>1 DEF Within
          <6> QED
            BY <1>0, <1>4, <2>2, <4>2, <6>2
        <5>2. ASSUME y \in Posted, notes[y].parent = n PROVE FALSE
          BY <5>1, <5>2
        <5> QED
          BY <5>1, <5>2
      <4> QED
        BY <4>1, <4>2
    <3>4. \A x \in Talkers : <<n, x>> \in reactions' <=> <<n, x>> \in reactions
      BY <3>1
    <3> QED
      BY <3>1, <3>2, <3>3, <3>4
  <2>7. Content(w, me)' = Content(w, me)
    <3> HIDE DEF me
    <3> QED
      BY <2>1, <2>5, <2>6, ContentStays
  <2> QED
    BY <1>3, <1>6, <2>7 DEF Agrees
<1> QED
  BY <1>5, <1>6

\* What k was going to tell, c is still to tell.
GoesOnTelling(k, c) ==
  calls[k].at \in {"name", "tell"} =>
    c.at \in {"name", "tell"} /\ c.about = calls[k].about /\ c.to = calls[k].to

LEMMA ComingStays ==
  ASSUME ConversationsTypeOK, NEW k \in Calls, NEW c, calls' = [calls EXCEPT ![k] = c],
         NEW v \in Views, looking'[v] = looking[v], StillComing(v), GoesOnTelling(k, c)
  PROVE  StillComing(v)'
<1>1. PICK x \in Calls : calls[x].at \in {"name", "tell"} /\ looking[v] \in calls[x].about /\ Viewer[v] \in calls[x].to
  BY DEF StillComing
<1>2. calls'[x].at \in {"name", "tell"} /\ looking'[v] \in calls'[x].about /\ Viewer[v] \in calls'[x].to
  BY <1>1 DEF ConversationsTypeOK, GoesOnTelling
<1> QED
  BY <1>2 DEF StillComing

-----------------------------------------------------------------------------
(* A step of call k that leaves the channels alone. *)

NotesGrow ==
  \A n \in Posted : /\ n \in Posted' /\ notes'[n].room = notes[n].room
                    /\ notes'[n].parent = notes[n].parent /\ notes'[n].author = notes[n].author

\* The step writes, or reacts, to no note but m.
WritesTo(m) ==
  \A n \in Notes \ {m} :
    notes'[n] = notes[n] /\ \A x \in Talkers : <<n, x>> \in reactions' <=> <<n, x>> \in reactions

\* It leaves m in a channel, and in a thread of it if in any.
Belongs(m) ==
  /\ m \in Posted' /\ notes'[m].room \in Opened
  /\ notes'[m].parent # Nothing =>
       /\ notes'[m].parent \in Posted /\ notes[notes'[m].parent].parent = Nothing
       /\ notes[notes'[m].parent].room = notes'[m].room

\* c is going to tell of it wherever it is to be seen.
Announces(c, m) ==
  /\ c.at \in {"name", "tell"} /\ c.note = m
  /\ Everything \in c.about /\ notes'[m].room \in c.about
  /\ notes'[m].parent # Nothing => notes'[m].parent \in c.about

Knows(c) ==
  c.at \in Threads =>
    /\ c.note \in Posted' /\ c.to = rooms[notes'[c.note].room].members
    /\ c.at = "name" => c.by = notes'[c.note].author
    /\ c.at = "add" => c.about = Lists

NewsInside ==
  \A x \in told' \ told : /\ x[1] \in Posted' /\ x[2] # notes'[x[1]].author
                          /\ x[2] \in rooms[notes'[x[1]].room].members

LEMMA CallGoesOn ==
  ASSUME ConversationsInv, UNCHANGED <<roomVars, viewVars>>,
         NEW k \in Calls, NEW c \in Call, c.at # "create", calls' = [calls EXCEPT ![k] = c],
         notes' \in [Notes -> Note \cup {Nothing}],
         reactions' \subseteq Notes \X Talkers, told' \subseteq Notes \X Talkers, NotesGrow,
         NEW m \in Notes \cup {Nothing}, WritesTo(m), m # Nothing => Belongs(m) /\ Announces(c, m),
         Knows(c), GoesOnTelling(k, c), NewsInside
  PROVE  ConversationsInv'
<1> USE DEF roomVars, viewVars, NotesGrow, WritesTo, Belongs, Announces, Knows, GoesOnTelling, NewsInside
<1>0. /\ ConversationsTypeOK /\ OneConversation /\ NobodyElse /\ NotesHangTogether /\ CallsKnow /\ ToldInside
      /\ Nothing \notin Notes /\ Opened' = Opened
  BY ConversationsAssumption DEF ConversationsInv, Opened
<1>1. ConversationsTypeOK'
  BY <1>0 DEF ConversationsTypeOK
<1>2. \A x \in Calls : calls'[x] = IF x = k THEN c ELSE calls[x]
  BY <1>0 DEF ConversationsTypeOK
<1>3. OneConversation'
  BY <1>0 DEF OneConversation
<1>4. NobodyElse'
  <2>1. \A x \in Calls : \A g \in SUBSET Talkers : OpensFor(x, g)' => x # k /\ OpensFor(x, g)
    BY <1>2 DEF OpensFor
  <2>2. \A g \in SUBSET Talkers : FindDM(g)' = FindDM(g)
    BY <1>0 DEF FindDM
  <2> QED
    BY <1>0, <2>1, <2>2 DEF NobodyElse
<1>5. NotesHangTogether'
  <2> SUFFICES ASSUME NEW n \in Posted'
               PROVE  /\ notes'[n].room \in Opened
                      /\ notes'[n].parent # Nothing =>
                           /\ notes'[n].parent \in Posted' /\ notes'[notes'[n].parent].parent = Nothing
                           /\ notes'[notes'[n].parent].room = notes'[n].room
    BY <1>0 DEF NotesHangTogether
  <2>1. n \in Notes
    BY DEF Posted
  <2>2. CASE n = m
    BY <1>0, <2>1, <2>2
  <2>3. CASE n # m
    <3>1. n \in Posted /\ notes'[n] = notes[n]
      BY <2>1, <2>3 DEF Posted
    <3> QED
      BY <1>0, <3>1 DEF NotesHangTogether
  <2> QED
    BY <2>2, <2>3
<1>6. CallsKnow'
  <2> SUFFICES ASSUME NEW x \in Calls, calls'[x].at \in Threads
               PROVE  /\ calls'[x].note \in Posted' /\ calls'[x].to = rooms'[notes'[calls'[x].note].room].members
                      /\ calls'[x].at = "name" => calls'[x].by = notes'[calls'[x].note].author
                      /\ calls'[x].at = "add" => calls'[x].about = Lists
    BY DEF CallsKnow, Lists
  <2>1. CASE x = k
    BY <1>2, <2>1
  <2>2. CASE x # k
    <3>1. calls'[x] = calls[x] /\ calls[x].note \in Posted
      BY <1>0, <1>2, <2>2 DEF CallsKnow
    <3> QED
      BY <1>0, <3>1 DEF CallsKnow
  <2> QED
    BY <2>1, <2>2
<1>7. ToldInside'
  <2> SUFFICES ASSUME NEW x \in told'
               PROVE  /\ x[1] \in Posted' /\ x[2] # notes'[x[1]].author
                      /\ x[2] \in rooms'[notes'[x[1]].room].members
    BY DEF ToldInside
  <2>1. CASE x \in told
    BY <1>0, <2>1 DEF ToldInside
  <2> QED
    BY <2>1
<1>8. ASSUME NEW v \in Views PROVE ViewIsServed(v)'
  <2>1. ViewIsServed(v) /\ looking'[v] = looking[v] /\ read'[v] = read[v] /\ state'[v] = state[v]
    BY DEF ConversationsInv
  <2>2. StillComing(v) => StillComing(v)'
    <3> SUFFICES ASSUME StillComing(v) PROVE StillComing(v)'
      OBVIOUS
    <3>1. looking'[v] = looking[v]
      BY <2>1
    <3> HIDE DEF roomVars, viewVars, NotesGrow, WritesTo, Belongs, Announces, Knows, GoesOnTelling, NewsInside
    <3> QED
      BY <1>0, <3>1, ComingStays
  <2>3. m # Nothing => \/ StillComing(v)'
                       \/ Viewer[v] \notin rooms'[notes'[m].room].members
                       \/ looking[v] \notin {Everything, notes'[m].room, notes'[m].parent}
    <3> SUFFICES ASSUME m # Nothing, Viewer[v] \in rooms'[notes'[m].room].members,
                        looking[v] \in {Everything, notes'[m].room, notes'[m].parent}
                 PROVE  StillComing(v)'
      OBVIOUS
    <3>0. looking[v] \in c.about
      BY <1>0, ConversationsAssumption DEF ConversationsTypeOK, Lists
    <3>1. c.to = rooms[notes'[m].room].members /\ c.at \in {"name", "tell"}
      BY DEF Threads
    <3>2. calls'[k].at \in {"name", "tell"} /\ looking'[v] \in calls'[k].about /\ Viewer[v] \in calls'[k].to
      BY <1>2, <2>1, <3>0, <3>1
    <3> QED
      BY <3>2 DEF StillComing
  <2>4. \A r \in Opened : r \in Opened' /\ rooms'[r] = rooms[r]
    BY <1>0
  <2> QED
    BY <1>1, <1>5, <2>1, <2>2, <2>3, <2>4, ViewStays
<1> QED
  BY <1>1, <1>3, <1>4, <1>5, <1>6, <1>7, <1>8 DEF ConversationsInv

-----------------------------------------------------------------------------
(* The handlers. *)

\* What a call may become without writing.
LEMMA CallKinds ==
  /\ NoCall \in Call /\ NoCall.at = "idle"
  /\ \A c \in Call : c.at \in Threads => [c EXCEPT !.at = "tell"] \in Call
                       /\ [c EXCEPT !.at = "tell"].at = "tell" /\ [c EXCEPT !.at = "tell"].note = c.note
                       /\ [c EXCEPT !.at = "tell"].to = c.to /\ [c EXCEPT !.at = "tell"].about = c.about
  BY DEF NoCall, Call, Threads

LEMMA ListsTouched ==
  /\ \A r \in Rooms, n \in Notes \cup {Nothing} : Touched(r, n) \in SUBSET (Lists \cup {Nothing})
  /\ Lists \in SUBSET (Lists \cup {Nothing})
  BY DEF Touched, Lists

LEMMA InsertStays ==
  ASSUME ConversationsInv, NEW k \in Calls, NEW u \in Writers, NEW r \in Rooms, NEW p \in Notes \cup {Nothing},
         p # Nothing => p \in Posted /\ notes[p].parent = Nothing /\ notes[p].room = r,
         NEW at \in {"tell", "name"}, Insert(k, u, r, p, at)
  PROVE  ConversationsInv'
<1> USE ConversationsAssumption
<1>0. /\ ConversationsTypeOK /\ ToldInside /\ r \in Opened /\ u \in Talkers /\ calls[k] = NoCall
      /\ UNCHANGED <<roomVars, reactions, told, viewVars>>
  BY DEF ConversationsInv, Insert, MemberOf
<1>1. PICK n \in Notes : n = Unused(notes) /\ notes[n] = Nothing
  <2>1. \E x \in DOMAIN notes : notes[x] = Nothing
    BY <1>0 DEF Insert, Posted, ConversationsTypeOK
  <2> QED
    BY <1>0, <2>1, UnusedIsFree DEF ConversationsTypeOK
<1>2. PICK new \in Note : new = [room |-> r, author |-> u, parent |-> p, edits |-> 0]
  BY <1>0 DEF Note
<1>3. new.room = r /\ new.author = u /\ new.parent = p /\ new # Nothing
  BY <1>0, <1>2, RowsOfConversations
<1>4. notes' = [notes EXCEPT ![n] = new]
  BY <1>1, <1>2 DEF Insert
<1>5. /\ notes' \in [Notes -> Note \cup {Nothing}] /\ notes'[n] = new
      /\ \A x \in Notes \ {n} : notes'[x] = notes[x]
  BY <1>0, <1>4 DEF ConversationsTypeOK
<1>6. n \in Posted' /\ n \notin Posted /\ \A x \in Posted : x \in Notes \ {n} /\ x \in Posted'
  BY <1>1, <1>3, <1>5 DEF Posted
<1>7. PICK c \in Call : /\ c = Went(at, u, r, n, Touched(r, p)) /\ c.at = at /\ c.by = u /\ c.note = n
                        /\ c.to = rooms[r].members /\ c.about = Touched(r, p)
  BY <1>0, ListsTouched, WentIsCall DEF Threads
<1>8. calls' = [calls EXCEPT ![k] = c]
  BY <1>1, <1>7 DEF Insert, Turns
<1>9. NotesGrow /\ WritesTo(n) /\ NewsInside
  BY <1>0, <1>5, <1>6 DEF NotesGrow, WritesTo, NewsInside
<1>10. Belongs(n) /\ Announces(c, n)
  BY <1>0, <1>3, <1>5, <1>6, <1>7 DEF Belongs, Announces, Touched
<1>11. Knows(c) /\ GoesOnTelling(k, c)
  BY <1>0, <1>3, <1>5, <1>6, <1>7 DEF Knows, GoesOnTelling, NoCall
<1>12. reactions' \subseteq Notes \X Talkers /\ told' \subseteq Notes \X Talkers /\ c.at # "create"
  BY <1>0, <1>7 DEF ConversationsTypeOK
<1> QED
  BY <1>0, <1>5, <1>8, <1>9, <1>10, <1>11, <1>12, CallGoesOn

LEMMA NotifyMentionsStays ==
  ASSUME ConversationsInv, NEW k \in Calls, NotifyMentions(k)
  PROVE  ConversationsInv'
<1> USE ConversationsAssumption
<1>0. /\ ConversationsTypeOK /\ CallsKnow /\ ToldInside /\ calls[k].at = "name" /\ calls[k] \in Call
      /\ UNCHANGED <<roomVars, notes, reactions, viewVars>>
  BY DEF ConversationsInv, NotifyMentions, ConversationsTypeOK
<1>1. /\ calls[k].note \in Posted /\ calls[k].note \in Notes /\ calls[k].by = notes[calls[k].note].author
      /\ calls[k].to = rooms[notes[calls[k].note].room].members
  BY <1>0 DEF CallsKnow, Threads, Posted
<1>2. PICK c \in Call : /\ c = [calls[k] EXCEPT !.at = "tell"] /\ c.at = "tell" /\ c.note = calls[k].note
                        /\ c.to = calls[k].to /\ c.about = calls[k].about
  BY <1>0, CallKinds DEF Threads
<1>3. calls' = [calls EXCEPT ![k] = c]
  BY <1>2 DEF NotifyMentions, Turns
<1>4. \A x \in told' \ told : x[1] = calls[k].note /\ x[2] \in Talkers /\ x[2] \in calls[k].to /\ x[2] # calls[k].by
  BY DEF NotifyMentions
<1>5. told' \subseteq told \cup ({calls[k].note} \X Talkers)
  BY DEF NotifyMentions
<1>6. told' \subseteq Notes \X Talkers
  BY <1>0, <1>1, <1>5 DEF ConversationsTypeOK
<1>7. Posted' = Posted
  BY <1>0 DEF Posted
<1>8. NotesGrow /\ WritesTo(Nothing)
  BY <1>0, <1>7 DEF NotesGrow, WritesTo
<1>9. NewsInside
  BY <1>0, <1>1, <1>4, <1>7 DEF NewsInside
<1>10. Knows(c) /\ GoesOnTelling(k, c)
  BY <1>0, <1>1, <1>2, <1>7 DEF Knows, GoesOnTelling
<1>11. /\ notes' \in [Notes -> Note \cup {Nothing}] /\ reactions' \subseteq Notes \X Talkers
       /\ c.at # "create" /\ UNCHANGED <<roomVars, viewVars>>
  BY <1>0, <1>2 DEF ConversationsTypeOK
<1> QED
  BY <1>3, <1>6, <1>8, <1>9, <1>10, <1>11, CallGoesOn

LEMMA EditMessageStays ==
  ASSUME ConversationsInv, NEW k \in Calls, NEW u \in Writers, NEW n \in Notes, EditMessage(k, u, n)
  PROVE  ConversationsInv'
<1> USE ConversationsAssumption
<1>0. /\ ConversationsTypeOK /\ NotesHangTogether /\ ToldInside /\ calls[k] = NoCall /\ u \in Talkers
      /\ n \in Posted /\ notes[n] \in Note /\ notes[n].room \in Opened /\ notes[n].author = u
      /\ UNCHANGED <<roomVars, reactions, told, viewVars>>
  BY RowsOfConversations DEF ConversationsInv, EditMessage, MemberOf
<1>1. PICK new \in Note : /\ new = [notes[n] EXCEPT !.edits = @ + 1] /\ new # Nothing
                          /\ new.room = notes[n].room /\ new.author = notes[n].author /\ new.parent = notes[n].parent
  <2>1. \A x \in Note : LET e == [x EXCEPT !.edits = @ + 1] IN
          e \in Note /\ e.room = x.room /\ e.author = x.author /\ e.parent = x.parent
    BY DEF Note
  <2> QED
    BY <1>0, <2>1, RowsOfConversations
<1>2. notes' = [notes EXCEPT ![n] = new]
  BY <1>0, <1>1 DEF EditMessage, ConversationsTypeOK
<1>3. /\ notes' \in [Notes -> Note \cup {Nothing}] /\ notes'[n] = new
      /\ \A x \in Notes \ {n} : notes'[x] = notes[x]
  BY <1>0, <1>2 DEF ConversationsTypeOK
<1>4. n \in Posted' /\ \A x \in Posted : x \in Notes /\ x \in Posted'
  BY <1>1, <1>3 DEF Posted
<1>5. notes[n].room \in Rooms /\ notes[n].parent \in Notes \cup {Nothing}
  BY <1>0 DEF Note
<1>6. PICK c \in Call : /\ c = Went("tell", u, notes[n].room, n, Touched(notes[n].room, notes[n].parent))
                        /\ c.at = "tell" /\ c.note = n /\ c.to = rooms[notes[n].room].members
                        /\ c.about = Touched(notes[n].room, notes[n].parent)
  <2>1. Touched(notes[n].room, notes[n].parent) \in SUBSET (Lists \cup {Nothing}) /\ "tell" \in Threads
    BY <1>5, ListsTouched DEF Threads
  <2> QED
    BY <1>0, <2>1, WentIsCall
<1>7. calls' = [calls EXCEPT ![k] = c]
  BY <1>6 DEF EditMessage, Turns
<1>10. notes[n].parent # Nothing => /\ notes[n].parent \in Posted /\ notes[notes[n].parent].parent = Nothing
                                    /\ notes[notes[n].parent].room = notes[n].room
  BY <1>0 DEF NotesHangTogether
<1>11. NotesGrow /\ WritesTo(n) /\ NewsInside
  BY <1>0, <1>1, <1>3, <1>4 DEF NotesGrow, WritesTo, NewsInside
<1>12. Belongs(n) /\ Announces(c, n)
  BY <1>0, <1>1, <1>3, <1>4, <1>6, <1>10 DEF Belongs, Announces, Touched
<1>13. Knows(c)
  BY <1>1, <1>3, <1>4, <1>6 DEF Knows
<1>15. GoesOnTelling(k, c)
  BY <1>0 DEF GoesOnTelling, NoCall
<1>14. reactions' \subseteq Notes \X Talkers /\ told' \subseteq Notes \X Talkers /\ c.at # "create"
  BY <1>0, <1>6 DEF ConversationsTypeOK
<1> QED
  BY <1>0, <1>3, <1>7, <1>11, <1>12, <1>13, <1>14, <1>15, CallGoesOn

LEMMA ToggleReactionStays ==
  ASSUME ConversationsInv, NEW k \in Calls, NEW u \in Reactors, NEW n \in Notes, ToggleReaction(k, u, n)
  PROVE  ConversationsInv'
<1> USE ConversationsAssumption
<1>0. /\ ConversationsTypeOK /\ NotesHangTogether /\ ToldInside /\ calls[k] = NoCall /\ u \in Talkers
      /\ n \in Posted /\ notes[n] \in Note /\ notes[n].room \in Opened /\ reactions' = reactions \ {<<n, u>>}
      /\ UNCHANGED <<roomVars, notes, told, viewVars>>
  BY RowsOfConversations DEF ConversationsInv, ToggleReaction, MemberOf
<1>1. Posted' = Posted /\ reactions' \subseteq Notes \X Talkers
  BY <1>0 DEF Posted, ConversationsTypeOK
<1>2. PICK at \in {"tell", "add"} : at = IF <<n, u>> \in reactions THEN "tell" ELSE "add"
  OBVIOUS
<1>3. PICK c \in Call : /\ c = Went(at, u, notes[n].room, n, Lists)
                        /\ c.at = at /\ c.note = n /\ c.to = rooms[notes[n].room].members /\ c.about = Lists
  <2>1. at \in Threads /\ Lists \in SUBSET (Lists \cup {Nothing})
    BY DEF Threads
  <2> QED
    BY <1>0, <2>1, WentIsCall
<1>4. calls' = [calls EXCEPT ![k] = c]
  BY <1>2, <1>3 DEF ToggleReaction, Turns
<1>5. calls[k].at \notin {"name", "tell"}
  BY <1>0 DEF NoCall
<1>6. notes[n].parent # Nothing => /\ notes[n].parent \in Posted /\ notes[notes[n].parent].parent = Nothing
                                    /\ notes[notes[n].parent].room = notes[n].room
  BY <1>0 DEF NotesHangTogether
<1>7. NotesGrow /\ NewsInside /\ Knows(c) /\ GoesOnTelling(k, c)
  BY <1>0, <1>1, <1>3, <1>5 DEF NotesGrow, NewsInside, Knows, GoesOnTelling
<1>8. PICK m \in {n, Nothing} : WritesTo(m) /\ (m # Nothing => Belongs(m) /\ Announces(c, m))
  <2>1. CASE at = "add"
    <3>1. WritesTo(Nothing)
      BY <1>0, <1>2, <2>1 DEF WritesTo
    <3> QED
      BY <3>1
  <2>2. CASE at = "tell"
    <3>1. WritesTo(n)
      BY <1>0 DEF WritesTo
    <3>2. Belongs(n)
      BY <1>0, <1>1, <1>6 DEF Belongs
    <3>3. Announces(c, n)
      BY <1>0, <1>3, <1>6, <2>2 DEF Announces, Lists, Opened, Posted
    <3> QED
      BY <3>1, <3>2, <3>3
  <2> QED
    BY <2>1, <2>2
<1>9. notes' \in [Notes -> Note \cup {Nothing}] /\ told' \subseteq Notes \X Talkers /\ c.at # "create"
  BY <1>0, <1>3 DEF ConversationsTypeOK
<1> QED
  BY <1>0, <1>1, <1>4, <1>7, <1>8, <1>9, CallGoesOn

LEMMA InsertReactionStays ==
  ASSUME ConversationsInv, NEW k \in Calls, InsertReaction(k)
  PROVE  ConversationsInv'
<1> USE ConversationsAssumption
<1>0. /\ ConversationsTypeOK /\ CallsKnow /\ NotesHangTogether /\ calls[k].at = "add" /\ calls[k] \in Call
      /\ UNCHANGED <<roomVars, notes, told, viewVars>>
  BY DEF ConversationsInv, InsertReaction, ConversationsTypeOK
<1>1. PICK n \in Notes : n = calls[k].note
  BY <1>0, CallFields DEF Threads
<1>2. /\ n \in Posted /\ calls[k].to = rooms[notes[n].room].members /\ calls[k].about = Lists
      /\ calls[k].by \in Talkers
  BY <1>0, <1>1, CallFields DEF CallsKnow, Threads
<1>3. PICK c \in Call : /\ c = [calls[k] EXCEPT !.at = "tell"] /\ c.at = "tell" /\ c.note = n
                        /\ c.to = calls[k].to /\ c.about = Lists
  BY <1>0, <1>1, <1>2, CallKinds DEF Threads
<1>4. calls' = [calls EXCEPT ![k] = c] /\ reactions' = reactions \cup {<<n, calls[k].by>>}
  BY <1>1, <1>3 DEF InsertReaction, Turns
<1>5. Posted' = Posted /\ reactions' \subseteq Notes \X Talkers
  BY <1>0, <1>2, <1>4 DEF Posted, ConversationsTypeOK
<1>6. NotesGrow /\ NewsInside /\ Knows(c) /\ GoesOnTelling(k, c)
  BY <1>0, <1>2, <1>3, <1>5 DEF NotesGrow, NewsInside, Knows, GoesOnTelling
<1>7. WritesTo(n)
  BY <1>0, <1>4 DEF WritesTo
<1>8. Belongs(n)
  BY <1>0, <1>2, <1>5 DEF Belongs, NotesHangTogether
<1>9. notes[n] \in Note /\ notes[n].room \in Rooms /\ notes[n].parent \in Notes \cup {Nothing}
  BY <1>0, <1>2, RowsOfConversations DEF Note
<1>10. Announces(c, n)
  BY <1>0, <1>3, <1>9 DEF Announces, Lists
<1>11. notes' \in [Notes -> Note \cup {Nothing}] /\ told' \subseteq Notes \X Talkers /\ c.at # "create"
  BY <1>0, <1>3 DEF ConversationsTypeOK
<1> QED
  BY <1>0, <1>4, <1>5, <1>6, <1>7, <1>8, <1>10, <1>11, CallGoesOn

LEMMA CallFailsStays ==
  ASSUME ConversationsInv, NEW k \in Calls, CallFails(k)
  PROVE  ConversationsInv'
<1>0. /\ ConversationsTypeOK /\ calls' = [calls EXCEPT ![k] = NoCall] /\ calls[k].at \notin {"name", "tell"}
      /\ UNCHANGED <<roomVars, notes, reactions, told, viewVars>>
  BY DEF ConversationsInv, CallFails, Turns, noteVars
<1>1. Posted' = Posted
  BY <1>0 DEF Posted
<1>2. NotesGrow /\ NewsInside /\ Knows(NoCall) /\ GoesOnTelling(k, NoCall) /\ WritesTo(Nothing)
  BY <1>0, <1>1 DEF NotesGrow, NewsInside, Knows, GoesOnTelling, WritesTo, NoCall, Threads
<1>3. /\ notes' \in [Notes -> Note \cup {Nothing}] /\ reactions' \subseteq Notes \X Talkers
      /\ told' \subseteq Notes \X Talkers /\ NoCall \in Call /\ NoCall.at # "create"
  BY <1>0, CallKinds DEF ConversationsTypeOK
<1> QED
  BY <1>0, <1>2, <1>3, CallGoesOn

\* What a step of the channels or of the pages leaves as it is.
LEMMA NotesStay ==
  ASSUME ConversationsInv, UNCHANGED notes, UNCHANGED told,
         \A r \in Opened : r \in Opened' /\ rooms'[r] = rooms[r]
  PROVE  NotesHangTogether' /\ ToldInside' /\ Posted' = Posted
<1>0. NotesHangTogether /\ ToldInside
  BY DEF ConversationsInv
<1>1. Posted' = Posted
  BY DEF Posted
<1>2. NotesHangTogether'
  BY <1>0, <1>1 DEF NotesHangTogether
<1>3. ToldInside'
  <2> SUFFICES ASSUME NEW x \in told
               PROVE  /\ x[1] \in Posted /\ x[2] # notes[x[1]].author
                      /\ x[2] \in rooms'[notes[x[1]].room].members
    BY <1>1 DEF ToldInside
  <2>1. x[1] \in Posted /\ notes[x[1]].room \in Opened
    BY <1>0 DEF ToldInside, NotesHangTogether
  <2> QED
    BY <1>0, <2>1 DEF ToldInside
<1> QED
  BY <1>1, <1>2, <1>3

LEMMA CallsStillKnow ==
  ASSUME ConversationsInv, NEW k \in Calls, NEW c \in Call, calls' = [calls EXCEPT ![k] = c],
         c.at \notin Threads, UNCHANGED notes, \A r \in Opened : r \in Opened' /\ rooms'[r] = rooms[r]
  PROVE  CallsKnow'
<1>0. ConversationsTypeOK /\ CallsKnow /\ NotesHangTogether /\ Posted' = Posted
  BY DEF ConversationsInv, Posted
<1> SUFFICES ASSUME NEW x \in Calls, calls'[x].at \in Threads
             PROVE  /\ calls'[x].note \in Posted' /\ calls'[x].to = rooms'[notes'[calls'[x].note].room].members
                    /\ calls'[x].at = "name" => calls'[x].by = notes'[calls'[x].note].author
                    /\ calls'[x].at = "add" => calls'[x].about = Lists
  BY DEF CallsKnow, Lists
<1>1. x # k /\ calls'[x] = calls[x]
  BY <1>0 DEF ConversationsTypeOK
<1>2. calls[x].note \in Posted /\ notes[calls[x].note].room \in Opened
  BY <1>0, <1>1 DEF CallsKnow, NotesHangTogether
<1> QED
  BY <1>0, <1>1, <1>2 DEF CallsKnow

LEMMA CreateChannelStays ==
  ASSUME ConversationsInv, NEW k \in Calls, NEW o \in Openings, CreateChannel(k, o[2], o[1])
  PROVE  ConversationsInv'
<1> USE ConversationsAssumption
<1>1. PICK type \in {"team", "project", "dm"}, g \in SUBSET Talkers : type = o[1] /\ g = o[2]
  OBVIOUS
<1>2. PICK c \in Call : c = [at |-> "create", type |-> type, members |-> g]
  BY DEF Call
<1>0. /\ ConversationsTypeOK /\ OneConversation /\ NobodyElse /\ calls[k] = NoCall /\ (type = "dm" => FindDM(g) = {})
      /\ calls' = [calls EXCEPT ![k] = c] /\ UNCHANGED <<rooms, noteVars, viewVars>>
      /\ together \subseteq together' /\ together' \subseteq together \cup {g}
  BY <1>1, <1>2 DEF ConversationsInv, CreateChannel, Turns
<1>3. ConversationsTypeOK'
  BY <1>0 DEF ConversationsTypeOK, noteVars, viewVars
<1>4. \A x \in Calls : calls'[x] = IF x = k THEN c ELSE calls[x]
  BY <1>0 DEF ConversationsTypeOK
<1>5. OneConversation' /\ Opened' = Opened
  BY <1>0 DEF OneConversation, Opened
<1>6. NobodyElse'
  <2>1. \A h \in SUBSET Talkers : FindDM(h)' = FindDM(h)
    BY <1>0, <1>5 DEF FindDM
  <2>2. \A x \in Calls \ {k} : \A h \in SUBSET Talkers : OpensFor(x, h)' <=> OpensFor(x, h)
    BY <1>4 DEF OpensFor
  <2>3. \A h \in SUBSET Talkers : OpensFor(k, h)' <=> (type = "dm" /\ h = g)
    BY <1>2, <1>4 DEF OpensFor
  <2>4. ASSUME NEW x \in Calls \ {k}, OpensFor(x, g), type = "dm" PROVE g \in together'
    BY <1>1, <2>4 DEF CreateChannel, OpensFor
  <2> SUFFICES ASSUME NEW x \in Calls, NEW h \in SUBSET Talkers, OpensFor(x, h)',
                      FindDM(h)' # {} \/ \E y \in Calls \ {x} : OpensFor(y, h)'
               PROVE  h \in together'
    BY DEF NobodyElse
  <2>5. CASE x = k
    <3>1. type = "dm" /\ h = g /\ FindDM(h) = {}
      BY <1>0, <2>3, <2>5
    <3>2. PICK y \in Calls \ {k} : OpensFor(y, g)
      BY <2>1, <2>2, <2>5, <3>1
    <3> QED
      BY <2>4, <3>1, <3>2
  <2>6. CASE x # k
    <3>1. OpensFor(x, h)
      BY <2>2, <2>6
    <3>2. CASE FindDM(h)' # {}
      BY <1>0, <2>1, <3>1, <3>2 DEF NobodyElse
    <3>3. CASE \E y \in Calls \ {x} : OpensFor(y, h)'
      <4>1. PICK y \in Calls \ {x} : OpensFor(y, h)'
        BY <3>3
      <4>2. CASE y = k
        BY <2>3, <2>4, <2>6, <3>1, <4>1, <4>2
      <4>3. CASE y # k
        BY <1>0, <2>2, <3>1, <4>1, <4>3 DEF NobodyElse
      <4> QED
        BY <4>2, <4>3
    <3> QED
      BY <3>2, <3>3
  <2> QED
    BY <2>5, <2>6
<1>7. UNCHANGED notes /\ UNCHANGED told /\ \A r \in Opened : r \in Opened' /\ rooms'[r] = rooms[r]
  BY <1>0, <1>5 DEF noteVars
<1>8. NotesHangTogether' /\ ToldInside' /\ Posted' = Posted
  BY <1>7, NotesStay
<1>9. CallsKnow'
  <2>1. c.at \notin Threads
    BY <1>2 DEF Threads
  <2> QED
    BY <1>0, <1>7, <2>1, CallsStillKnow
<1>10. ASSUME NEW v \in Views PROVE ViewIsServed(v)'
  <2>1. ViewIsServed(v) /\ looking'[v] = looking[v] /\ read'[v] = read[v] /\ state'[v] = state[v]
    BY <1>0 DEF ConversationsInv, viewVars
  <2>2. StillComing(v) => StillComing(v)'
    <3> SUFFICES ASSUME StillComing(v) PROVE StillComing(v)'
      OBVIOUS
    <3>1. looking'[v] = looking[v] /\ GoesOnTelling(k, c)
      BY <1>0, <2>1 DEF NoCall, GoesOnTelling
    <3> QED
      BY <1>0, <3>1, ComingStays
  <2>3. /\ \A n \in Posted : n \in Posted' /\ notes'[n].room = notes[n].room /\ notes'[n].parent = notes[n].parent
        /\ \A n \in Notes \ {Nothing} : /\ notes'[n] = notes[n]
                                        /\ \A x \in Talkers : <<n, x>> \in reactions' <=> <<n, x>> \in reactions
    BY <1>0, <1>8 DEF noteVars
  <2> QED
    BY <1>3, <1>7, <1>8, <2>1, <2>2, <2>3, ViewStays
<1> QED
  BY <1>3, <1>5, <1>6, <1>8, <1>9, <1>10 DEF ConversationsInv

LEMMA InsertChannelStays ==
  ASSUME ConversationsInv, NEW k \in Calls, InsertChannel(k)
  PROVE  ConversationsInv'
<1> USE ConversationsAssumption
<1>0. /\ ConversationsTypeOK /\ OneConversation /\ NobodyElse /\ calls[k].at = "create" /\ calls[k] \in Call
      /\ calls' = [calls EXCEPT ![k] = NoCall] /\ UNCHANGED <<together, noteVars, viewVars>>
  BY DEF ConversationsInv, InsertChannel, Turns, ConversationsTypeOK
<1>1. PICK r \in Rooms : r = Unused(rooms) /\ rooms[r] = Nothing
  <2>1. \E x \in DOMAIN rooms : rooms[x] = Nothing
    BY <1>0 DEF InsertChannel, Opened, ConversationsTypeOK
  <2> QED
    BY <1>0, <2>1, UnusedIsFree DEF ConversationsTypeOK
<1>2. PICK g \in SUBSET Talkers, type \in {"team", "project", "dm"} : g = calls[k].members /\ type = calls[k].type
  BY <1>0, CallFields
<1>3. PICK new \in Room : new = [type |-> type, members |-> g] /\ new # Nothing
  <2>1. [type |-> type, members |-> g] \in Room
    BY DEF Room
  <2> QED
    BY <1>0, <2>1, RowsOfConversations
<1>4. rooms' = [rooms EXCEPT ![r] = new]
  BY <1>1, <1>2, <1>3 DEF InsertChannel
<1>5. /\ rooms' \in [Rooms -> Room \cup {Nothing}] /\ rooms'[r] = new /\ \A x \in Rooms \ {r} : rooms'[x] = rooms[x]
  BY <1>0, <1>4 DEF ConversationsTypeOK
<1>6. Opened' = Opened \cup {r} /\ r \notin Opened
  BY <1>1, <1>3, <1>5 DEF Opened
<1>7. ConversationsTypeOK'
  BY <1>0, <1>5, CallKinds DEF ConversationsTypeOK, noteVars, viewVars
<1>8. \A x \in Calls : calls'[x] = IF x = k THEN NoCall ELSE calls[x]
  BY <1>0 DEF ConversationsTypeOK
<1>9. \A x \in Opened : x \in Opened' /\ rooms'[x] = rooms[x]
  BY <1>5, <1>6 DEF Opened
<1>10. type = "dm" => OpensFor(k, g)
  BY <1>0, <1>2 DEF OpensFor
<1>11. ASSUME NEW s \in Opened, rooms[s].type = "dm", rooms[s].members = g, type = "dm" PROVE g \in together
  <2>1. s \in FindDM(g)
    BY <1>11 DEF FindDM
  <2> QED
    BY <1>0, <1>10, <1>11, <2>1 DEF NobodyElse
<1>12. OneConversation'
  <2> SUFFICES ASSUME NEW x \in Opened', NEW s \in Opened', x # s, rooms'[x].type = "dm", rooms'[s].type = "dm",
                      rooms'[x].members = rooms'[s].members
               PROVE  rooms'[x].members \in together
    BY <1>0 DEF OneConversation
  <2>1. CASE x \in Opened /\ s \in Opened
    BY <1>0, <1>9, <2>1 DEF OneConversation
  <2>2. CASE x = r
    <3>1. s \in Opened /\ rooms'[s] = rooms[s]
      BY <1>6, <1>9, <2>2
    <3> QED
      BY <1>3, <1>5, <1>11, <2>2, <3>1
  <2>3. CASE s = r
    <3>1. x \in Opened /\ rooms'[x] = rooms[x]
      BY <1>6, <1>9, <2>3
    <3> QED
      BY <1>3, <1>5, <1>11, <2>3, <3>1
  <2> QED
    BY <1>6, <2>1, <2>2, <2>3
<1>13. NobodyElse'
  <2> SUFFICES ASSUME NEW x \in Calls, NEW h \in SUBSET Talkers, OpensFor(x, h)',
                      FindDM(h)' # {} \/ \E y \in Calls \ {x} : OpensFor(y, h)'
               PROVE  h \in together
    BY <1>0 DEF NobodyElse
  <2>1. x # k /\ OpensFor(x, h)
    BY <1>8 DEF OpensFor, NoCall
  <2>2. CASE \E y \in Calls \ {x} : OpensFor(y, h)'
    <3>1. PICK y \in Calls \ {x} : OpensFor(y, h)'
      BY <2>2
    <3>2. OpensFor(y, h)
      BY <1>8, <3>1 DEF OpensFor, NoCall
    <3> QED
      BY <1>0, <2>1, <3>2 DEF NobodyElse
  <2>3. CASE FindDM(h)' # {}
    <3>1. PICK s \in Opened' : rooms'[s].type = "dm" /\ rooms'[s].members = h
      BY <2>3 DEF FindDM
    <3>2. CASE s = r
      <4>1. type = "dm" /\ h = g
        BY <1>3, <1>5, <3>1, <3>2
      <4> QED
        BY <1>0, <1>10, <2>1, <4>1 DEF NobodyElse
    <3>3. CASE s # r
      <4>1. s \in FindDM(h)
        BY <1>6, <1>9, <3>1, <3>3 DEF FindDM
      <4> QED
        BY <1>0, <2>1, <4>1 DEF NobodyElse
    <3> QED
      BY <3>2, <3>3
  <2> QED
    BY <2>2, <2>3
<1>14. NotesHangTogether' /\ ToldInside' /\ Posted' = Posted
  <2>1. UNCHANGED notes /\ UNCHANGED told
    BY <1>0 DEF noteVars
  <2> QED
    BY <1>9, <2>1, NotesStay
<1>15. CallsKnow'
  <2>1. NoCall.at \notin Threads /\ UNCHANGED notes
    BY <1>0 DEF NoCall, Threads, noteVars
  <2> QED
    BY <1>0, <1>9, <2>1, CallKinds, CallsStillKnow
<1>16. ASSUME NEW v \in Views PROVE ViewIsServed(v)'
  <2>1. ViewIsServed(v) /\ looking'[v] = looking[v] /\ read'[v] = read[v] /\ state'[v] = state[v]
    BY <1>0 DEF ConversationsInv, viewVars
  <2>2. StillComing(v) => StillComing(v)'
    <3> SUFFICES ASSUME StillComing(v) PROVE StillComing(v)'
      OBVIOUS
    <3>1. looking'[v] = looking[v] /\ GoesOnTelling(k, NoCall)
      BY <1>0, <2>1 DEF GoesOnTelling
    <3> QED
      BY <1>0, <3>1, ComingStays
  <2>3. /\ \A n \in Posted : n \in Posted' /\ notes'[n].room = notes[n].room /\ notes'[n].parent = notes[n].parent
        /\ \A n \in Notes \ {Nothing} : /\ notes'[n] = notes[n]
                                        /\ \A x \in Talkers : <<n, x>> \in reactions' <=> <<n, x>> \in reactions
    BY <1>0, <1>14 DEF noteVars
  <2> QED
    BY <1>7, <1>9, <1>14, <2>1, <2>2, <2>3, ViewStays
<1> QED
  BY <1>7, <1>12, <1>13, <1>14, <1>15, <1>16 DEF ConversationsInv

-----------------------------------------------------------------------------
(* The pages. *)

\* What no step of a page touches.
LEMMA TablesStay ==
  ASSUME ConversationsInv, UNCHANGED <<roomVars, noteVars>>
  PROVE  /\ OneConversation' /\ NotesHangTogether' /\ ToldInside' /\ Opened' = Opened /\ Posted' = Posted
         /\ \A u : MemberOf(u)' = MemberOf(u)
         /\ UNCHANGED calls => NobodyElse' /\ CallsKnow'
<1>0. /\ UNCHANGED <<rooms, together, notes, reactions, told>>
      /\ OneConversation /\ NobodyElse /\ CallsKnow
  BY DEF ConversationsInv, roomVars, noteVars
<1>1. Opened' = Opened
  BY <1>0 DEF Opened
<1>2. NotesHangTogether' /\ ToldInside' /\ Posted' = Posted
  BY <1>0, <1>1, NotesStay
<1>3. OneConversation'
  BY <1>0, <1>1 DEF OneConversation
<1>4. \A u : MemberOf(u)' = MemberOf(u)
  BY <1>0, <1>1 DEF MemberOf
<1>5. ASSUME UNCHANGED calls PROVE NobodyElse' /\ CallsKnow'
  <2>1. \A g \in SUBSET Talkers : FindDM(g)' = FindDM(g)
    BY <1>0, <1>1 DEF FindDM
  <2>2. \A x \in Calls : \A g \in SUBSET Talkers : OpensFor(x, g)' <=> OpensFor(x, g)
    BY <1>5 DEF OpensFor
  <2>3. NobodyElse'
    BY <1>0, <2>1, <2>2 DEF NobodyElse
  <2>4. CallsKnow'
    BY <1>0, <1>2, <1>5 DEF CallsKnow, Lists
  <2> QED
    BY <2>3, <2>4
<1> QED
  BY <1>1, <1>2, <1>3, <1>4, <1>5

\* What is shown is what is stored as long as nothing is stored.
LEMMA ContentUnchanged ==
  ASSUME UNCHANGED <<roomVars, noteVars>>, NEW w, NEW u
  PROVE  Content(w, u)' = Content(w, u)
  BY DEF Content, MemberOf, RootMessages, Thread, Line, Opened, Posted, roomVars, noteVars

LEMMA AgreesStays ==
  ASSUME UNCHANGED <<roomVars, noteVars>>, NEW v \in Views, looking'[v] = looking[v], read'[v] = read[v], Agrees(v)
  PROVE  Agrees(v)'
<1>1. PICK w : w = looking[v] /\ w = looking'[v]
  OBVIOUS
<1>2. Content(w, Viewer[v])' = Content(w, Viewer[v])
  BY ContentUnchanged
<1>3. /\ {notes[n].room : n \in Posted}' = {notes[n].room : n \in Posted}
      /\ MemberOf(Viewer[v])' = MemberOf(Viewer[v])
  BY DEF MemberOf, Opened, Posted, roomVars, noteVars
<1> QED
  BY <1>1, <1>2, <1>3 DEF Agrees

LEMMA InViewStays ==
  ASSUME UNCHANGED <<roomVars, noteVars>>, NEW v \in Views, looking'[v] = looking[v], InView(v)
  PROVE  InView(v)'
  BY DEF InView, MemberOf, Opened, Posted, roomVars, noteVars

LEMMA PushToChannelStays ==
  ASSUME ConversationsInv, NEW k \in Calls, NEW deaf \in SUBSET Views, PushToChannel(k, deaf)
  PROVE  ConversationsInv'
<1>0. /\ ConversationsTypeOK /\ NobodyElse /\ CallsKnow
      /\ calls' = [calls EXCEPT ![k] = NoCall] /\ UNCHANGED <<roomVars, noteVars, looking>>
  BY DEF ConversationsInv, PushToChannel, Turns
<1>1. /\ OneConversation' /\ NotesHangTogether' /\ ToldInside' /\ Opened' = Opened /\ Posted' = Posted
  BY <1>0, TablesStay
<1>2. /\ state' \in [Views -> Freshness] /\ DOMAIN read' = Views
      /\ UNCHANGED <<shown, held>>
  BY <1>0 DEF PushToChannel, ConversationsTypeOK, Freshness, WhenTold, WhenMissed
<1>3. ConversationsTypeOK'
  BY <1>0, <1>2, CallKinds DEF ConversationsTypeOK, roomVars, noteVars
<1>4. \A x \in Calls : calls'[x] = IF x = k THEN NoCall ELSE calls[x]
  BY <1>0 DEF ConversationsTypeOK
<1>5. NobodyElse'
  <2>1. \A x \in Calls : \A g \in SUBSET Talkers : OpensFor(x, g)' => OpensFor(x, g)
    BY <1>4 DEF OpensFor, NoCall
  <2>2. \A g \in SUBSET Talkers : FindDM(g)' = FindDM(g)
    BY <1>0, <1>1 DEF FindDM, roomVars
  <2> QED
    BY <1>0, <2>1, <2>2 DEF NobodyElse, roomVars
<1>6. CallsKnow'
  <2>1. NoCall.at \notin Threads /\ UNCHANGED notes /\ \A r \in Opened : r \in Opened' /\ rooms'[r] = rooms[r]
    BY <1>0, <1>1 DEF NoCall, Threads, noteVars, roomVars
  <2> QED
    BY <1>0, <2>1, CallKinds, CallsStillKnow
<1>7. ASSUME NEW v \in Views PROVE ViewIsServed(v)'
  <2>1. ViewIsServed(v) /\ looking'[v] = looking[v]
    BY <1>0 DEF ConversationsInv
  <2>2. InView(v)'
    BY <1>0, <2>1, InViewStays DEF ViewIsServed
  <2> SUFFICES ASSUME state'[v] \in {"loading", "fresh"} PROVE StillComing(v)' \/ Agrees(v)'
    BY <2>2 DEF ViewIsServed
  <2>3. ~(Viewer[v] \in calls[k].to /\ looking[v] \in calls[k].about)
    BY <1>0 DEF PushToChannel, WhenTold, WhenMissed, ConversationsTypeOK, Freshness
  <2>4. state'[v] = state[v] /\ read'[v] = read[v]
    BY <2>3 DEF PushToChannel
  <2>5. CASE StillComing(v)
    <3>1. PICK x \in Calls : calls[x].at \in {"name", "tell"} /\ looking[v] \in calls[x].about /\ Viewer[v] \in calls[x].to
      BY <2>5 DEF StillComing
    <3>2. calls'[x] = calls[x]
      BY <1>4, <2>3, <3>1
    <3> QED
      BY <2>1, <3>1, <3>2 DEF StillComing
  <2>6. CASE Agrees(v)
    BY <1>0, <2>1, <2>4, <2>6, AgreesStays
  <2> QED
    BY <2>1, <2>4, <2>5, <2>6 DEF ViewIsServed
<1> QED
  BY <1>1, <1>3, <1>5, <1>6, <1>7 DEF ConversationsInv

\* A step that one view makes.
LEMMA OtherViewsStay ==
  ASSUME ConversationsInv, UNCHANGED <<roomVars, noteVars, calls>>, ConversationsTypeOK', NEW v \in Views, ViewIsServed(v)',
         \A x \in Views \ {v} : looking'[x] = looking[x] /\ state'[x] = state[x] /\ read'[x] = read[x]
  PROVE  ConversationsInv'
<1>1. OneConversation' /\ NotesHangTogether' /\ ToldInside' /\ NobodyElse' /\ CallsKnow'
  BY TablesStay
<1>2. ASSUME NEW x \in Views \ {v} PROVE ViewIsServed(x)'
  <2>1. ViewIsServed(x) /\ looking'[x] = looking[x] /\ state'[x] = state[x] /\ read'[x] = read[x]
    BY DEF ConversationsInv
  <2>2. InView(x)'
    BY <2>1, InViewStays DEF ViewIsServed
  <2>3. StillComing(x) => StillComing(x)'
    BY <2>1 DEF StillComing
  <2>4. Agrees(x) => Agrees(x)'
    BY <2>1, AgreesStays
  <2> QED
    BY <2>1, <2>2, <2>3, <2>4 DEF ViewIsServed
<1> QED
  BY <1>1, <1>2 DEF ConversationsInv

LEMMA TurnToStays ==
  ASSUME ConversationsInv, NEW v \in Views, NEW what \in Lists, TurnTo(v, what)
  PROVE  ConversationsInv'
<1>0. ConversationsTypeOK /\ UNCHANGED <<roomVars, noteVars, calls>>
  BY DEF ConversationsInv, TurnTo
<1>1. ConversationsTypeOK'
  BY <1>0 DEF TurnTo, ConversationsTypeOK, Freshness, roomVars, noteVars
<1>2. /\ looking'[v] = what /\ state'[v] = "due"
      /\ \A x \in Views \ {v} : looking'[x] = looking[x] /\ state'[x] = state[x] /\ read'[x] = read[x]
  BY <1>0 DEF TurnTo, ConversationsTypeOK
<1>3. MemberOf(Viewer[v])' = MemberOf(Viewer[v]) /\ Posted' = Posted /\ notes' = notes
  BY <1>0, TablesStay DEF noteVars
<1>4. InView(v)'
  BY <1>2, <1>3 DEF TurnTo, InView
<1>5. ViewIsServed(v)'
  BY <1>2, <1>4 DEF ViewIsServed
<1> QED
  BY <1>0, <1>1, <1>2, <1>5, OtherViewsStay

LEMMA GetMessagesStays ==
  ASSUME ConversationsInv, NEW v \in Views, GetMessages(v)
  PROVE  ConversationsInv'
<1> DEFINE all == Content(looking[v], Viewer[v])
<1>0. ConversationsTypeOK /\ ViewIsServed(v) /\ UNCHANGED <<roomVars, noteVars, calls, looking, shown, held>>
  BY DEF ConversationsInv, GetMessages
<1> PICK without \in SUBSET Decorations :
      read' = [read EXCEPT ![v] = IF looking[v] = Everything THEN all ELSE Plain(all, without)]
  BY DEF GetMessages
<1>1. ConversationsTypeOK'
  BY <1>0 DEF GetMessages, ConversationsTypeOK, Freshness, roomVars, noteVars
<1>2. /\ read'[v] = IF looking[v] = Everything THEN all ELSE Plain(all, without)
      /\ \A x \in Views \ {v} : looking'[x] = looking[x] /\ state'[x] = state[x] /\ read'[x] = read[x]
  BY <1>0 DEF GetMessages, ConversationsTypeOK
<1>3. InView(v)'
  BY <1>0, InViewStays DEF ViewIsServed
<1>4. Agrees(v)'
  <2>1. CASE looking[v] = Everything
    <3>1. read'[v] = MemberOf(Viewer[v])
      BY <1>2, <2>1 DEF Content
    <3>2. MemberOf(Viewer[v])' = MemberOf(Viewer[v]) /\ looking'[v] = looking[v]
      BY <1>0, TablesStay
    <3> QED
      BY <2>1, <3>1, <3>2 DEF Agrees
  <2>2. CASE looking[v] # Everything
    <3>1. PICK w : w = looking[v] /\ w = looking'[v]
      BY <1>0
    <3>2. Content(w, Viewer[v])' = Content(w, Viewer[v])
      BY <1>0, ContentUnchanged
    <3>3. read'[v] = Plain(Content(w, Viewer[v]), without)
      BY <1>2, <2>2, <3>1
    <3> QED
      BY <2>2, <3>1, <3>2, <3>3 DEF Agrees
  <2> QED
    BY <2>1, <2>2
<1>5. ViewIsServed(v)'
  BY <1>3, <1>4 DEF ViewIsServed
<1> QED
  BY <1>0, <1>1, <1>2, <1>5, OtherViewsStay

\* A view that is not newly fresh, and not read again, is as good as it was.
LEMMA ViewIsServedStill ==
  ASSUME ConversationsInv, UNCHANGED <<roomVars, noteVars, calls, looking>>, ConversationsTypeOK', NEW v \in Views,
         state'[v] \in {"loading", "fresh"} => state[v] \in {"loading", "fresh"} /\ read'[v] = read[v],
         \A x \in Views \ {v} : state'[x] = state[x] /\ read'[x] = read[x]
  PROVE  ConversationsInv'
<1>1. ViewIsServed(v) /\ looking'[v] = looking[v]
  BY DEF ConversationsInv
<1>2. InView(v)'
  BY <1>1, InViewStays DEF ViewIsServed
<1>3. StillComing(v) => StillComing(v)'
  BY DEF StillComing
<1>4. ASSUME read'[v] = read[v], Agrees(v) PROVE Agrees(v)'
  BY <1>1, <1>4, AgreesStays
<1>5. ViewIsServed(v)'
  BY <1>1, <1>2, <1>3, <1>4 DEF ViewIsServed
<1> QED
  BY <1>5, OtherViewsStay

LEMMA ShowMessagesStays ==
  ASSUME ConversationsInv, NEW v \in Views, ShowMessages(v)
  PROVE  ConversationsInv'
<1>0. ConversationsTypeOK /\ UNCHANGED <<roomVars, noteVars, calls, looking, shown, read>>
  BY DEF ConversationsInv, ShowMessages
<1>1. ConversationsTypeOK'
  BY <1>0 DEF ShowMessages, ConversationsTypeOK, Freshness, roomVars, noteVars
<1>2. /\ state'[v] = "fresh" => state[v] = "loading"
      /\ state'[v] \in {"fresh", "behind"} /\ \A x \in Views \ {v} : state'[x] = state[x]
  BY <1>0 DEF ShowMessages, ConversationsTypeOK
<1> QED
  BY <1>0, <1>1, <1>2, ViewIsServedStill

LEMMA LeaveViewStays ==
  ASSUME ConversationsInv, NEW v \in Views, LeaveView(v)
  PROVE  ConversationsInv'
<1>0. ConversationsTypeOK /\ UNCHANGED <<roomVars, noteVars, calls, looking, held, state, read>>
  BY DEF ConversationsInv, LeaveView
<1>1. ConversationsTypeOK'
  BY <1>0 DEF LeaveView, ConversationsTypeOK, roomVars, noteVars
<1> QED
  BY <1>0, <1>1, ViewIsServedStill

LEMMA ComeToFrontStays ==
  ASSUME ConversationsInv, NEW v \in Views, ComeToFront(v)
  PROVE  ConversationsInv'
<1>0. ConversationsTypeOK /\ UNCHANGED <<roomVars, noteVars, calls, looking, held>>
  BY DEF ConversationsInv, ComeToFront
<1>1. \/ UNCHANGED <<state, read>>
      \/ state' = [state EXCEPT ![v] = "due"] /\ read' = [read EXCEPT ![v] = {}]
  BY DEF ComeToFront
<1>2. ConversationsTypeOK'
  BY <1>0, <1>1 DEF ComeToFront, ConversationsTypeOK, Freshness, roomVars, noteVars
<1>3. /\ state'[v] = "due" \/ UNCHANGED <<state, read>>
      /\ \A x \in Views \ {v} : state'[x] = state[x] /\ read'[x] = read[x]
  BY <1>0, <1>1 DEF ConversationsTypeOK
<1> QED
  BY <1>0, <1>2, <1>3, ViewIsServedStill

LEMMA LoadFailsStays ==
  ASSUME ConversationsInv, NEW v \in Views, LoadFails(v)
  PROVE  ConversationsInv'
<1>0. ConversationsTypeOK /\ UNCHANGED <<roomVars, noteVars, calls, looking, shown, held>>
  BY DEF ConversationsInv, LoadFails
<1>1. ConversationsTypeOK'
  BY <1>0 DEF LoadFails, ConversationsTypeOK, Freshness, roomVars, noteVars
<1>2. /\ state'[v] = "behind"
      /\ \A x \in Views \ {v} : state'[x] = state[x] /\ read'[x] = read[x]
  BY <1>0 DEF LoadFails, ConversationsTypeOK
<1> QED
  BY <1>0, <1>1, <1>2, ViewIsServedStill

-----------------------------------------------------------------------------

LEMMA ConversationsBegin ==
  ConversationsInit => ConversationsInv
<1> SUFFICES ASSUME ConversationsInit PROVE ConversationsInv
  OBVIOUS
<1>1. ConversationsTypeOK
  BY CallKinds DEF ConversationsInit, ConversationsTypeOK, Freshness, Lists
<1>2. Opened = {} /\ Posted = {} /\ \A k \in Calls : calls[k].at = "idle"
  BY DEF ConversationsInit, Opened, Posted, NoCall
<1>3. OneConversation /\ NobodyElse
  BY <1>2 DEF OneConversation, NobodyElse, OpensFor
<1>4. NotesHangTogether /\ CallsKnow /\ ToldInside
  BY <1>2 DEF NotesHangTogether, CallsKnow, ToldInside, Threads, ConversationsInit
<1>5. \A v \in Views : ViewIsServed(v)
  BY DEF ViewIsServed, InView, ConversationsInit
<1> QED
  BY <1>1, <1>3, <1>4, <1>5 DEF ConversationsInv

LEMMA ConversationsGoOn ==
  ConversationsInv /\ [ConversationsNext]_conversationVars => ConversationsInv'
<1> SUFFICES ASSUME ConversationsInv, [ConversationsNext]_conversationVars PROVE ConversationsInv'
  OBVIOUS
<1>1. ASSUME UNCHANGED conversationVars PROVE ConversationsInv'
  <2>1. UNCHANGED <<roomVars, noteVars, calls>> /\ UNCHANGED <<looking, shown, held, state, read>>
    BY <1>1 DEF conversationVars, viewVars
  <2>2. ConversationsTypeOK'
    BY <2>1 DEF ConversationsInv, ConversationsTypeOK, roomVars, noteVars
  <2>3. OneConversation' /\ NotesHangTogether' /\ ToldInside' /\ NobodyElse' /\ CallsKnow'
    BY <2>1, TablesStay
  <2>5. ASSUME NEW v \in Views PROVE ViewIsServed(v)'
    <3>1. ViewIsServed(v) /\ looking'[v] = looking[v] /\ read'[v] = read[v] /\ state'[v] = state[v]
      BY <2>1 DEF ConversationsInv
    <3>2. InView(v)'
      BY <2>1, <3>1, InViewStays DEF ViewIsServed
    <3>3. (StillComing(v) => StillComing(v)')
      BY <2>1 DEF StillComing
    <3>4. Agrees(v) => Agrees(v)'
      BY <2>1, <3>1, AgreesStays
    <3> QED
      BY <3>1, <3>2, <3>3, <3>4 DEF ViewIsServed
  <2> QED
    BY <2>2, <2>3, <2>5 DEF ConversationsInv
<1>2. ASSUME NEW k \in Calls, NEW o \in Openings, CreateChannel(k, o[2], o[1]) PROVE ConversationsInv'
  BY <1>2, CreateChannelStays
<1>3. ASSUME NEW k \in Calls, InsertChannel(k) PROVE ConversationsInv'
  BY <1>3, InsertChannelStays
<1>4. ASSUME NEW k \in Calls, NotifyMentions(k) PROVE ConversationsInv'
  BY <1>4, NotifyMentionsStays
<1>5. ASSUME NEW k \in Calls, InsertReaction(k) PROVE ConversationsInv'
  BY <1>5, InsertReactionStays
<1>6. ASSUME NEW k \in Calls, CallFails(k) PROVE ConversationsInv'
  BY <1>6, CallFailsStays
<1>7. ASSUME NEW k \in Calls, NEW u \in Writers, NEW r \in Rooms, PostMessage(k, u, r) PROVE ConversationsInv'
  BY <1>7, InsertStays DEF PostMessage
<1>8. ASSUME NEW k \in Calls, NEW u \in Writers, NEW n \in Notes, ReplyToMessage(k, u, n) PROVE ConversationsInv'
  <2>1. PICK r \in Rooms : r = notes[n].room
    BY <1>8, RowsOfConversations DEF ReplyToMessage, ConversationsInv, Note
  <2>2. n # Nothing
    BY ConversationsAssumption
  <2>3. Insert(k, u, r, n, "name")
    BY <1>8, <2>1 DEF ReplyToMessage
  <2>4. n \in Posted /\ notes[n].parent = Nothing
    BY <1>8 DEF ReplyToMessage
  <2> QED
    BY <2>1, <2>3, <2>4, InsertStays
<1>9. ASSUME NEW k \in Calls, NEW u \in Writers, NEW n \in Notes, EditMessage(k, u, n) PROVE ConversationsInv'
  BY <1>9, EditMessageStays
<1>10. ASSUME NEW k \in Calls, NEW u \in Reactors, NEW n \in Notes, ToggleReaction(k, u, n) PROVE ConversationsInv'
  BY <1>10, ToggleReactionStays
<1>11. ASSUME NEW k \in Calls, NEW deaf \in SUBSET Views, PushToChannel(k, deaf) PROVE ConversationsInv'
  BY <1>11, PushToChannelStays
<1>12. ASSUME NEW v \in Views, NEW what \in Lists, TurnTo(v, what) PROVE ConversationsInv'
  BY <1>12, TurnToStays
<1>13. ASSUME NEW v \in Views, GetMessages(v) PROVE ConversationsInv'
  BY <1>13, GetMessagesStays
<1>14. ASSUME NEW v \in Views, ShowMessages(v) PROVE ConversationsInv'
  BY <1>14, ShowMessagesStays
<1>15. ASSUME NEW v \in Views, LeaveView(v) PROVE ConversationsInv'
  BY <1>15, LeaveViewStays
<1>16. ASSUME NEW v \in Views, ComeToFront(v) PROVE ConversationsInv'
  BY <1>16, ComeToFrontStays
<1>17. ASSUME NEW v \in Views, LoadFails(v) PROVE ConversationsInv'
  BY <1>17, LoadFailsStays
<1> QED
  BY <1>1, <1>2, <1>3, <1>4, <1>5, <1>6, <1>7, <1>8, <1>9, <1>10, <1>11, <1>12, <1>13, <1>14,
     <1>15, <1>16, <1>17 DEF ConversationsNext

\* What people see of a conversation is one and the same, for any number of
\* people, channels, messages, handlers under way and pages: two direct
\* messages of the same people were being opened at once
\* (handlers/chat_handler.go:92-101); a view that was told of all that happened
\* since it was last read, and was answered since, holds what is stored, but for
\* the decorations its answer lacked, or is still to be told
\* (handlers/chat_files_handler.go:211-213, handlers/collaboration_handler.go:
\* 221-222); and nobody hears of a conversation he has no part in.
THEOREM ConversationsStayOne == ConversationsSpec => []ConversationsAgree
<1>1. ConversationsInv => ConversationsAgree
  <2> SUFFICES ASSUME ConversationsInv PROVE ConversationsAgree
    OBVIOUS
  <2>1. PagesCatchUp
    BY DEF ConversationsInv, PagesCatchUp, ViewIsServed, StillComing, Agrees
  <2>2. MentionsStayInside
    BY DEF ConversationsInv, MentionsStayInside, ToldInside
  <2> QED
    BY <2>1, <2>2 DEF ConversationsInv, ConversationsAgree
<1> QED
  BY <1>1, ConversationsBegin, ConversationsGoOn, PTL DEF ConversationsSpec

-----------------------------------------------------------------------------
(* Inbox: a digest is due by the mark, and the mark is what was mailed.      *)

Digests == {"off", "daily", "weekly"}

InboxTypeOK ==
  /\ hourNow \in 0 .. HoursPerDay - 1
  /\ standing \in [Addressees -> {"active", "inactive", "erased"}]
  /\ notices \in [Notices -> Notice \cup {NoNotice}]
  /\ prefs \in [Addressees -> [digest : Digests, hour : 0 .. HoursPerDay - 1]]
  /\ marked \in [Addressees -> Nat \cup {Never}] /\ mailed \in [Addressees -> Nat \cup {Never}]
  /\ sweeps \in [Sweeps -> Sweep \cup {NoSweep}]
  /\ swept \in BOOLEAN /\ waited \in [Addressees -> Nat]

\* What is recorded of u is no older than what u was mailed.
MarkedAsMailed(u) ==
  u \notin unmarked /\ standing[u] # "erased" /\ mailed[u] # Never =>
    marked[u] # Never /\ (mailed[u] >= marked[u] \/ mailed[u] >= Longest)

\* A sweep that was alone is alone, and mails each person once, none of whom
\* was mailed within his window.
KeepsWindows(s) ==
  sweeps[s].alone =>
    /\ Sweeping = {s}
    /\ \A x, y \in sweeps[s].left : x[1] = y[1] => x = y
    /\ \A x \in sweeps[s].left : /\ x[1] \notin sweeps[s].sent
                                 /\ x[1] \in unmarked \/ mailed[x[1]] = Never \/ mailed[x[1]] >= x[2]

Wide(u) == Window[prefs[u].digest]

\* Hours until that of u ends.
UntilOver(u) ==
  IF hourNow <= prefs[u].hour THEN prefs[u].hour - hourNow ELSE prefs[u].hour + HoursPerDay - hourNow

\* u can be mailed in this hour.
Ripe(u) == Owed(u) /\ Past(u, Wide(u))
RipeNow(u) == Ripe(u) /\ prefs[u].hour = hourNow

\* Within the window u waits since the last digest at most; then at most until
\* the hour of u is over for the first time.
WaitsInTime(u) ==
  /\ ~Owed(u) => waited[u] = 0
  /\ Owed(u) /\ ~Past(u, Wide(u)) => waited[u] <= marked[u]
  /\ Ripe(u) => waited[u] + UntilOver(u) <= Wide(u) + HoursPerDay
  /\ swept /\ RipeNow(u) => waited[u] = 0

\* A sweep that nothing disturbs has before it all whose hour it is.
Gathers(s) ==
  sweeps[s].prompt => \A u \in Addressees :
    RipeNow(u) /\ waited[u] # 0 => \E w \in Windows : <<u, w>> \in sweeps[s].left

\* The inductive invariant.
InboxInv ==
  /\ InboxTypeOK /\ early = {}
  /\ \A u \in Addressees : MarkedAsMailed(u) /\ WaitsInTime(u)
  /\ \A s \in Sweeping : KeepsWindows(s) /\ Gathers(s)

LEMMA WindowSizes ==
  /\ HoursPerDay \in Nat /\ HoursPerDay > 0 /\ Longest \in Nat
  /\ \A w \in Windows : w \in Nat /\ w <= Longest
  /\ InboxTypeOK => \A u \in Addressees : Owed(u) => Wide(u) \in Windows
<1>1. /\ HoursPerDay \in Nat /\ HoursPerDay > 0 /\ Longest \in Nat
      /\ \A w \in Windows : w \in Nat /\ w <= Longest
  BY InboxAssumption DEF Windows, Longest
<1>2. ASSUME InboxTypeOK, NEW u \in Addressees, Owed(u) PROVE Wide(u) \in Windows
  BY <1>2 DEF InboxTypeOK, Owed, Wide, Windows, Digests
<1> QED
  BY <1>1, <1>2

LEMMA LaterIs ==
  ASSUME NEW h \in Nat, NEW cap \in Nat
  PROVE  /\ Later(h, cap) \in Nat /\ h <= Later(h, cap) /\ Later(h, cap) <= h + 1
         /\ h < cap => Later(h, cap) = h + 1
  BY InboxAssumption DEF Later

LEMMA LaterNever ==
  ASSUME NEW cap
  PROVE  Later(Never, cap) = Never
  BY DEF Later

LEMMA UntilOverIsLess ==
  ASSUME InboxTypeOK, NEW u \in Addressees
  PROVE  UntilOver(u) \in Nat /\ UntilOver(u) < HoursPerDay
<1>1. PICK h \in 0 .. HoursPerDay - 1 : h = prefs[u].hour
  BY DEF InboxTypeOK
<1>2. PICK now \in 0 .. HoursPerDay - 1 : now = hourNow
  BY DEF InboxTypeOK
<1>3. UntilOver(u) = IF now <= h THEN h - now ELSE h + HoursPerDay - now
  BY <1>1, <1>2 DEF UntilOver
<1> QED
  BY <1>3, WindowSizes

LEMMA SweepFields ==
  ASSUME InboxTypeOK, NEW s \in Sweeping
  PROVE  s \in Sweeps /\ sweeps[s] \in Sweep /\ sweeps[s] # NoSweep
  BY DEF Sweeping, InboxTypeOK

\* What a step may do to a sweep under way.
LEMMA SweepUpdates ==
  ASSUME NEW w \in Sweep, NEW left \in SUBSET (Addressees \X Windows), NEW sent \in SUBSET Addressees
  PROVE  /\ [w EXCEPT !.left = left, !.sent = sent] \in Sweep /\ [w EXCEPT !.left = left, !.prompt = FALSE] \in Sweep
         /\ [w EXCEPT !.sent = sent] \in Sweep /\ [w EXCEPT !.alone = FALSE] \in Sweep
         /\ [w EXCEPT !.prompt = FALSE] \in Sweep
  BY DEF Sweep

-----------------------------------------------------------------------------
(* Within an hour. *)

\* Who waits, was waiting.
GoesOnWaiting(u) ==
  /\ ~Owed(u)' => waited'[u] = 0
  /\ waited'[u] # 0 => Owed(u) /\ prefs'[u] = prefs[u] /\ marked'[u] = marked[u] /\ waited'[u] = waited[u]

LEMMA WaitingGoesOn ==
  ASSUME InboxInv, InboxTypeOK', hourNow' = hourNow, NEW u \in Addressees, GoesOnWaiting(u),
         swept' => swept \/ (RipeNow(u)' => waited'[u] = 0)
  PROVE  WaitsInTime(u)'
<1>0. InboxTypeOK /\ WaitsInTime(u)
  BY DEF InboxInv
<1>1. CASE waited'[u] = 0
  <2>1. ~Past(u, Wide(u))' => 0 <= marked'[u]
    BY DEF InboxTypeOK, Past
  <2>2. UntilOver(u)' \in Nat /\ UntilOver(u)' < HoursPerDay
    <3>1. PICK h \in 0 .. HoursPerDay - 1, now \in 0 .. HoursPerDay - 1 : h = prefs'[u].hour /\ now = hourNow'
      BY DEF InboxTypeOK
    <3>2. UntilOver(u)' = IF now <= h THEN h - now ELSE h + HoursPerDay - now
      BY <3>1 DEF UntilOver
    <3> QED
      BY <3>2, WindowSizes
  <2>3. ASSUME Owed(u)' PROVE UntilOver(u)' <= Wide(u)' + HoursPerDay
    <3>1. Wide(u)' \in Windows
      BY <2>3 DEF InboxTypeOK, Owed, Wide, Windows, Digests
    <3> QED
      BY <2>2, <3>1, WindowSizes
  <2> QED
    BY <1>1, <2>1, <2>2, <2>3 DEF WaitsInTime, Ripe
<1>2. CASE waited'[u] # 0
  <2>1. Owed(u) /\ Owed(u)' /\ prefs'[u] = prefs[u] /\ marked'[u] = marked[u] /\ waited'[u] = waited[u]
    BY <1>2 DEF GoesOnWaiting
  <2>2. /\ Wide(u)' = Wide(u) /\ UntilOver(u)' = UntilOver(u) /\ Past(u, Wide(u))' = Past(u, Wide(u))
    BY <2>1 DEF Wide, UntilOver, Past
  <2>3. Ripe(u)' <=> Ripe(u)
    BY <2>1, <2>2 DEF Ripe
  <2>4. RipeNow(u)' <=> RipeNow(u)
    BY <2>1, <2>3 DEF RipeNow
  <2> QED
    BY <1>0, <1>2, <2>1, <2>2, <2>3, <2>4 DEF WaitsInTime
<1> QED
  BY <1>1, <1>2

LEMMA GatheringGoesOn ==
  ASSUME hourNow' = hourNow, \A u \in Addressees : GoesOnWaiting(u), NEW s \in Sweeping, Gathers(s),
         sweeps'[s].prompt => /\ sweeps[s].prompt
                              /\ \A x \in sweeps[s].left : x \in sweeps'[s].left \/ waited'[x[1]] = 0
  PROVE  Gathers(s)'
<1> SUFFICES ASSUME sweeps'[s].prompt, NEW u \in Addressees, RipeNow(u)', waited'[u] # 0
             PROVE  \E w \in Windows : <<u, w>> \in sweeps'[s].left
  BY DEF Gathers, Windows
<1>1. Owed(u) /\ prefs'[u] = prefs[u] /\ marked'[u] = marked[u] /\ waited[u] # 0
  BY DEF GoesOnWaiting
<1>2. RipeNow(u)
  BY <1>1 DEF RipeNow, Ripe, Past, Wide
<1> QED
  BY <1>1, <1>2 DEF Gathers

LEMMA StopsWaitingIs ==
  ASSUME InboxInv, NEW others, StopsWaiting(others),
         \A u \in Addressees \ others : prefs'[u] = prefs[u] /\ marked'[u] = marked[u]
  PROVE  waited' \in [Addressees -> Nat] /\ \A u \in Addressees : GoesOnWaiting(u) /\ (u \in others => waited'[u] = 0)
<1>1. ASSUME NEW u \in Addressees
      PROVE  /\ waited'[u] = IF u \in others \/ ~Owed(u)' THEN 0 ELSE waited[u]
             /\ ~Owed(u) => waited[u] = 0
  BY DEF StopsWaiting, InboxInv, WaitsInTime
<1>2. waited' \in [Addressees -> Nat]
  BY DEF StopsWaiting, InboxInv, InboxTypeOK
<1> QED
  BY <1>1, <1>2 DEF GoesOnWaiting

-----------------------------------------------------------------------------
(* People. *)

LEMMA PeopleGoOn ==
  ASSUME InboxInv, InboxTypeOK', UNCHANGED <<hourNow, sweepVars, mailed, unmarked, early, swept>>,
         \A u \in Addressees : GoesOnWaiting(u),
         \A u \in Addressees : standing'[u] = "erased" \/ (standing[u] # "erased" /\ marked'[u] = marked[u])
  PROVE  InboxInv'
<1>0. UNCHANGED sweeps /\ Sweeping' = Sweeping
  BY DEF sweepVars, Sweeping
<1>1. ASSUME NEW u \in Addressees PROVE MarkedAsMailed(u)' /\ WaitsInTime(u)'
  <2>1. MarkedAsMailed(u)'
    BY DEF InboxInv, MarkedAsMailed
  <2>2. WaitsInTime(u)'
    BY WaitingGoesOn
  <2> QED
    BY <2>1, <2>2
<1>2. ASSUME NEW s \in Sweeping PROVE KeepsWindows(s)' /\ Gathers(s)'
  <2>1. KeepsWindows(s)'
    BY <1>0 DEF InboxInv, KeepsWindows
  <2>2. Gathers(s)'
    BY <1>0, GatheringGoesOn DEF InboxInv
  <2> QED
    BY <2>1, <2>2
<1> QED
  BY <1>0, <1>1, <1>2 DEF InboxInv

LEMMA CreateStays ==
  ASSUME InboxInv, NEW n \in Notices, NEW u \in Addressees, Create(n, u)
  PROVE  InboxInv'
<1>0. InboxTypeOK /\ UNCHANGED <<hourNow, standing, prefs, sweepVars, digestVars, swept, waited>> /\ notices[n] = NoNotice
  BY DEF InboxInv, Create
<1>1. PICK new \in Notice : new = [to |-> u, read |-> FALSE]
  BY DEF Notice
<1>2. notices' = [notices EXCEPT ![n] = new]
  BY <1>1 DEF Create
<1>3. InboxTypeOK'
  BY <1>0, <1>2 DEF InboxTypeOK, sweepVars, digestVars
<1>4. ASSUME NEW v \in Addressees PROVE GoesOnWaiting(v)
  <2>1. Unread(v) \subseteq Unread(v)'
    BY <1>0, <1>2 DEF InboxTypeOK, Unread
  <2>2. Owed(v) => Owed(v)'
    BY <1>0, <2>1 DEF Owed
  <2>3. ~Owed(v) => waited[v] = 0
    BY DEF InboxInv, WaitsInTime
  <2> QED
    BY <1>0, <2>2, <2>3 DEF GoesOnWaiting, digestVars
<1> QED
  BY <1>0, <1>3, <1>4, PeopleGoOn DEF digestVars

LEMMA MarkReadStays ==
  ASSUME InboxInv, NEW u \in Addressees, NEW ns \in SUBSET Notices, MarkRead(ns, u)
  PROVE  InboxInv'
<1>0. /\ InboxTypeOK /\ UNCHANGED <<hourNow, standing, prefs, sweepVars, digestVars, swept>> /\ StopsWaiting({})
      /\ UNCHANGED marked
  BY DEF InboxInv, MarkRead, digestVars
<1>1. \A n \in Notices : n \in ns => notices[n] \in Notice
  BY <1>0 DEF MarkRead, Unread, InboxTypeOK
<1>2. \A x \in Notice : [x EXCEPT !.read = TRUE] \in Notice
  BY DEF Notice
<1>3. notices' \in [Notices -> Notice \cup {NoNotice}]
  BY <1>0, <1>1, <1>2 DEF MarkRead, InboxTypeOK
<1>4. waited' \in [Addressees -> Nat] /\ \A v \in Addressees : GoesOnWaiting(v)
  BY <1>0, StopsWaitingIs
<1>5. InboxTypeOK'
  BY <1>0, <1>3, <1>4 DEF InboxTypeOK, sweepVars, digestVars
<1> QED
  BY <1>0, <1>4, <1>5, PeopleGoOn DEF digestVars

LEMMA SetPreferencesStays ==
  ASSUME InboxInv, NEW u \in Addressees, NEW digest \in Digests, NEW hour \in Hours, SetPreferences(u, digest, hour)
  PROVE  InboxInv'
<1>0. /\ InboxTypeOK /\ UNCHANGED <<hourNow, standing, notices, sweepVars, digestVars, swept>> /\ StopsWaiting({u})
      /\ prefs' = [prefs EXCEPT ![u] = [digest |-> digest, hour |-> hour]] /\ UNCHANGED marked
      /\ hour \in 0 .. HoursPerDay - 1
  BY InboxAssumption DEF InboxInv, SetPreferences, digestVars
<1>1. prefs' \in [Addressees -> [digest : Digests, hour : 0 .. HoursPerDay - 1]]
  BY <1>0 DEF InboxTypeOK
<1>2. \A v \in Addressees \ {u} : prefs'[v] = prefs[v] /\ marked'[v] = marked[v]
  BY <1>0 DEF InboxTypeOK
<1>3. waited' \in [Addressees -> Nat] /\ \A v \in Addressees : GoesOnWaiting(v)
  BY <1>0, <1>2, StopsWaitingIs
<1>4. InboxTypeOK'
  BY <1>0, <1>1, <1>3 DEF InboxTypeOK, sweepVars, digestVars
<1> QED
  BY <1>0, <1>3, <1>4, PeopleGoOn DEF digestVars

LEMMA SetActiveStays ==
  ASSUME InboxInv, NEW u \in Addressees, NEW to \in {"active", "inactive"}, SetActive(u, to)
  PROVE  InboxInv'
<1>0. /\ InboxTypeOK /\ UNCHANGED <<hourNow, notices, prefs, sweepVars, digestVars, swept>> /\ StopsWaiting({u})
      /\ standing' = [standing EXCEPT ![u] = to] /\ UNCHANGED marked /\ standing[u] # "erased"
  BY DEF InboxInv, SetActive, digestVars
<1>1. waited' \in [Addressees -> Nat] /\ \A v \in Addressees : GoesOnWaiting(v)
  BY <1>0, StopsWaitingIs
<1>2. InboxTypeOK'
  BY <1>0, <1>1 DEF InboxTypeOK, sweepVars, digestVars
<1>3. \A v \in Addressees : standing'[v] = "erased" \/ (standing[v] # "erased" /\ marked'[v] = marked[v])
  BY <1>0 DEF InboxTypeOK
<1> QED
  BY <1>0, <1>1, <1>2, <1>3, PeopleGoOn DEF digestVars

LEMMA AnonymiseStays ==
  ASSUME InboxInv, NEW u \in Addressees, Anonymise(u)
  PROVE  InboxInv'
<1>0. /\ InboxTypeOK /\ UNCHANGED <<hourNow, sweepVars, mailed, unmarked, early, swept>> /\ StopsWaiting({u})
      /\ standing' = [standing EXCEPT ![u] = "erased"] /\ marked' = [marked EXCEPT ![u] = Never]
      /\ prefs' = [prefs EXCEPT ![u] = [digest |-> "off", hour |-> 0]]
  BY DEF InboxInv, Anonymise
<1>1. [digest |-> "off", hour |-> 0] \in [digest : Digests, hour : 0 .. HoursPerDay - 1]
  BY WindowSizes DEF Digests
<1>2. /\ prefs' \in [Addressees -> [digest : Digests, hour : 0 .. HoursPerDay - 1]]
      /\ notices' \in [Notices -> Notice \cup {NoNotice}]
  BY <1>0, <1>1 DEF InboxTypeOK, Anonymise
<1>3. \A v \in Addressees \ {u} : prefs'[v] = prefs[v] /\ marked'[v] = marked[v]
  BY <1>0 DEF InboxTypeOK
<1>4. waited' \in [Addressees -> Nat] /\ \A v \in Addressees : GoesOnWaiting(v)
  BY <1>0, <1>3, StopsWaitingIs
<1>5. InboxTypeOK'
  BY <1>0, <1>2, <1>4 DEF InboxTypeOK, sweepVars
<1>6. \A v \in Addressees : standing'[v] = "erased" \/ (standing[v] # "erased" /\ marked'[v] = marked[v])
  BY <1>0 DEF InboxTypeOK
<1> QED
  BY <1>0, <1>4, <1>5, <1>6, PeopleGoOn

LEMMA PurgeStays ==
  ASSUME InboxInv, NEW ns \in SUBSET Notices, Purge(ns)
  PROVE  InboxInv'
<1>0. /\ InboxTypeOK /\ UNCHANGED <<hourNow, standing, prefs, sweepVars, digestVars, swept>> /\ StopsWaiting({})
      /\ UNCHANGED marked
  BY DEF InboxInv, Purge, digestVars
<1>1. notices' \in [Notices -> Notice \cup {NoNotice}]
  BY <1>0 DEF Purge, InboxTypeOK
<1>2. waited' \in [Addressees -> Nat] /\ \A v \in Addressees : GoesOnWaiting(v)
  BY <1>0, StopsWaitingIs
<1>3. InboxTypeOK'
  BY <1>0, <1>1, <1>2 DEF InboxTypeOK, sweepVars, digestVars
<1> QED
  BY <1>0, <1>2, <1>3, PeopleGoOn DEF digestVars

-----------------------------------------------------------------------------
(* The sweeps. *)

LEMMA WhoIsDue ==
  ASSUME InboxInv, NEW sure \in BOOLEAN
  PROVE  /\ DueForDigest(sure) \in SUBSET (Addressees \X Windows)
         /\ \A u \in Addressees : RipeNow(u) => <<u, Wide(u)>> \in DueForDigest(sure)
         /\ \A x \in DueForDigest(sure) : /\ x[2] = Wide(x[1]) /\ x = <<x[1], x[2]>>
                                          /\ x[1] \in unmarked \/ mailed[x[1]] = Never \/ mailed[x[1]] >= x[2]
<1>0. InboxTypeOK
  BY DEF InboxInv
<1>1. \A x \in DueForDigest(sure) : /\ x[1] \in Addressees /\ x = <<x[1], Wide(x[1])>> /\ Owed(x[1])
                                    /\ marked[x[1]] = Never \/ marked[x[1]] > x[2] \/ marked[x[1]] = x[2]
  BY DEF DueForDigest, Wide, Past
<1>2. \A u \in Addressees : RipeNow(u) => <<u, Wide(u)>> \in DueForDigest(sure)
  BY DEF DueForDigest, Wide, Past, RipeNow, Ripe
<1>3. ASSUME NEW x \in DueForDigest(sure)
      PROVE  x[1] \in unmarked \/ mailed[x[1]] = Never \/ mailed[x[1]] >= x[2]
  <2> SUFFICES ASSUME x[1] \notin unmarked, mailed[x[1]] # Never PROVE mailed[x[1]] >= x[2]
    OBVIOUS
  <2>1. x[1] \in Addressees /\ x[2] = Wide(x[1]) /\ standing[x[1]] # "erased" /\ x[2] \in Windows
    BY <1>0, <1>1, WindowSizes DEF Owed
  <2>2. marked[x[1]] # Never /\ (mailed[x[1]] >= marked[x[1]] \/ mailed[x[1]] >= Longest)
    BY <2>1 DEF InboxInv, MarkedAsMailed
  <2>3. /\ marked[x[1]] \in Nat /\ mailed[x[1]] \in Nat /\ x[2] \in Nat /\ x[2] <= Longest /\ Longest \in Nat
        /\ marked[x[1]] >= x[2]
    BY <1>0, <1>1, <2>1, <2>2, WindowSizes DEF InboxTypeOK
  <2> QED
    BY <2>2, <2>3
<1>4. DueForDigest(sure) \in SUBSET (Addressees \X Windows)
  BY <1>0, <1>1, WindowSizes
<1> QED
  BY <1>1, <1>2, <1>3, <1>4

\* A step within an hour that changes no mark, mail or person.
LEMMA SweepsGoOn ==
  ASSUME InboxInv, InboxTypeOK', UNCHANGED <<hourNow, peopleVars, digestVars, waited>>,
         swept' => swept \/ \A u \in Addressees : RipeNow(u) => waited[u] = 0,
         \A s \in Sweeping' : KeepsWindows(s)' /\ Gathers(s)'
  PROVE  InboxInv'
<1>0. UNCHANGED <<marked, mailed, unmarked, early, standing, notices, prefs>>
  BY DEF digestVars, peopleVars
<1>1. ASSUME NEW u \in Addressees PROVE MarkedAsMailed(u)' /\ WaitsInTime(u)'
  <2>1. MarkedAsMailed(u)'
    BY <1>0 DEF InboxInv, MarkedAsMailed
  <2>2. Owed(u)' = Owed(u) /\ RipeNow(u)' = RipeNow(u)
    BY <1>0 DEF Owed, Unread, RipeNow, Ripe, Past, Wide
  <2>3. ~Owed(u) => waited[u] = 0
    BY DEF InboxInv, WaitsInTime
  <2>4. GoesOnWaiting(u)
    BY <1>0, <2>2, <2>3 DEF GoesOnWaiting
  <2>5. swept' => swept \/ (RipeNow(u)' => waited'[u] = 0)
    BY <2>2
  <2>6. WaitsInTime(u)'
    BY <2>4, <2>5, WaitingGoesOn
  <2> QED
    BY <2>1, <2>6
<1> QED
  BY <1>0, <1>1 DEF InboxInv

\* Of a sweep that goes on as it is, or is not alone any more.
LEMMA OtherSweepStays ==
  ASSUME InboxInv, UNCHANGED <<hourNow, peopleVars, digestVars, waited>>, NEW s \in Sweeping,
         sweeps'[s].left = sweeps[s].left, sweeps'[s].sent = sweeps[s].sent, sweeps'[s].prompt => sweeps[s].prompt,
         sweeps'[s].alone => sweeps[s].alone /\ Sweeping' \subseteq Sweeping /\ s \in Sweeping'
  PROVE  KeepsWindows(s)' /\ Gathers(s)'
<1>0. UNCHANGED <<marked, mailed, unmarked, standing, notices, prefs>>
  BY DEF digestVars, peopleVars
<1>1. KeepsWindows(s)'
  BY <1>0 DEF InboxInv, KeepsWindows
<1>2. ASSUME NEW u \in Addressees PROVE GoesOnWaiting(u)
  <2>1. Owed(u)' = Owed(u)
    BY <1>0 DEF Owed, Unread
  <2>2. ~Owed(u) => waited[u] = 0
    BY DEF InboxInv, WaitsInTime
  <2> QED
    BY <1>0, <2>1, <2>2 DEF GoesOnWaiting
<1>3. Gathers(s)'
  BY <1>2, GatheringGoesOn DEF InboxInv
<1> QED
  BY <1>1, <1>3

LEMMA RunStays ==
  ASSUME InboxInv, NEW s \in Sweeps, NEW sure \in BOOLEAN, NEW got \in BOOLEAN, Run(s, sure, got)
  PROVE  InboxInv'
<1>0. InboxTypeOK /\ sweeps[s] = NoSweep /\ UNCHANGED <<hourNow, peopleVars, digestVars, waited>>
  BY DEF InboxInv, Run
<1> DEFINE due == DueForDigest(sure)
<1>1. CASE due = {}
  <2>1. swept' = TRUE /\ UNCHANGED sweeps /\ Sweeping' = Sweeping
    BY <1>1 DEF Run, sweepVars, Sweeping
  <2>2. \A u \in Addressees : ~RipeNow(u)
    BY <1>1, WhoIsDue
  <2>3. InboxTypeOK'
    BY <1>0, <2>1 DEF InboxTypeOK, peopleVars, digestVars
  <2>4. ASSUME NEW z \in Sweeping PROVE KeepsWindows(z)' /\ Gathers(z)'
    <3>1. /\ sweeps'[z].left = sweeps[z].left /\ sweeps'[z].sent = sweeps[z].sent
          /\ sweeps'[z].prompt => sweeps[z].prompt
          /\ sweeps'[z].alone => sweeps[z].alone /\ Sweeping' \subseteq Sweeping /\ z \in Sweeping'
      BY <2>1
    <3> QED
      BY <1>0, <3>1, OtherSweepStays
  <2> QED
    BY <1>0, <2>1, <2>2, <2>3, <2>4, SweepsGoOn
<1>2. CASE due # {}
  <2>1. PICK new \in Sweep : new = [left |-> due, sent |-> {}, prompt |-> TRUE, alone |-> Sweeping = {}]
    <3>1. due \in SUBSET (Addressees \X Windows)
      BY WhoIsDue
    <3>2. (Sweeping = {}) \in BOOLEAN
      OBVIOUS
    <3> QED
      BY <3>1, <3>2, Zenon DEF Sweep
  <2>2. /\ sweeps' = [x \in Sweeps |-> IF x = s THEN new
                        ELSE IF sweeps[x] = NoSweep THEN NoSweep ELSE [sweeps[x] EXCEPT !.alone = FALSE]]
        /\ UNCHANGED swept
    BY <1>2, <2>1 DEF Run
  <2>3. new # NoSweep /\ new.left = due /\ new.sent = {} /\ (new.alone => Sweeping = {})
    BY <2>1, InboxAssumption
  <2>4. ASSUME NEW z \in Sweeping
        PROVE  /\ z # s /\ z \in Sweeps /\ sweeps'[z] \in Sweep /\ sweeps'[z] # NoSweep /\ ~sweeps'[z].alone
               /\ sweeps'[z].left = sweeps[z].left /\ sweeps'[z].sent = sweeps[z].sent
               /\ sweeps'[z].prompt = sweeps[z].prompt
    <3>1. z # s /\ z \in Sweeps /\ sweeps[z] \in Sweep /\ sweeps[z] # NoSweep
      BY <1>0, SweepFields DEF Sweeping
    <3>2. sweeps'[z] = [sweeps[z] EXCEPT !.alone = FALSE]
      BY <2>2, <3>1
    <3>3. sweeps'[z] \in Sweep
      BY <3>1, <3>2, SweepUpdates
    <3>4. sweeps'[z] # NoSweep
      BY <3>3, InboxAssumption
    <3>5. /\ ~sweeps'[z].alone /\ sweeps'[z].left = sweeps[z].left
          /\ sweeps'[z].sent = sweeps[z].sent /\ sweeps'[z].prompt = sweeps[z].prompt
      BY <3>1, <3>2 DEF Sweep
    <3> QED
      BY <3>1, <3>3, <3>4, <3>5
  <2>5. sweeps'[s] = new /\ \A z \in Sweeps \ {s} : z \notin Sweeping => sweeps'[z] = NoSweep
    BY <2>2 DEF Sweeping
  <2>6. Sweeping' = Sweeping \cup {s}
    BY <2>3, <2>4, <2>5 DEF Sweeping
  <2>7. sweeps' \in [Sweeps -> Sweep \cup {NoSweep}]
    <3>1. \A z \in Sweeps : sweeps'[z] \in Sweep \cup {NoSweep}
      BY <2>4, <2>5
    <3> QED
      BY <2>2, <3>1
  <2>8. InboxTypeOK'
    BY <1>0, <2>2, <2>7 DEF InboxTypeOK, peopleVars, digestVars
  <2>9. ASSUME NEW z \in Sweeping PROVE KeepsWindows(z)' /\ Gathers(z)'
    BY <1>0, <2>4, OtherSweepStays
  <2>10. KeepsWindows(s)'
    <3>1. UNCHANGED <<unmarked, mailed>>
      BY <1>0 DEF digestVars
    <3>2. new.alone => Sweeping' = {s}
      BY <2>3, <2>6
    <3>3. \A x, y \in due : x[1] = y[1] => x = y
      BY WhoIsDue
    <3>4. \A x \in due : x[1] \in unmarked \/ mailed[x[1]] = Never \/ mailed[x[1]] >= x[2]
      BY WhoIsDue
    <3> HIDE DEF due
    <3> QED
      BY <2>3, <2>5, <3>1, <3>2, <3>3, <3>4 DEF KeepsWindows
  <2>11. Gathers(s)'
    <3> SUFFICES ASSUME NEW u \in Addressees, RipeNow(u)' PROVE \E w \in Windows : <<u, w>> \in sweeps'[s].left
      BY DEF Gathers, Windows
    <3>1. RipeNow(u)
      BY <1>0 DEF RipeNow, Ripe, Owed, Unread, Past, Wide, peopleVars, digestVars
    <3>2. <<u, Wide(u)>> \in due /\ Wide(u) \in Windows
      BY <1>0, <3>1, WhoIsDue, WindowSizes DEF RipeNow, Ripe
    <3> QED
      BY <2>3, <2>5, <3>2
  <2> QED
    BY <1>0, <2>2, <2>6, <2>8, <2>9, <2>10, <2>11, SweepsGoOn
<1> QED
  BY <1>1, <1>2

\* A sweep ends, by itself or not.
LEMMA SweepEnds ==
  ASSUME InboxInv, InboxTypeOK', NEW s \in Sweeps, sweeps' = [sweeps EXCEPT ![s] = NoSweep],
         UNCHANGED <<hourNow, peopleVars, digestVars, waited>>,
         swept' => swept \/ \A u \in Addressees : RipeNow(u) => waited[u] = 0
  PROVE  InboxInv'
<1>0. InboxTypeOK
  BY DEF InboxInv
<1>1. Sweeping' = Sweeping \ {s} /\ \A z \in Sweeping \ {s} : sweeps'[z] = sweeps[z]
  BY <1>0 DEF Sweeping, InboxTypeOK
<1>2. ASSUME NEW z \in Sweeping' PROVE KeepsWindows(z)' /\ Gathers(z)'
  <2>1. /\ z \in Sweeping /\ sweeps'[z].left = sweeps[z].left /\ sweeps'[z].sent = sweeps[z].sent
        /\ sweeps'[z].prompt => sweeps[z].prompt
        /\ sweeps'[z].alone => sweeps[z].alone /\ Sweeping' \subseteq Sweeping /\ z \in Sweeping'
    BY <1>1
  <2> QED
    BY <2>1, OtherSweepStays
<1> QED
  BY <1>2, SweepsGoOn

LEMMA FinishStays ==
  ASSUME InboxInv, NEW s \in Sweeps, Finish(s)
  PROVE  InboxInv'
<1>0. /\ InboxTypeOK /\ s \in Sweeping /\ sweeps[s].left = {} /\ sweeps' = [sweeps EXCEPT ![s] = NoSweep]
      /\ swept' = (swept \/ sweeps[s].prompt) /\ UNCHANGED <<hourNow, peopleVars, digestVars, waited>>
  BY DEF InboxInv, Finish, Sweeping
<1>1. InboxTypeOK'
  <2>1. swept' \in BOOLEAN
    BY <1>0
  <2> QED
    BY <1>0, <2>1 DEF InboxTypeOK, peopleVars, digestVars
<1>2. sweeps[s].prompt => \A u \in Addressees : RipeNow(u) => waited[u] = 0
  BY <1>0 DEF InboxInv, Gathers
<1> QED
  BY <1>0, <1>1, <1>2, SweepEnds

LEMMA DieStays ==
  ASSUME InboxInv, NEW s \in Sweeps, Die(s)
  PROVE  InboxInv'
<1>0. /\ InboxTypeOK /\ sweeps' = [sweeps EXCEPT ![s] = NoSweep]
      /\ UNCHANGED <<hourNow, peopleVars, digestVars, swept, waited>>
  BY DEF InboxInv, Die
<1>1. InboxTypeOK'
  BY <1>0 DEF InboxTypeOK, peopleVars, digestVars
<1> QED
  BY <1>0, <1>1, SweepEnds

LEMMA LoseLockStays ==
  ASSUME InboxInv, UNCHANGED <<hourNow, peopleVars, sweeps, digestVars, swept, waited>>
  PROVE  InboxInv'
<1>1. InboxTypeOK' /\ Sweeping' = Sweeping
  BY DEF InboxInv, InboxTypeOK, peopleVars, digestVars, Sweeping
<1>2. ASSUME NEW z \in Sweeping PROVE KeepsWindows(z)' /\ Gathers(z)'
  <2>1. /\ sweeps'[z].left = sweeps[z].left /\ sweeps'[z].sent = sweeps[z].sent
        /\ sweeps'[z].prompt => sweeps[z].prompt
        /\ sweeps'[z].alone => sweeps[z].alone /\ Sweeping' \subseteq Sweeping /\ z \in Sweeping'
    BY <1>1
  <2> QED
    BY <2>1, OtherSweepStays
<1> QED
  BY <1>1, <1>2, SweepsGoOn

LEMMA SendFailsStays ==
  ASSUME InboxInv, NEW s \in Sweeps, NEW u \in Addressees, NEW w \in Windows, SendFails(s, u, w)
  PROVE  InboxInv'
<1>0. /\ InboxTypeOK /\ s \in Sweeping /\ sweeps[s] \in Sweep
      /\ UNCHANGED <<hourNow, peopleVars, digestVars, swept, waited>>
  BY SweepFields DEF InboxInv, SendFails, Sweeping
<1>1. PICK left \in SUBSET (Addressees \X Windows) : left = sweeps[s].left \ {<<u, w>>}
  BY <1>0 DEF Sweep
<1>2. PICK new \in Sweep : new = [sweeps[s] EXCEPT !.left = left, !.prompt = FALSE]
  BY <1>0, SweepUpdates
<1>3. /\ new.left = left /\ new.sent = sweeps[s].sent /\ new.prompt = FALSE /\ new.alone = sweeps[s].alone
      /\ new # NoSweep
  BY <1>0, <1>2, InboxAssumption DEF Sweep
<1>4. sweeps' = [sweeps EXCEPT ![s] = new]
  BY <1>0, <1>1, <1>2 DEF SendFails, InboxTypeOK
<1>5. sweeps' \in [Sweeps -> Sweep \cup {NoSweep}] /\ sweeps'[s] = new /\ \A z \in Sweeps \ {s} : sweeps'[z] = sweeps[z]
  BY <1>0, <1>4 DEF InboxTypeOK
<1>6. InboxTypeOK' /\ Sweeping' = Sweeping
  BY <1>0, <1>3, <1>5 DEF InboxTypeOK, peopleVars, digestVars, Sweeping
<1>7. ASSUME NEW z \in Sweeping \ {s} PROVE KeepsWindows(z)' /\ Gathers(z)'
  <2>1. /\ sweeps'[z].left = sweeps[z].left /\ sweeps'[z].sent = sweeps[z].sent
        /\ sweeps'[z].prompt => sweeps[z].prompt
        /\ sweeps'[z].alone => sweeps[z].alone /\ Sweeping' \subseteq Sweeping /\ z \in Sweeping'
    BY <1>5, <1>6 DEF Sweeping
  <2> QED
    BY <1>0, <2>1, OtherSweepStays
<1>8. KeepsWindows(s)' /\ Gathers(s)'
  <2>1. KeepsWindows(s)'
    BY <1>0, <1>1, <1>3, <1>5, <1>6 DEF InboxInv, KeepsWindows, digestVars
  <2> QED
    BY <1>3, <1>5, <2>1 DEF Gathers
<1> QED
  BY <1>0, <1>6, <1>7, <1>8, SweepsGoOn

LEMMA SendDigestStays ==
  ASSUME InboxInv, NEW s \in Sweeps, NEW u \in Addressees, NEW w \in Windows, SendDigest(s, u, w)
  PROVE  InboxInv'
<1>0. /\ InboxTypeOK /\ s \in Sweeping /\ sweeps[s] \in Sweep /\ sweeps[s].sent = {} /\ <<u, w>> \in sweeps[s].left
      /\ mailed' = [mailed EXCEPT ![u] = 0] /\ unmarked' = unmarked \cup {u}
      /\ UNCHANGED <<hourNow, peopleVars, marked, swept>> /\ StopsWaiting({u}) /\ early = {}
  BY SweepFields DEF InboxInv, SendDigest, Sweeping
<1>1. PICK left \in SUBSET (Addressees \X Windows) : left = sweeps[s].left \ {<<u, w>>}
  BY <1>0 DEF Sweep
<1>2. PICK new \in Sweep : new = [sweeps[s] EXCEPT !.left = left, !.sent = {u}]
  BY <1>0, SweepUpdates
<1>3. /\ new.left = left /\ new.sent = {u} /\ new.prompt = sweeps[s].prompt /\ new.alone = sweeps[s].alone
      /\ new # NoSweep
  BY <1>0, <1>2, InboxAssumption DEF Sweep
<1>4. sweeps' = [sweeps EXCEPT ![s] = new]
  BY <1>0, <1>1, <1>2 DEF SendDigest, InboxTypeOK
<1>5. sweeps' \in [Sweeps -> Sweep \cup {NoSweep}] /\ sweeps'[s] = new /\ \A z \in Sweeps \ {s} : sweeps'[z] = sweeps[z]
  BY <1>0, <1>4 DEF InboxTypeOK
<1>6. waited' \in [Addressees -> Nat] /\ \A v \in Addressees : GoesOnWaiting(v) /\ (v \in {u} => waited'[v] = 0)
  <2>1. \A v \in Addressees \ {u} : prefs'[v] = prefs[v] /\ marked'[v] = marked[v]
    BY <1>0 DEF peopleVars
  <2> QED
    BY <1>0, <2>1, StopsWaitingIs
<1>7. /\ mailed' \in [Addressees -> Nat \cup {Never}] /\ mailed'[u] = 0
      /\ \A v \in Addressees \ {u} : mailed'[v] = mailed[v]
  BY <1>0 DEF InboxTypeOK
<1>8. InboxTypeOK' /\ Sweeping' = Sweeping
  BY <1>0, <1>3, <1>5, <1>6, <1>7 DEF InboxTypeOK, peopleVars, Sweeping
<1>9. early' = {}
  <2>1. sweeps[s].alone => u \in unmarked \/ mailed[u] = Never \/ mailed[u] >= w
    BY <1>0 DEF InboxInv, KeepsWindows
  <2>2. mailed[u] # Never => mailed[u] \in Nat /\ w \in Nat
    BY <1>0, WindowSizes DEF InboxTypeOK
  <2>3. ~(mailed[u] # Never /\ mailed[u] < w /\ u \notin unmarked /\ sweeps[s].alone)
    BY <2>1, <2>2
  <2> QED
    BY <1>0, <2>3 DEF SendDigest
<1>10. ASSUME NEW v \in Addressees PROVE MarkedAsMailed(v)' /\ WaitsInTime(v)'
  <2>1. MarkedAsMailed(v)'
    BY <1>0, <1>7 DEF InboxInv, MarkedAsMailed, peopleVars
  <2>2. WaitsInTime(v)'
    BY <1>0, <1>6, <1>8, WaitingGoesOn
  <2> QED
    BY <2>1, <2>2
<1>11. ASSUME NEW z \in Sweeping PROVE KeepsWindows(z)' /\ Gathers(z)'
  <2>1. Gathers(z)'
    <3>1. sweeps'[z].prompt => /\ sweeps[z].prompt
                               /\ \A x \in sweeps[z].left : x \in sweeps'[z].left \/ waited'[x[1]] = 0
      <4>1. CASE z = s
        BY <1>1, <1>3, <1>5, <1>6, <4>1
      <4>2. CASE z # s
        BY <1>5, <4>2 DEF Sweeping
      <4> QED
        BY <4>1, <4>2
    <3>2. Gathers(z)
      BY DEF InboxInv
    <3> QED
      BY <1>0, <1>6, <3>1, <3>2, GatheringGoesOn
  <2>2. KeepsWindows(z)'
    <3>1. CASE z = s
      <4> SUFFICES ASSUME sweeps[s].alone PROVE KeepsWindows(s)'
        BY <1>3, <1>5, <3>1 DEF KeepsWindows
      <4>1. /\ Sweeping = {s} /\ \A x, y \in sweeps[s].left : x[1] = y[1] => x = y
            /\ \A x \in sweeps[s].left : x[1] \in unmarked \/ mailed[x[1]] = Never \/ mailed[x[1]] >= x[2]
        BY <1>0 DEF InboxInv, KeepsWindows
      <4>2. ASSUME NEW x \in left
            PROVE  x[1] \notin {u} /\ (x[1] \in unmarked' \/ mailed'[x[1]] = Never \/ mailed'[x[1]] >= x[2])
        <5>1. x \in sweeps[s].left /\ x # <<u, w>> /\ x[1] \in Addressees
          BY <1>1
        <5>2. x[1] # u
          BY <1>0, <4>1, <5>1
        <5> QED
          BY <1>0, <1>7, <4>1, <5>1, <5>2
      <4>3. \A x, y \in left : x[1] = y[1] => x = y
        BY <1>1, <4>1
      <4> QED
        BY <1>3, <1>5, <1>8, <4>1, <4>2, <4>3 DEF KeepsWindows
    <3>2. CASE z # s
      <4>1. sweeps'[z] = sweeps[z] /\ ~sweeps[z].alone
        BY <1>0, <1>5, <3>2 DEF InboxInv, KeepsWindows, Sweeping
      <4> QED
        BY <4>1 DEF KeepsWindows
    <3> QED
      BY <3>1, <3>2
  <2> QED
    BY <2>1, <2>2
<1> QED
  BY <1>8, <1>9, <1>10, <1>11 DEF InboxInv

LEMMA MarkDigestSentStays ==
  ASSUME InboxInv, NEW s \in Sweeps, NEW works \in BOOLEAN, MarkDigestSent(s, works)
  PROVE  InboxInv'
<1>0. /\ InboxTypeOK /\ s \in Sweeping /\ sweeps[s] \in Sweep
      /\ UNCHANGED <<hourNow, standing, notices, prefs, mailed, early, swept>> /\ early = {}
  BY SweepFields DEF InboxInv, MarkDigestSent, Sweeping, peopleVars
<1>1. PICK new \in Sweep : new = [sweeps[s] EXCEPT !.sent = {}]
  BY <1>0, SweepUpdates
<1>2. /\ new.left = sweeps[s].left /\ new.sent = {} /\ new.prompt = sweeps[s].prompt /\ new.alone = sweeps[s].alone
      /\ new # NoSweep
  BY <1>0, <1>1, InboxAssumption DEF Sweep
<1>3. sweeps' = [sweeps EXCEPT ![s] = new]
  BY <1>0, <1>1 DEF MarkDigestSent, InboxTypeOK
<1>4. sweeps' \in [Sweeps -> Sweep \cup {NoSweep}] /\ sweeps'[s] = new /\ \A z \in Sweeps \ {s} : sweeps'[z] = sweeps[z]
  BY <1>0, <1>3 DEF InboxTypeOK
<1>5. /\ waited' \in [Addressees -> Nat] /\ \A v \in Addressees : GoesOnWaiting(v)
      /\ marked' \in [Addressees -> Nat \cup {Never}]
      /\ \A v \in Addressees : \/ marked'[v] = marked[v] /\ (v \in unmarked' <=> v \in unmarked)
                               \/ v \in sweeps[s].sent /\ marked'[v] = 0
                               \/ standing[v] = "erased" /\ (v \in unmarked => v \in unmarked' \/ v \in sweeps[s].sent)
      /\ unmarked \ sweeps[s].sent \subseteq unmarked'
  <2>1. CASE works
    <3>1. /\ marked' = [v \in Addressees |-> IF v \in sweeps[s].sent /\ standing[v] # "erased" THEN 0 ELSE marked[v]]
          /\ unmarked' = unmarked \ sweeps[s].sent /\ StopsWaiting(sweeps[s].sent)
      BY <2>1 DEF MarkDigestSent
    <3>2. \A v \in Addressees \ sweeps[s].sent : prefs'[v] = prefs[v] /\ marked'[v] = marked[v]
      BY <1>0, <3>1
    <3>3. waited' \in [Addressees -> Nat] /\ \A v \in Addressees : GoesOnWaiting(v)
      BY <3>1, <3>2, StopsWaitingIs
    <3>4. marked' \in [Addressees -> Nat \cup {Never}]
      BY <1>0, <3>1 DEF InboxTypeOK
    <3> QED
      BY <3>1, <3>3, <3>4
  <2>2. CASE ~works
    <3>1. UNCHANGED <<marked, unmarked, waited>>
      BY <2>2 DEF MarkDigestSent
    <3>2. ASSUME NEW v \in Addressees PROVE GoesOnWaiting(v)
      <4>1. Owed(v)' = Owed(v)
        BY <1>0 DEF Owed, Unread
      <4>2. ~Owed(v) => waited[v] = 0
        BY DEF InboxInv, WaitsInTime
      <4> QED
        BY <1>0, <3>1, <4>1, <4>2 DEF GoesOnWaiting
    <3> QED
      BY <1>0, <3>1, <3>2 DEF InboxTypeOK
  <2> QED
    BY <2>1, <2>2
<1>6. InboxTypeOK' /\ Sweeping' = Sweeping
  BY <1>0, <1>2, <1>4, <1>5 DEF InboxTypeOK, Sweeping
<1>7. ASSUME NEW v \in Addressees PROVE MarkedAsMailed(v)' /\ WaitsInTime(v)'
  <2>1. MarkedAsMailed(v)'
    <3>1. mailed[v] # Never => mailed[v] \in Nat /\ mailed[v] >= 0
      BY <1>0 DEF InboxTypeOK
    <3>2. MarkedAsMailed(v) /\ 0 # Never
      BY InboxAssumption DEF InboxInv
    <3> QED
      BY <1>0, <1>5, <3>1, <3>2 DEF MarkedAsMailed
  <2>2. WaitsInTime(v)'
    BY <1>0, <1>5, <1>6, WaitingGoesOn
  <2> QED
    BY <2>1, <2>2
<1>8. ASSUME NEW z \in Sweeping PROVE KeepsWindows(z)' /\ Gathers(z)'
  <2>1. /\ sweeps'[z].left = sweeps[z].left /\ sweeps'[z].prompt = sweeps[z].prompt
        /\ sweeps'[z].alone = sweeps[z].alone
    BY <1>2, <1>4 DEF Sweeping
  <2>2. Gathers(z)'
    <3>1. Gathers(z)
      BY DEF InboxInv
    <3> QED
      BY <1>0, <1>5, <2>1, <3>1, GatheringGoesOn
  <2>3. KeepsWindows(z)'
    <3> SUFFICES ASSUME sweeps[z].alone PROVE KeepsWindows(z)'
      BY <2>1 DEF KeepsWindows
    <3>1. z = s /\ KeepsWindows(s)
      BY <1>0 DEF InboxInv, KeepsWindows
    <3>2. \A x \in sweeps[s].left : /\ x[1] \notin sweeps[s].sent
                                    /\ x[1] \in unmarked' \/ mailed'[x[1]] = Never \/ mailed'[x[1]] >= x[2]
      BY <1>0, <1>5, <3>1 DEF KeepsWindows
    <3> QED
      BY <1>2, <1>4, <1>6, <3>1, <3>2 DEF KeepsWindows
  <2> QED
    BY <2>2, <2>3
<1> QED
  BY <1>0, <1>6, <1>7, <1>8 DEF InboxInv

-----------------------------------------------------------------------------
(* The hour. *)

\* The end of anybody's hour comes nearer, until it is over.
LEMMA NextHour ==
  ASSUME InboxTypeOK, hourNow' = (hourNow + 1) % HoursPerDay, UNCHANGED prefs, NEW u \in Addressees
  PROVE  /\ hourNow' \in 0 .. HoursPerDay - 1
         /\ UntilOver(u) \in Nat /\ UntilOver(u)' \in Nat /\ UntilOver(u)' < HoursPerDay
         /\ prefs[u].hour # hourNow => UntilOver(u)' + 1 = UntilOver(u)
<1>1. PICK h \in 0 .. HoursPerDay - 1, now \in 0 .. HoursPerDay - 1 : h = prefs[u].hour /\ now = hourNow
  BY DEF InboxTypeOK
<1>2. hourNow' = IF now + 1 = HoursPerDay THEN 0 ELSE now + 1
  BY <1>1, WindowSizes
<1>3. UntilOver(u) = IF now <= h THEN h - now ELSE h + HoursPerDay - now
  BY <1>1 DEF UntilOver
<1>4. UntilOver(u)' = IF hourNow' <= h THEN h - hourNow' ELSE h + HoursPerDay - hourNow'
  BY <1>1 DEF UntilOver
<1> QED
  BY <1>1, <1>2, <1>3, <1>4, WindowSizes

LEMMA HourPassesStays ==
  ASSUME InboxInv, HourPasses
  PROVE  InboxInv'
<1>0. /\ InboxTypeOK /\ UNCHANGED <<standing, notices, prefs, unmarked, early>> /\ early = {} /\ swept' = FALSE
      /\ hourNow' = (hourNow + 1) % HoursPerDay
  BY DEF InboxInv, HourPasses, peopleVars
<1>1. /\ Longest \in Nat /\ Longest + 1 \in Nat /\ Longest + HoursPerDay + 1 \in Nat
  BY WindowSizes
<1>2. ASSUME NEW u \in Addressees
      PROVE  /\ mailed'[u] \in Nat \cup {Never} /\ (mailed[u] = Never <=> mailed'[u] = Never)
             /\ mailed[u] # Never => mailed'[u] >= mailed[u] /\ (mailed[u] < Longest => mailed'[u] = mailed[u] + 1)
             /\ marked'[u] \in Nat \cup {Never} /\ (marked[u] = Never <=> marked'[u] = Never)
             /\ marked[u] # Never => /\ marked'[u] >= marked[u] /\ marked'[u] <= marked[u] + 1
                                     /\ marked[u] <= Longest => marked'[u] = marked[u] + 1
  <2>1. mailed'[u] = Later(mailed[u], Longest) /\ marked'[u] = Later(marked[u], Longest + 1)
    BY DEF HourPasses
  <2>2. Never \notin Nat
    BY InboxAssumption
  <2>3. mailed[u] \in Nat \cup {Never} /\ marked[u] \in Nat \cup {Never}
    BY <1>0 DEF InboxTypeOK
  <2>4. /\ mailed[u] = Never => mailed'[u] = Never
        /\ mailed[u] \in Nat => /\ mailed'[u] \in Nat /\ mailed'[u] >= mailed[u]
                                /\ mailed[u] < Longest => mailed'[u] = mailed[u] + 1
    BY <1>1, <2>1, LaterIs, LaterNever
  <2>5. /\ marked[u] = Never => marked'[u] = Never
        /\ marked[u] \in Nat => /\ marked'[u] \in Nat /\ marked'[u] >= marked[u] /\ marked'[u] <= marked[u] + 1
                                /\ marked[u] < Longest + 1 => marked'[u] = marked[u] + 1
    BY <1>1, <2>1, LaterIs, LaterNever
  <2> QED
    BY <1>1, <2>2, <2>3, <2>4, <2>5
<1>3. ASSUME NEW u \in Addressees
      PROVE  /\ waited'[u] \in Nat /\ Owed(u)' = Owed(u)
             /\ waited'[u] = 0 \/ (/\ Owed(u) /\ waited'[u] <= waited[u] + 1
                                   /\ prefs[u].hour = hourNow => swept)
  <2>1. Owed(u)' = Owed(u)
    BY <1>0 DEF Owed, Unread
  <2>2. waited'[u] = IF ~Owed(u) \/ (prefs[u].hour = hourNow /\ ~swept) THEN 0
                     ELSE Later(waited[u], Longest + HoursPerDay + 1)
    BY DEF HourPasses
  <2>3. waited[u] \in Nat
    BY <1>0 DEF InboxTypeOK
  <2>4. /\ Later(waited[u], Longest + HoursPerDay + 1) \in Nat
        /\ Later(waited[u], Longest + HoursPerDay + 1) <= waited[u] + 1
    BY <1>1, <2>3, LaterIs
  <2>5. CASE ~Owed(u) \/ (prefs[u].hour = hourNow /\ ~swept)
    BY <2>1, <2>2, <2>5
  <2>6. CASE ~(~Owed(u) \/ (prefs[u].hour = hourNow /\ ~swept))
    <3>1. waited'[u] = Later(waited[u], Longest + HoursPerDay + 1)
      BY <2>2, <2>6
    <3> QED
      BY <2>1, <2>4, <2>6, <3>1
  <2> QED
    BY <2>5, <2>6
<1>4. /\ waited' \in [Addressees -> Nat] /\ mailed' \in [Addressees -> Nat \cup {Never}]
      /\ marked' \in [Addressees -> Nat \cup {Never}]
  <2>1. DOMAIN waited' = Addressees /\ waited' = [u \in Addressees |-> waited'[u]]
    BY DEF HourPasses
  <2>2. mailed' = [u \in Addressees |-> mailed'[u]] /\ marked' = [u \in Addressees |-> marked'[u]]
    BY DEF HourPasses
  <2> QED
    BY <1>2, <1>3, <2>1, <2>2
<1>5. ASSUME NEW z \in Sweeping
      PROVE  /\ sweeps'[z] \in Sweep /\ sweeps'[z] # NoSweep /\ ~sweeps'[z].prompt
             /\ sweeps'[z].left = sweeps[z].left /\ sweeps'[z].sent = sweeps[z].sent
             /\ sweeps'[z].alone = sweeps[z].alone
  <2>1. sweeps[z] \in Sweep /\ sweeps[z] # NoSweep /\ z \in Sweeps
    BY <1>0, SweepFields
  <2>2. sweeps'[z] = [sweeps[z] EXCEPT !.prompt = FALSE]
    BY <2>1 DEF HourPasses
  <2>3. sweeps'[z] \in Sweep
    BY <2>1, <2>2, SweepUpdates
  <2> QED
    BY <2>1, <2>2, <2>3, InboxAssumption DEF Sweep
<1>6. \A z \in Sweeps \ Sweeping : sweeps'[z] = NoSweep
  BY DEF HourPasses, Sweeping
<1>7. sweeps' \in [Sweeps -> Sweep \cup {NoSweep}] /\ Sweeping' = Sweeping
  <2>1. sweeps' = [z \in Sweeps |-> sweeps'[z]]
    BY DEF HourPasses
  <2>2. \A z \in Sweeps : sweeps'[z] \in Sweep \cup {NoSweep}
    BY <1>5, <1>6
  <2>3. Sweeping' = Sweeping
    BY <1>5, <1>6 DEF Sweeping
  <2> QED
    BY <2>1, <2>2, <2>3
<1>8. hourNow' \in 0 .. HoursPerDay - 1
  <2>1. PICK now \in 0 .. HoursPerDay - 1 : now = hourNow
    BY <1>0 DEF InboxTypeOK
  <2> QED
    BY <1>0, <2>1, WindowSizes
<1>9. InboxTypeOK'
  BY <1>0, <1>4, <1>7, <1>8 DEF InboxTypeOK
<1>10. ASSUME NEW u \in Addressees PROVE MarkedAsMailed(u)'
  <2>1. MarkedAsMailed(u)
    BY DEF InboxInv
  <2>2. mailed[u] \in Nat \cup {Never} /\ marked[u] \in Nat \cup {Never}
    BY <1>0 DEF InboxTypeOK
  <2> SUFFICES ASSUME u \notin unmarked, standing[u] # "erased", mailed'[u] # Never
               PROVE  marked'[u] # Never /\ (mailed'[u] >= marked'[u] \/ mailed'[u] >= Longest)
    BY <1>0 DEF MarkedAsMailed
  <2>3. /\ mailed[u] \in Nat /\ marked[u] \in Nat /\ mailed'[u] \in Nat /\ marked'[u] \in Nat /\ marked'[u] # Never
        /\ mailed[u] >= marked[u] \/ mailed[u] >= Longest
    BY <1>2, <2>1, <2>2 DEF MarkedAsMailed
  <2>4. /\ mailed'[u] >= mailed[u] /\ marked'[u] <= marked[u] + 1
        /\ mailed[u] < Longest => mailed'[u] = mailed[u] + 1
    BY <1>2, <2>3, InboxAssumption
  <2> QED
    BY <1>1, <2>3, <2>4
<1>11. ASSUME NEW u \in Addressees PROVE WaitsInTime(u)'
  <2>1. WaitsInTime(u)
    BY DEF InboxInv
  <2>2. /\ Wide(u)' = Wide(u) /\ Owed(u)' = Owed(u)
    BY <1>0, <1>3 DEF Wide
  <2>3. ~Owed(u) => waited'[u] = 0
    BY <1>3
  <2> SUFFICES ASSUME Owed(u)
               PROVE  /\ ~Past(u, Wide(u))' => waited'[u] <= marked'[u]
                      /\ Past(u, Wide(u))' => waited'[u] + UntilOver(u)' <= Wide(u) + HoursPerDay
    BY <1>0, <2>2, <2>3 DEF WaitsInTime, Ripe
  <2>4. PICK w \in Windows : w = Wide(u)
    BY <1>0, WindowSizes
  <2>5. w \in Nat /\ w <= Longest /\ Longest \in Nat /\ HoursPerDay \in Nat /\ HoursPerDay > 0
    BY WindowSizes
  <2>6. waited[u] \in Nat /\ waited'[u] \in Nat /\ marked[u] \in Nat \cup {Never}
    BY <1>0, <1>3 DEF InboxTypeOK
  <2>7. /\ UntilOver(u) \in Nat /\ UntilOver(u)' \in Nat /\ UntilOver(u)' < HoursPerDay
        /\ prefs[u].hour # hourNow => UntilOver(u)' + 1 = UntilOver(u)
    BY <1>0, NextHour
  <2>8. Past(u, Wide(u))' <=> marked'[u] = Never \/ marked'[u] > w
    BY <2>2, <2>4 DEF Past
  <2>9. Past(u, Wide(u)) <=> marked[u] = Never \/ marked[u] > w
    BY <2>4 DEF Past
  <2>10. CASE ~Past(u, Wide(u))
    <3>1. marked[u] \in Nat /\ marked[u] <= w /\ waited[u] <= marked[u] /\ marked'[u] = marked[u] + 1
      BY <1>2, <2>1, <2>5, <2>6, <2>9, <2>10 DEF WaitsInTime
    <3>2. waited'[u] <= waited[u] + 1
      BY <1>3, <2>6
    <3> QED
      BY <2>4, <2>5, <2>6, <2>7, <3>1, <3>2
  <2>11. CASE Past(u, Wide(u))
    <3>1. Past(u, Wide(u))'
      <4>1. marked[u] = Never => marked'[u] = Never
        BY <1>2
      <4>2. marked[u] \in Nat => marked'[u] \in Nat /\ marked'[u] >= marked[u]
        BY <1>2, InboxAssumption
      <4> QED
        BY <2>5, <2>6, <2>8, <2>9, <2>11, <4>1, <4>2
    <3>2. waited[u] + UntilOver(u) <= w + HoursPerDay
      BY <2>1, <2>4, <2>11 DEF WaitsInTime, Ripe
    <3>3. CASE waited'[u] = 0
      BY <2>4, <2>5, <2>7, <3>1, <3>3
    <3>4. CASE waited'[u] # 0 /\ prefs[u].hour # hourNow
      <4>1. waited'[u] <= waited[u] + 1
        BY <1>3, <3>4
      <4> QED
        BY <2>4, <2>5, <2>6, <2>7, <3>1, <3>2, <3>4, <4>1
    <3>5. CASE waited'[u] # 0 /\ prefs[u].hour = hourNow
      <4>1. swept /\ RipeNow(u) /\ waited'[u] <= waited[u] + 1
        BY <1>3, <2>11, <3>5 DEF RipeNow, Ripe
      <4>2. waited[u] = 0
        BY <2>1, <4>1 DEF WaitsInTime
      <4> QED
        BY <2>4, <2>5, <2>6, <2>7, <3>1, <4>1, <4>2
    <3> QED
      BY <3>3, <3>4, <3>5
  <2> QED
    BY <2>10, <2>11
<1>12. ASSUME NEW z \in Sweeping PROVE KeepsWindows(z)' /\ Gathers(z)'
  <2>1. Gathers(z)'
    BY <1>5 DEF Gathers
  <2>2. KeepsWindows(z)'
    <3> SUFFICES ASSUME sweeps[z].alone, NEW x \in sweeps[z].left
                 PROVE  x[1] \in unmarked \/ mailed'[x[1]] = Never \/ mailed'[x[1]] >= x[2]
      BY <1>0, <1>5, <1>7 DEF InboxInv, KeepsWindows
    <3>1. x[1] \in Addressees /\ x[2] \in Windows /\ x[2] \in Nat
      BY <1>0, SweepFields, WindowSizes DEF Sweep
    <3>2. x[1] \in unmarked \/ mailed[x[1]] = Never \/ mailed[x[1]] >= x[2]
      BY DEF InboxInv, KeepsWindows
    <3>3. mailed[x[1]] \in Nat \cup {Never}
      BY <1>0, <3>1 DEF InboxTypeOK
    <3>4. /\ mailed[x[1]] = Never => mailed'[x[1]] = Never
          /\ mailed[x[1]] # Never => mailed'[x[1]] \in Nat \cup {Never} /\ mailed'[x[1]] >= mailed[x[1]] /\ mailed'[x[1]] # Never
      BY <1>2, <3>1
    <3> QED
      BY <3>1, <3>2, <3>3, <3>4
  <2> QED
    BY <2>1, <2>2
<1> QED
  BY <1>0, <1>7, <1>9, <1>10, <1>11, <1>12 DEF InboxInv

-----------------------------------------------------------------------------

LEMMA InboxBegins ==
  InboxInit => InboxInv
<1> SUFFICES ASSUME InboxInit PROVE InboxInv
  OBVIOUS
<1>1. InboxTypeOK /\ Sweeping = {}
  <2>1. 0 \in 0 .. HoursPerDay - 1 /\ "off" \in Digests /\ "active" \in {"active", "inactive", "erased"}
    BY WindowSizes DEF Digests
  <2>2. [digest |-> "off", hour |-> 0] \in [digest : Digests, hour : 0 .. HoursPerDay - 1]
    BY <2>1
  <2>3. Sweeping = {}
    BY DEF InboxInit, Sweeping
  <2> QED
    BY <2>1, <2>2, <2>3 DEF InboxInit, InboxTypeOK
<1>2. ASSUME NEW u \in Addressees PROVE MarkedAsMailed(u) /\ WaitsInTime(u)
  <2>1. ~Owed(u)
    BY DEF InboxInit, Owed
  <2> QED
    BY <2>1 DEF InboxInit, MarkedAsMailed, WaitsInTime, Ripe, RipeNow
<1> QED
  BY <1>1, <1>2 DEF InboxInv, InboxInit

LEMMA InboxGoesOn ==
  InboxInv /\ [InboxNext]_inboxVars => InboxInv'
<1> SUFFICES ASSUME InboxInv, [InboxNext]_inboxVars PROVE InboxInv'
  OBVIOUS
<1>1. CASE UNCHANGED inboxVars
  BY <1>1, LoseLockStays DEF inboxVars, sweepVars
<1>2. ASSUME NEW u \in Addressees, NEW n \in Notices, Create(n, u) PROVE InboxInv'
  BY <1>2, CreateStays
<1>3. ASSUME NEW u \in Addressees, NEW ns \in SUBSET Notices, MarkRead(ns, u) PROVE InboxInv'
  BY <1>3, MarkReadStays
<1>4. ASSUME NEW u \in Addressees, NEW digest \in {"off", "daily", "weekly"}, NEW hour \in Hours,
             SetPreferences(u, digest, hour)
      PROVE  InboxInv'
  BY <1>4, SetPreferencesStays DEF Digests
<1>5. ASSUME NEW u \in Addressees, NEW to \in {"active", "inactive"}, SetActive(u, to) PROVE InboxInv'
  BY <1>5, SetActiveStays
<1>6. ASSUME NEW u \in Addressees, Anonymise(u) PROVE InboxInv'
  BY <1>6, AnonymiseStays
<1>7. ASSUME NEW u \in Addressees, NEW s \in Sweeps, NEW w \in Windows, SendDigest(s, u, w) PROVE InboxInv'
  BY <1>7, SendDigestStays
<1>8. ASSUME NEW u \in Addressees, NEW s \in Sweeps, NEW w \in Windows, SendFails(s, u, w) PROVE InboxInv'
  BY <1>8, SendFailsStays
<1>9. ASSUME NEW ns \in SUBSET Notices, Purge(ns) PROVE InboxInv'
  BY <1>9, PurgeStays
<1>10. ASSUME NEW s \in Sweeps, NEW sure \in BOOLEAN, NEW got \in BOOLEAN, Run(s, sure, got) PROVE InboxInv'
  BY <1>10, RunStays
<1>11. ASSUME NEW s \in Sweeps, Finish(s) PROVE InboxInv'
  BY <1>11, FinishStays
<1>12. ASSUME NEW s \in Sweeps, Die(s) PROVE InboxInv'
  BY <1>12, DieStays
<1>13. ASSUME NEW s \in Sweeps, LoseLock(s) PROVE InboxInv'
  BY <1>13, LoseLockStays DEF LoseLock
<1>14. ASSUME NEW s \in Sweeps, NEW works \in BOOLEAN, MarkDigestSent(s, works) PROVE InboxInv'
  BY <1>14, MarkDigestSentStays
<1>15. ASSUME HourPasses PROVE InboxInv'
  BY <1>15, HourPassesStays
<1> QED
  BY <1>1, <1>2, <1>3, <1>4, <1>5, <1>6, <1>7, <1>8, <1>9, <1>10, <1>11, <1>12, <1>13, <1>14, <1>15 DEF InboxNext

\* However many people, servers and hours there are: nobody is mailed twice
\* within a window, but after a mark that failed or by sweeps that overlapped
\* (services/digest.go:71-72), and whoever is owed a digest has it a window
\* and a day later, if a good sweep ran in every hour of his.
THEOREM DigestsComeInTime == InboxSpec => []DigestsKeepTheirPace
<1>1. InboxInv => DigestsKeepTheirPace
  <2> SUFFICES ASSUME InboxInv PROVE DigestsKeepTheirPace
    OBVIOUS
  <2>1. InboxTypeOK /\ NoDigestTooSoon
    BY DEF InboxInv, NoDigestTooSoon
  <2>2. ASSUME NEW u \in Addressees, Owed(u)
        PROVE  waited[u] <= HoursPerDay + (IF prefs[u].digest = "daily" THEN HoursPerDay - 1 ELSE Longest)
    <3>1. WaitsInTime(u) /\ waited[u] \in Nat /\ marked[u] \in Nat \cup {Never}
      BY <2>1 DEF InboxInv, InboxTypeOK
    <3>2. UntilOver(u) \in Nat
      BY <2>1, UntilOverIsLess
    <3>3. PICK w \in Windows : w = Wide(u)
      BY <2>1, <2>2, WindowSizes
    <3>4. w \in Nat /\ Longest \in Nat /\ HoursPerDay \in Nat
      BY WindowSizes
    <3>5. waited[u] <= w + HoursPerDay
      <4>1. CASE Past(u, Wide(u))
        BY <2>2, <3>1, <3>2, <3>3, <3>4, <4>1 DEF WaitsInTime, Ripe
      <4>2. CASE ~Past(u, Wide(u))
        <5>1. marked[u] \in Nat /\ marked[u] <= w /\ waited[u] <= marked[u]
          BY <2>2, <3>1, <3>3, <3>4, <4>2 DEF WaitsInTime, Past
        <5> QED
          BY <3>1, <3>4, <5>1
      <4> QED
        BY <4>1, <4>2
    <3>6. w <= (IF prefs[u].digest = "daily" THEN HoursPerDay - 1 ELSE Longest)
      <4>1. prefs[u].digest = "daily" => w = Window["daily"]
        BY <3>3 DEF Wide
      <4>2. w <= Longest
        BY WindowSizes
      <4> QED
        BY <3>4, <4>1, <4>2, InboxAssumption
    <3> QED
      BY <3>1, <3>4, <3>5, <3>6
  <2> QED
    BY <2>1, <2>2 DEF DigestsKeepTheirPace, NobodyWaitsLong
<1> QED
  BY <1>1, InboxBegins, InboxGoesOn, PTL DEF InboxSpec
=============================================================================
