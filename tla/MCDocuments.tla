---------------------------- MODULE MCDocuments ----------------------------
(* Small instances for TLC of documents, of conversations and of people's    *)
(* inboxes, side by side: which one runs is chosen at the start, and the     *)
(* others stay as they begin.                                                *)
EXTENDS Documents, Conversations, Inbox, TLC

CONSTANTS t1, t2, b1, b2,         \* texts of the page
          ana, bo, cy, v1         \* people in conversation, a view

VARIABLE part

allVars == <<vars, conversationVars, inboxVars, part>>

\* The page as created; a new title over the same body; a new body under a
\* title left empty.
FirstText == [title |-> t1, content |-> b1]
TypedTexts == {[title |-> t2, content |-> b1], [title |-> Empty, content |-> b2]}

\* Bound: explored no further from a page with three texts in its history.
FewRevisions == Cardinality(revisions) <= 2

Pair == { <<"dm", {ana, bo}>> }
Reader == v1 :> bo

DigestWindows == "daily" :> 1 @@ "weekly" :> 2

AllInit ==
  /\ part \in {"documents", "conversations", "inbox"}
  /\ Init /\ ConversationsInit /\ InboxInit

AllNext ==
  \/ part = "documents" /\ Next /\ UNCHANGED <<conversationVars, inboxVars, part>>
  \/ part = "conversations" /\ ConversationsNext /\ UNCHANGED <<vars, inboxVars, part>>
  \/ part = "inbox" /\ InboxNext /\ UNCHANGED <<vars, conversationVars, part>>

AllSpec == AllInit /\ [][AllNext]_allVars

\* Tabs and saves are interchangeable; the sweeps are the saves.
Symmetry == Permutations(Editors) \cup Permutations(Requests)
=============================================================================
