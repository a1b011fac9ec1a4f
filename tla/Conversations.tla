--------------------------- MODULE Conversations ---------------------------
(* Channels, threads, reactions and mentions, and the pages that show them.  *)
(* A call writes first and tells the members' pages afterwards; a page that  *)
(* is told fetches again what it shows, and never uses what it was told.     *)
(*                                                                           *)
(* A transcript is read in three queries and modelled as read in one: what   *)
(* is written between two of them is told later and read again.  The two     *)
(* that decorate it may fail unnoticed.  The order and the limit of 100 of a *)
(* transcript, its authors and who has read it are left out, and so are the  *)
(* end of a channel, with the project or team it belongs to, and what a tab  *)
(* fetches again of its own accord once its own call is answered.            *)
EXTENDS Naturals, FiniteSets

CONSTANTS Talkers, Rooms, Notes, Calls,
          Openings,         \* bound: the channels people open, <<type, members>>
          Writers,          \* bound: the people who write
          Reactors,         \* bound: the people who react
          Named,            \* bound: the active people a reply names
          MaxEdits,         \* bound: edits
          Views, Viewer,    \* queries in the caches of tabs, and whose they are
          Everything, Nothing

Room == [type : {"team", "project", "dm"}, members : SUBSET Talkers]
Note == [room : Rooms, author : Talkers, parent : Notes \cup {Nothing}, edits : Nat]

ASSUME ConversationsAssumption ==
  /\ Nothing \notin Rooms \cup Notes \cup Room \cup Note
  /\ Everything \notin Rooms \cup Notes /\ Rooms \cap Notes = {}
  /\ Openings \subseteq {"team", "project", "dm"} \X SUBSET Talkers /\ Named \subseteq Talkers
  /\ Writers \subseteq Talkers /\ Reactors \subseteq Talkers
  /\ Viewer \in [Views -> Talkers] /\ MaxEdits \in Nat

VARIABLES
  rooms,      \* chat_channels: its type and members, or Nothing
  notes,      \* chat_messages: room, author, parent and edits, or Nothing
  reactions,  \* chat_reactions of one emoji: <<note, person>>
  mentions,   \* chat_mentions: <<note, person>>
  told,       \* <<note, person>> that a notification was made of
  calls,      \* the handlers under way
  looking,    \* view -> the room or thread it shows; Everything is the list of rooms
  shown,      \* the views on screen
  held,       \* the views that hold an answer, an old one perhaps
  state,      \* view -> one of Freshness
  read,       \* view -> what it last read, until it is to read again
  together    \* history: groups that two calls were opening at once

roomVars == <<rooms, together>>
noteVars == <<notes, reactions, mentions, told>>
viewVars == <<looking, shown, held, state, read>>
conversationVars == <<roomVars, noteVars, calls, viewVars>>

\* "due": its request is on the way; "loading": so is the answer; "overtaken":
\* an answer that was told to be old; "stale": it will be asked for again when it
\* comes to the front; "behind": nobody knows that it is old.
Freshness == {"due", "loading", "overtaken", "fresh", "stale", "behind"}

NoCall == [at |-> "idle"]

Opened == {r \in Rooms : rooms[r] # Nothing}
Posted == {n \in Notes : notes[n] # Nothing}
MemberOf(u) == {r \in Opened : u \in rooms[r].members}

\* uuid.New(): which of the free identifiers it is does not matter.
Unused(table) == CHOOSE x \in DOMAIN table : table[x] = Nothing

ConversationsInit ==
  /\ rooms = [r \in Rooms |-> Nothing] /\ notes = [n \in Notes |-> Nothing]
  /\ reactions = {} /\ mentions = {} /\ told = {} /\ calls = [k \in Calls |-> NoCall]
  /\ looking = [v \in Views |-> Everything] /\ state = [v \in Views |-> "due"]
  /\ shown = Views /\ held = {}
  /\ read = [v \in Views |-> {}] /\ together = {}

Turns(k, to) == calls' = [calls EXCEPT ![k] = to]

-----------------------------------------------------------------------------
(* Channels *)

FindDM(g) == {r \in Opened : rooms[r].type = "dm" /\ rooms[r].members = g}

\* A direct message that is there is answered; otherwise one is to be made.
CreateChannel(k, g, type) ==
  /\ calls[k] = NoCall /\ (type = "dm" => FindDM(g) = {})
  /\ Turns(k, [at |-> "create", type |-> type, members |-> g])
  /\ together' = IF \E x \in Calls : calls[x].at = "create" /\ calls[x].type = "dm"
                                     /\ type = "dm" /\ calls[x].members = g
                 THEN together \cup {g} ELSE together
  /\ UNCHANGED <<rooms, noteVars, viewVars>>

\* The channel and its members go in together.  Nobody is told.
InsertChannel(k) ==
  /\ calls[k].at = "create" /\ Opened # Rooms
  /\ rooms' = [rooms EXCEPT ![Unused(rooms)] = [type |-> calls[k].type, members |-> calls[k].members]]
  /\ Turns(k, NoCall) /\ UNCHANGED <<together, noteVars, viewVars>>

-----------------------------------------------------------------------------
(* Messages *)

\* The lists a push of a message has fetched again.
Touched(r, parent) == {Everything, r, parent}

Lists == {Everything} \cup Rooms \cup Notes

\* What u's call is about to do once it has written to note n of room r.  The
\* members are those ChannelForMember read; what it reads never changes, so it
\* is read here with the first statement that writes.
Went(at, u, r, n, about) ==
  [at |-> at, by |-> u, note |-> n, to |-> rooms[r].members, about |-> about]

\* u writes to room r, in the thread of parent if there is one.
Insert(k, u, r, parent, at) ==
  LET n == Unused(notes) IN
  /\ calls[k] = NoCall /\ r \in MemberOf(u) /\ Posted # Notes
  /\ notes' = [notes EXCEPT ![n] = [room |-> r, author |-> u, parent |-> parent, edits |-> 0]]
  /\ Turns(k, Went(at, u, r, n, Touched(r, parent)))
  /\ UNCHANGED <<roomVars, reactions, mentions, told, viewVars>>

PostMessage(k, u, r) == Insert(k, u, r, Nothing, "tell")

\* Only a reply looks for names, and it has none itself.
ReplyToMessage(k, u, n) ==
  n \in Posted /\ notes[n].parent = Nothing /\ Insert(k, u, notes[n].room, n, "name")

\* Everybody named is recorded; the other members of the channel hear of it.
\* When the recording fails, at its first row for one, nobody does.
NotifyMentions(k) ==
  LET c == calls[k] IN
  /\ c.at = "name" /\ Turns(k, [c EXCEPT !.at = "tell"])
  /\ \/ /\ mentions' = mentions \cup ({c.note} \X Named)
        /\ told' = told \cup ({c.note} \X ((Named \cap c.to) \ {c.by}))
     \/ UNCHANGED <<mentions, told>>
  /\ UNCHANGED <<roomVars, notes, reactions, viewVars>>

\* Mutation: what it answers no longer says which thread it is in.
EditMessageAlone(k, u, n) ==
  /\ calls[k] = NoCall /\ n \in Posted /\ notes[n].author = u /\ notes[n].room \in MemberOf(u)
  /\ \A x \in Posted : notes[x].edits < MaxEdits
  /\ notes' = [notes EXCEPT ![n].edits = @ + 1]
  /\ Turns(k, Went("tell", u, notes[n].room, n, Touched(notes[n].room, Nothing)))
  /\ UNCHANGED <<roomVars, reactions, mentions, told, viewVars>>

EditMessage(k, u, n) ==
  /\ calls[k] = NoCall /\ n \in Posted /\ notes[n].author = u /\ notes[n].room \in MemberOf(u)
  /\ \A x \in Posted : notes[x].edits < MaxEdits
  /\ notes' = [notes EXCEPT ![n].edits = @ + 1]
  /\ Turns(k, Went("tell", u, notes[n].room, n, Touched(notes[n].room, notes[n].parent)))
  /\ UNCHANGED <<roomVars, reactions, mentions, told, viewVars>>

\* The first statement of a toggle takes the reaction away; when there was
\* none the second adds it, unless it has come meanwhile.
ToggleReaction(k, u, n) ==
  /\ calls[k] = NoCall /\ n \in Posted /\ notes[n].room \in MemberOf(u)
  /\ reactions' = reactions \ {<<n, u>>}
  /\ Turns(k, Went(IF <<n, u>> \in reactions THEN "tell" ELSE "add", u, notes[n].room, n, Lists))
  /\ UNCHANGED <<roomVars, notes, mentions, told, viewVars>>

InsertReaction(k) ==
  /\ calls[k].at = "add" /\ reactions' = reactions \cup {<<calls[k].note, calls[k].by>>}
  /\ Turns(k, [calls[k] EXCEPT !.at = "tell"])
  /\ UNCHANGED <<roomVars, notes, mentions, told, viewVars>>

\* The statement that was to come fails.
CallFails(k) ==
  /\ calls[k].at \in {"create", "add"} /\ Turns(k, NoCall)
  /\ UNCHANGED <<roomVars, noteVars, viewVars>>

-----------------------------------------------------------------------------
(* Pages *)

\* A view that is told asks again: at once on screen, and anew if it was asking,
\* but a first answer that is on its way counts as the new one.
WhenTold(v) ==
  CASE state[v] = "due" -> "due"
    [] state[v] \in {"loading", "overtaken"} ->
         IF v \in shown /\ v \in held THEN "due" ELSE "overtaken"
    [] OTHER -> IF v \in shown THEN "due" ELSE "stale"

WhenMissed(v) ==
  CASE state[v] = "loading" -> "overtaken"
    [] state[v] = "fresh" -> "behind"
    [] OTHER -> state[v]

\* The hub reaches the members' pages, except those whose socket is down or
\* too slow; a server that dies first reaches none.
PushToChannel(k, deaf) ==
  LET c == calls[k]
      concerned == {v \in Views : Viewer[v] \in c.to /\ looking[v] \in c.about} IN
  /\ c.at = "tell" /\ deaf \subseteq concerned /\ Turns(k, NoCall)
  /\ state' = [v \in Views |-> IF v \notin concerned THEN state[v]
                               ELSE IF v \in deaf THEN WhenMissed(v) ELSE WhenTold(v)]
  /\ read' = [v \in Views |-> IF v \in concerned THEN {} ELSE read[v]]
  /\ UNCHANGED <<roomVars, noteVars, looking, shown, held>>

Line(n) ==
  [note |-> n, edits |-> notes[n].edits,
   replies |-> Cardinality({x \in Posted : notes[x].parent = n}),
   by |-> {u \in Talkers : <<n, u>> \in reactions}]

RootMessages(r) == {Line(n) : n \in {x \in Posted : notes[x].room = r /\ notes[x].parent = Nothing}}
Thread(n) == {Line(x) : x \in {y \in Posted : notes[y].parent = n}}

Content(what, u) ==
  IF what = Everything THEN MemberOf(u) ELSE IF what \in Rooms THEN RootMessages(what) ELSE Thread(what)

\* What decorates the lines is read apart; when that fails the answer has none.
Plain(lines, without) ==
  {[x EXCEPT !.by = IF "reactions" \in without THEN {} ELSE @,
             !.replies = IF "replies" \in without THEN 0 ELSE @] : x \in lines}

Decorations == {"reactions", "replies"}

\* The cache drops a view nobody shows, and a page turns to something it may
\* read and does not hold.
TurnTo(v, what) ==
  /\ v \notin shown /\ state[v] \in {"fresh", "stale", "behind"}
  /\ \/ what = Everything
     \/ what \in MemberOf(Viewer[v])
     \/ what \in Posted /\ notes[what].parent = Nothing /\ notes[what].room \in MemberOf(Viewer[v])
  /\ looking' = [looking EXCEPT ![v] = what] /\ state' = [state EXCEPT ![v] = "due"]
  /\ shown' = shown \cup {v} /\ held' = held \ {v}
  /\ read' = [read EXCEPT ![v] = {}] /\ UNCHANGED <<roomVars, noteVars, calls>>

\* It leaves the screen; a request under way is not called back.
LeaveView(v) ==
  /\ v \in shown /\ shown' = shown \ {v}
  /\ UNCHANGED <<roomVars, noteVars, calls, looking, held, state, read>>

\* It, or its window, comes to the front.  What is held is shown as it is for
\* 30 seconds, and asked for again after that.
ComeToFront(v) ==
  /\ shown' = shown \cup {v}
  /\ \/ /\ state[v] \notin {"due", "loading", "overtaken"}
        /\ state' = [state EXCEPT ![v] = "due"] /\ read' = [read EXCEPT ![v] = {}]
     \/ (state[v] \in {"fresh", "behind"} => v \in held) /\ state[v] # "stale"
        /\ UNCHANGED <<state, read>>
  /\ UNCHANGED <<roomVars, noteVars, calls, looking, held>>

GetMessages(v) ==
  /\ state[v] = "due" /\ state' = [state EXCEPT ![v] = "loading"]
  /\ \E without \in SUBSET Decorations :
       read' = [read EXCEPT ![v] = LET all == Content(looking[v], Viewer[v]) IN
                  IF looking[v] = Everything THEN all ELSE Plain(all, without)]
  /\ UNCHANGED <<roomVars, noteVars, calls, looking, shown, held>>

ShowMessages(v) ==
  /\ state[v] \in {"loading", "overtaken"}
  /\ state' = [state EXCEPT ![v] = IF state[v] = "loading" THEN "fresh" ELSE "behind"]
  /\ held' = held \cup {v}
  /\ UNCHANGED <<roomVars, noteVars, calls, looking, shown, read>>

\* No answer comes, and the page goes on with what it holds.
LoadFails(v) ==
  /\ state[v] \in {"due", "loading", "overtaken"}
  /\ state' = [state EXCEPT ![v] = "behind"] /\ read' = [read EXCEPT ![v] = {}]
  /\ UNCHANGED <<roomVars, noteVars, calls, looking, shown, held>>

-----------------------------------------------------------------------------

ConversationsNext ==
  \/ \E k \in Calls :
       \/ \E o \in Openings : CreateChannel(k, o[2], o[1])
       \/ InsertChannel(k) \/ NotifyMentions(k) \/ InsertReaction(k) \/ CallFails(k)
       \/ \E u \in Writers, r \in Rooms : PostMessage(k, u, r)
       \/ \E u \in Writers, n \in Notes : ReplyToMessage(k, u, n) \/ EditMessage(k, u, n)
       \/ \E u \in Reactors, n \in Notes : ToggleReaction(k, u, n)
       \/ \E deaf \in SUBSET Views : PushToChannel(k, deaf)
  \/ \E v \in Views :
       \/ \E what \in Lists : TurnTo(v, what)
       \/ LeaveView(v) \/ ComeToFront(v)
       \/ GetMessages(v) \/ ShowMessages(v) \/ LoadFails(v)

ConversationsSpec == ConversationsInit /\ [][ConversationsNext]_conversationVars

-----------------------------------------------------------------------------
(* Properties *)

\* One conversation for one set of people, however often it is opened, unless
\* two of them opened it at the same moment (handlers/chat_handler.go:92-101).
OneConversation ==
  \A r, s \in Opened :
    r # s /\ rooms[r].type = "dm" /\ rooms[s].type = "dm"
    /\ rooms[r].members = rooms[s].members => rooms[r].members \in together

\* A view that was told of all that happened since it was last read, and has
\* been answered since, holds what is stored, once nobody has anything left to
\* tell; and the list of channels has each in which something was said
\* (handlers/chat_files_handler.go:211-213, hooks/useRealtime.ts:110-135).  Not
\* so a view that was told of it while its first answer was on the way, or
\* while it was not on screen; and what was decorated in vain is plain.
PagesCatchUp ==
  \A v \in Views :
    \/ state[v] # "fresh"
    \/ \E k \in Calls : calls[k].at \in {"name", "tell"} /\ looking[v] \in calls[k].about
    \/ IF looking[v] = Everything
       THEN {notes[n].room : n \in Posted} \cap MemberOf(Viewer[v]) \subseteq read[v]
       ELSE \E without \in SUBSET Decorations :
              read[v] = Plain(Content(looking[v], Viewer[v]), without)

\* Nobody hears of a conversation he has no part in, or of his own words
\* (handlers/collaboration_handler.go:184-190).
MentionsStayInside ==
  \A n \in Posted : \A u \in Talkers :
    <<n, u>> \in told => u # notes[n].author /\ u \in rooms[notes[n].room].members

\* What people see of a conversation is one and the same conversation.
ConversationsAgree == OneConversation /\ PagesCatchUp /\ MentionsStayInside
=============================================================================
