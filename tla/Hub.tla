-------------------------------- MODULE Hub --------------------------------
(* The hub of one server: the sockets of its users' tabs, who is online, who *)
(* is typing where, and what the tabs are told of it.  The hub changes its   *)
(* maps under a lock and announces the change after it has let go, one       *)
(* recipient at a time, so announcements of several goroutines mix.          *)
(*                                                                           *)
(* A tab that hears of presence fetches the list again; it shows as typing   *)
(* whom it has last heard to be, until it looks at another channel; it is    *)
(* taken to listen to every channel at once.  A send buffer that is full     *)
(* drops the message: when it is full is left open.  A tab that hears of     *)
(* presence while its first list is on its way takes that list for the new   *)
(* one: for it, it is as if the message had been dropped.                    *)
(* Chat messages and notifications go the same way and change nothing here.  *)
EXTENDS Naturals, FiniteSets

CONSTANTS Tabs, Owner,      \* browser tabs, and whose they are
          Channels,
          Typists,          \* bound: the users who type
          Observers,        \* bound: the tabs whose screens are followed
          MaxAnnouncing,    \* bound: goroutines of sockets that announce at once
          Presence, Expiry, Unsent

HubUsers == {Owner[c] : c \in Tabs}
Topics == (Channels \X Typists) \cup {Presence}

ASSUME HubAssumption ==
  /\ Typists \subseteq HubUsers /\ Observers \subseteq Tabs
  /\ Presence \notin Channels \X Typists /\ Expiry \notin Tabs \X {"in", "out"}

\* The goroutines that announce: that of a tab's socket, that of a socket it
\* has lost, and the ticker.
Tellers == (Tabs \X {"in", "out"}) \cup {Expiry}

VARIABLES
  clients,    \* tabs whose socket is registered
  typing,     \* <<channel, user>> -> "no", "fresh" or "stale" past its time
  news,       \* goroutine -> the announcements it has still to make
  shown,      \* tab -> the <<channel, user>> it shows as typing
  list,       \* tab -> the users it shows as online
  due,        \* tabs that have heard of presence and not fetched since
  missed      \* history: <<tab, topic>> a tab may be wrong about

hubVars == <<clients, typing, news, shown, list, due, missed>>

Item == [topic : Topics, on : BOOLEAN, alone : BOOLEAN, to : {Unsent} \cup SUBSET HubUsers]

HubInit ==
  /\ clients = {} /\ typing = [t \in Channels \X Typists |-> "no"]
  /\ news = [g \in Tellers |-> {}] /\ shown = [c \in Observers |-> {}]
  /\ list = [c \in Observers |-> {}] /\ due = {} /\ missed = Observers \X {Presence}

OnlineUsers == {Owner[c] : c \in clients}
TabsOf(u) == {c \in clients : Owner[c] = u}

-----------------------------------------------------------------------------
(* Announcing *)

\* Somebody else is announcing the contrary of topic being on.
Crossed(topic, on) ==
  \E g \in Tellers : \E i \in news[g] : i.topic = topic /\ i.on # on

News(topic, on) == [topic |-> topic, on |-> on, alone |-> ~Crossed(topic, on), to |-> Unsent]

\* Tabs only hear that presence has changed, and never look which way.
PresenceNews == News(Presence, TRUE)

\* What is on its way of a topic that more is now said of is not alone.
Disturbed(i, said) ==
  IF \E x \in said : x.topic = i.topic /\ x.on # i.on THEN [i EXCEPT !.alone = FALSE] ELSE i

\* g has this to announce, after what it changed.
Announce(g, said) ==
  news' = [x \in Tellers |->
             LET kept == {Disturbed(i, said) : i \in news[x]} IN
             IF x = g THEN kept \cup said ELSE kept]

Quiet(g) == news[g] = {}

\* c's goroutine is free to go on, and may have to announce.
Free(c) == Quiet(<<c, "in">>) /\ Cardinality({g \in Tellers : ~Quiet(g)}) < MaxAnnouncing

\* g goes on with i, which these are still to hear; once there is nobody it
\* turns to the next.
GoesOn(g, i, to) ==
  news' = [news EXCEPT ![g] = (@ \ {i}) \cup (IF to = {} THEN {} ELSE {[i EXCEPT !.to = to]})]

\* Broadcast: the users connected at this moment.  Presence goes first.
Snapshot(g, i) ==
  /\ i \in news[g] /\ i.to = Unsent /\ \A x \in news[g] : x.to = Unsent
  /\ i.topic # Presence => \A x \in news[g] : x.topic # Presence
  /\ GoesOn(g, i, {Owner[c] : c \in clients \cap Observers})
  /\ UNCHANGED <<clients, typing, shown, list, due, missed>>

\* SendToUser, to every tab the user has by now; those in full are too slow or,
\* for presence, waiting for their first list.
SendToUser(g, i, u, full) ==
  LET heard == (TabsOf(u) \cap Observers) \ full IN
  /\ i \in news[g] /\ i.to # Unsent /\ u \in i.to /\ full \subseteq TabsOf(u) \cap Observers
  /\ GoesOn(g, i, i.to \ {u})
  /\ IF i.topic = Presence
     THEN due' = due \cup heard /\ UNCHANGED shown
     ELSE /\ shown' = [c \in Observers |->
                         IF c \notin heard \/ Owner[c] = i.topic[2] THEN shown[c]
                         ELSE IF i.on THEN shown[c] \cup {i.topic} ELSE shown[c] \ {i.topic}]
          /\ UNCHANGED due
  /\ missed' = IF i.topic # Presence /\ i.alone
               THEN (missed \cup (full \X {i.topic})) \ (heard \X {i.topic})
               ELSE missed \cup ((IF i.topic = Presence THEN full ELSE full \cup heard) \X {i.topic})
  /\ UNCHANGED <<clients, typing, list>>

-----------------------------------------------------------------------------
(* Sockets *)

\* Mutation: the tabs are counted with the new one among them.
RegisterCountedLate(c) ==
  LET first == TabsOf(Owner[c]) \cup {c} = {} IN
  /\ c \notin clients /\ Free(c) /\ clients' = clients \cup {c}
  /\ Announce(<<c, "in">>, IF first THEN {PresenceNews} ELSE {})
  /\ UNCHANGED <<typing, shown, list, due, missed>>

\* The first tab of a user makes him online.
Register(c) ==
  LET first == TabsOf(Owner[c]) = {} IN
  /\ c \notin clients /\ Free(c) /\ clients' = clients \cup {c}
  /\ Announce(<<c, "in">>, IF first THEN {PresenceNews} ELSE {})
  /\ UNCHANGED <<typing, shown, list, due, missed>>

\* Mutation: typing is left to the ticker.
UnregisterAlone(c) ==
  LET last == TabsOf(Owner[c]) = {c} IN
  /\ c \in clients /\ Free(c) /\ Quiet(<<c, "out">>) /\ clients' = clients \ {c}
  /\ Announce(<<c, "out">>, IF last THEN {PresenceNews} ELSE {})
  /\ due' = due \ {c} /\ missed' = missed \cup (({c} \cap Observers) \X Topics)
  /\ UNCHANGED <<typing, shown, list>>

\* Its read fails, whatever the reason: the last tab of a user makes him
\* offline and, under the same lock, typing nowhere.  A second loss of the
\* tab's socket waits until the first is announced (a bound).
Unregister(c) ==
  LET last == TabsOf(Owner[c]) = {c}
      cleared == {t \in Channels \X Typists : last /\ t[2] = Owner[c] /\ typing[t] # "no"} IN
  /\ c \in clients /\ Free(c) /\ Quiet(<<c, "out">>) /\ clients' = clients \ {c}
  /\ typing' = [t \in Channels \X Typists |-> IF t \in cleared THEN "no" ELSE typing[t]]
  /\ Announce(<<c, "out">>,
       {News(t, FALSE) : t \in cleared} \cup (IF last THEN {PresenceNews} ELSE {}))
  /\ due' = due \ {c} /\ missed' = missed \cup (({c} \cap Observers) \X Topics)
  /\ UNCHANGED <<shown, list>>

\* The list is fetched when it is due, and now and then.
FetchPresence(c) ==
  /\ list' = [list EXCEPT ![c] = OnlineUsers] /\ due' = due \ {c}
  /\ missed' = IF c \in clients THEN missed \ {<<c, Presence>>} ELSE missed
  /\ UNCHANGED <<clients, typing, news, shown>>

\* The tab looks at another channel, or at this one anew.
Look(c) ==
  /\ shown' = [shown EXCEPT ![c] = {}] /\ missed' = missed \ ({c} \X (Channels \X Typists))
  /\ UNCHANGED <<clients, typing, news, list, due>>

-----------------------------------------------------------------------------
(* Typing *)

\* Only the first keystroke is announced.
SetTyping(c, t) ==
  /\ c \in clients /\ Free(c) /\ t[2] = Owner[c]
  /\ typing' = [typing EXCEPT ![t] = "fresh"]
  /\ Announce(<<c, "in">>, IF typing[t] = "no" THEN {News(t, TRUE)} ELSE {})
  /\ UNCHANGED <<clients, shown, list, due, missed>>

StopTyping(c, t) ==
  /\ c \in clients /\ Free(c) /\ t[2] = Owner[c]
  /\ typing' = [typing EXCEPT ![t] = "no"]
  /\ Announce(<<c, "in">>, {News(t, FALSE)})
  /\ UNCHANGED <<clients, shown, list, due, missed>>

\* typingTTL has passed since the last keystroke.
Age(t) ==
  /\ typing[t] = "fresh" /\ typing' = [typing EXCEPT ![t] = "stale"]
  /\ UNCHANGED <<clients, news, shown, list, due, missed>>

Stale == {t \in Channels \X Typists : typing[t] = "stale"}

\* Mutation: what has expired is dropped in silence.
ExpireSilently ==
  /\ Stale # {} /\ Quiet(Expiry)
  /\ typing' = [t \in Channels \X Typists |-> IF t \in Stale THEN "no" ELSE typing[t]]
  /\ UNCHANGED <<clients, news, shown, list, due, missed>>

ExpireTyping ==
  /\ Stale # {} /\ Quiet(Expiry)
  /\ typing' = [t \in Channels \X Typists |-> IF t \in Stale THEN "no" ELSE typing[t]]
  /\ Announce(Expiry, {News(t, FALSE) : t \in Stale})
  /\ UNCHANGED <<clients, shown, list, due, missed>>

-----------------------------------------------------------------------------

Tell(g) ==
  \E i \in news[g] :
    \/ Snapshot(g, i)
    \/ \E u \in HubUsers : \E full \in SUBSET (TabsOf(u) \cap Observers) : SendToUser(g, i, u, full)

HubNext ==
  \/ \E g \in Tellers : Tell(g)
  \/ \E c \in Tabs :
       \/ Register(c) \/ Unregister(c)
       \/ \E t \in Channels \X Typists : SetTyping(c, t) \/ StopTyping(c, t)
  \/ \E c \in Observers : FetchPresence(c) \/ Look(c)
  \/ \E t \in Channels \X Typists : Age(t)
  \/ ExpireTyping

\* Goroutines run, time passes and the ticker ticks.  Nobody has to type, to
\* connect or to fetch.
HubFairness ==
  /\ \A g \in Tellers : WF_hubVars(Tell(g))
  /\ \A t \in Channels \X Typists : WF_hubVars(Age(t))
  /\ WF_hubVars(ExpireTyping)

HubSpec == HubInit /\ [][HubNext]_hubVars /\ HubFairness

-----------------------------------------------------------------------------
(* Properties *)

HubTypeOK ==
  /\ clients \subseteq Tabs /\ typing \in [Channels \X Typists -> {"no", "fresh", "stale"}]
  /\ news \in [Tellers -> SUBSET Item] /\ shown \in [Observers -> SUBSET (Channels \X Typists)]
  /\ list \in [Observers -> SUBSET HubUsers] /\ due \subseteq Observers /\ missed \subseteq Observers \X Topics

\* Whoever the hub says is typing it says is online: no socket can come, go or
\* type in between (ws/hub.go:136-146).
TypingIsOnline == \A t \in Channels \X Typists : typing[t] # "no" => t[2] \in OnlineUsers

\* A tab that has heard everything there was to hear, none of it while waiting
\* for its first list, and has fetched since, shows who is online, in whichever
\* order the news came (ws/hub.go:119-124).
OnlineListIsRight ==
  \A c \in (clients \cap Observers) \ due :
    \/ <<c, Presence>> \in missed
    \/ \E g \in Tellers : \E i \in news[g] : i.topic = Presence
    \/ list[c] = OnlineUsers

\* Nobody is shown typing for ever.  One whose indicator is on and who does
\* not go on typing is shown so no longer after a while, except to a tab that
\* was offline, too slow, or told the contrary by two goroutines at once
\* (ws/hub.go:368-398).
IndicatorGoesOff ==
  \A c \in Observers : \A t \in Channels \X Typists :
    t \in shown[c] ~> (t \notin shown[c] \/ typing[t] = "fresh" \/ <<c, t>> \in missed)
=============================================================================
