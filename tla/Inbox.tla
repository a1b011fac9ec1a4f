------------------------------- MODULE Inbox -------------------------------
(* Notifications, their preferences and the digest: an hourly sweep of every *)
(* server that mails people what they have not read, at the hour they chose  *)
(* and once in their window, and the retention that throws away what is read.*)
(*                                                                           *)
(* Time passes in hours.  What a digest says and the mail a notification may *)
(* cause by itself are left out; so are the quiet hours, which no code asks. *)
EXTENDS Naturals, FiniteSets

CONSTANTS Addressees, Notices,
          Sweeps,           \* bound: the sweeps under way at once, of all servers
          HoursPerDay,      \* bound: the hours of a day
          Hours,            \* bound: the hours people choose among them
          Window,           \* "daily" and "weekly" -> the hours between two digests
          Never, NoNotice, NoSweep

Notice == [to : Addressees, read : BOOLEAN]
Windows == {Window["daily"], Window["weekly"]}

\* Whom a sweep has still to mail, with what window, and whom to mark; it began
\* in this hour and nothing failed; no other has run meanwhile.
Sweep == [left : SUBSET (Addressees \X Windows), sent : SUBSET Addressees,
          prompt : BOOLEAN, alone : BOOLEAN]

ASSUME InboxAssumption ==
  /\ Never \notin Nat /\ NoNotice \notin Notice /\ NoSweep \notin Sweeps \cup Sweep
  /\ HoursPerDay \in Nat \ {0} /\ Hours \subseteq 0 .. HoursPerDay - 1
  /\ Window \in [{"daily", "weekly"} -> Nat]
  /\ Window["daily"] < HoursPerDay /\ HoursPerDay <= Window["weekly"]

\* One hour later; beyond the cap (a bound) it is all the same.
Later(h, cap) == IF h # Never /\ h < cap THEN h + 1 ELSE h
Longest == Window["weekly"]

VARIABLES
  hourNow,      \* the hour of the day
  standing,   \* person -> "active", "inactive" or "erased"
  notices,    \* notifications: to whom and whether read, or NoNotice
  prefs,      \* notification_preferences: digest and hour; "off" without a row
  marked,     \* person -> hours since last_digest_at, or Never
  sweeps,     \* a server's sweep: <<person, window>> still to mail, or to mark, or NoSweep
  lock,       \* who holds the advisory lock of the sweep
  swept,      \* history: a sweep of this hour ran through without trouble
  mailed,     \* history: person -> hours since a digest was mailed, or Never
  waited,     \* history: person -> hours without a digest that was owed
  unmarked,   \* history: those whose last digest is not recorded
  early       \* history: those mailed within their window without excuse

peopleVars == <<standing, notices, prefs>>
sweepVars == <<sweeps, lock>>
digestVars == <<marked, mailed, unmarked, early>>
inboxVars == <<hourNow, peopleVars, sweepVars, digestVars, swept, waited>>

InboxInit ==
  /\ hourNow = 0 /\ standing = [u \in Addressees |-> "active"]
  /\ notices = [n \in Notices |-> NoNotice]
  /\ prefs = [u \in Addressees |-> [digest |-> "off", hour |-> 0]]
  /\ marked = [u \in Addressees |-> Never] /\ mailed = [u \in Addressees |-> Never]
  /\ sweeps = [s \in Sweeps |-> NoSweep] /\ lock = NoSweep
  /\ swept = FALSE /\ waited = [u \in Addressees |-> 0] /\ unmarked = {} /\ early = {}

Unread(u) == {n \in Notices : notices[n] # NoNotice /\ notices[n].to = u /\ ~notices[n].read}

\* A digest is due to u some day, as long as nothing changes.
Owed(u) == standing[u] = "active" /\ prefs[u].digest # "off" /\ Unread(u) # {}

\* Waiting ends for those to whom nothing is owed any more, and for others.
StopsWaiting(others) ==
  waited' = [u \in Addressees |-> IF u \in others \/ ~Owed(u)' THEN 0 ELSE waited[u]]

-----------------------------------------------------------------------------
(* People *)

\* Whoever it is for, an account that has ended included.
Create(n, u) ==
  /\ notices[n] = NoNotice
  /\ notices' = [notices EXCEPT ![n] = [to |-> u, read |-> FALSE]]
  /\ UNCHANGED <<hourNow, standing, prefs, sweepVars, digestVars, swept, waited>>

\* Only his own; all of them at once, for MarkAllRead.
MarkRead(ns, u) ==
  /\ ns # {} /\ ns \subseteq Unread(u)
  /\ notices' = [n \in Notices |-> IF n \in ns THEN [notices[n] EXCEPT !.read = TRUE] ELSE notices[n]]
  /\ UNCHANGED <<hourNow, standing, prefs, sweepVars, digestVars, swept>> /\ StopsWaiting({})

SetPreferences(u, digest, hour) ==
  /\ standing[u] = "active" /\ prefs' = [prefs EXCEPT ![u] = [digest |-> digest, hour |-> hour]]
  /\ UNCHANGED <<hourNow, standing, notices, sweepVars, digestVars, swept>> /\ StopsWaiting({u})

SetActive(u, to) ==
  /\ {standing[u], to} = {"active", "inactive"} /\ standing' = [standing EXCEPT ![u] = to]
  /\ UNCHANGED <<hourNow, notices, prefs, sweepVars, digestVars, swept>> /\ StopsWaiting({u})

\* What was addressed to the person goes with the person.
Anonymise(u) ==
  /\ standing[u] # "erased" /\ standing' = [standing EXCEPT ![u] = "erased"]
  /\ notices' = [n \in Notices |-> IF notices[n] # NoNotice /\ notices[n].to = u
                                   THEN NoNotice ELSE notices[n]]
  /\ prefs' = [prefs EXCEPT ![u] = [digest |-> "off", hour |-> 0]]
  /\ marked' = [marked EXCEPT ![u] = Never]
  /\ UNCHANGED <<hourNow, sweepVars, mailed, unmarked, early, swept>> /\ StopsWaiting({u})

\* What is read and old enough, whichever that is.
Purge(ns) ==
  /\ ns # {} /\ \A n \in ns : notices[n] # NoNotice /\ notices[n].read
  /\ notices' = [n \in Notices |-> IF n \in ns THEN NoNotice ELSE notices[n]]
  /\ UNCHANGED <<hourNow, standing, prefs, sweepVars, digestVars, swept>> /\ StopsWaiting({})

-----------------------------------------------------------------------------
(* The sweep *)

\* Mutation: a comparison with no date at all is not true.
PastSince(u, w) == marked[u] # Never /\ marked[u] > w

\* At an age of exactly the window it is a matter of seconds.
Past(u, w) == marked[u] = Never \/ marked[u] > w

DueForDigest(sure) ==
  LET due == {u \in Addressees : Owed(u) /\ prefs[u].hour = hourNow} IN
  {x \in {<<u, Window[prefs[u].digest]>> : u \in due} :
     Past(x[1], x[2]) \/ (~sure /\ marked[x[1]] = x[2])}

Sweeping == {s \in Sweeps : sweeps[s] # NoSweep}

\* The timer of some server fires, and the lock is free or out of reach; one
\* that finds it taken does nothing.  There may be so many servers that this
\* can be any time.  s reads who is due, and how long a window each had then;
\* with nobody it is over at once.
Run(s, sure, got) ==
  LET due == DueForDigest(sure) IN
  /\ sweeps[s] = NoSweep /\ (got => lock = NoSweep)
  /\ IF due = {} THEN swept' = TRUE /\ UNCHANGED sweepVars
     ELSE /\ lock' = IF got THEN s ELSE lock
          /\ sweeps' = [x \in Sweeps |->
               IF x = s THEN [left |-> due, sent |-> {}, prompt |-> TRUE, alone |-> Sweeping = {}]
               ELSE IF sweeps[x] = NoSweep THEN NoSweep ELSE [sweeps[x] EXCEPT !.alone = FALSE]]
          /\ UNCHANGED swept
  /\ UNCHANGED <<hourNow, peopleVars, digestVars, waited>>

\* The mail goes out; u, read before, may be somebody else by now.
SendDigest(s, u, w) ==
  /\ sweeps[s] # NoSweep /\ sweeps[s].sent = {} /\ <<u, w>> \in sweeps[s].left
  /\ sweeps' = [sweeps EXCEPT ![s].left = @ \ {<<u, w>>}, ![s].sent = {u}]
  /\ mailed' = [mailed EXCEPT ![u] = 0] /\ unmarked' = unmarked \cup {u}
  /\ early' = IF mailed[u] # Never /\ mailed[u] < w
                 /\ u \notin unmarked /\ sweeps[s].alone
              THEN early \cup {u} ELSE early
  /\ UNCHANGED <<hourNow, peopleVars, lock, marked, swept>> /\ StopsWaiting({u})

SendFails(s, u, w) ==
  /\ sweeps[s] # NoSweep /\ sweeps[s].sent = {} /\ <<u, w>> \in sweeps[s].left
  /\ sweeps' = [sweeps EXCEPT ![s].left = @ \ {<<u, w>>}, ![s].prompt = FALSE]
  /\ UNCHANGED <<hourNow, peopleVars, lock, digestVars, swept, waited>>

\* It is recorded, unless that fails.
MarkDigestSent(s, works) ==
  /\ sweeps[s] # NoSweep /\ sweeps[s].sent # {} /\ sweeps' = [sweeps EXCEPT ![s].sent = {}]
  /\ IF works
     THEN /\ marked' = [u \in Addressees |->
                          IF u \in sweeps[s].sent /\ standing[u] # "erased" THEN 0 ELSE marked[u]]
          /\ unmarked' = unmarked \ sweeps[s].sent
          /\ UNCHANGED peopleVars /\ StopsWaiting(sweeps[s].sent)
     ELSE UNCHANGED <<peopleVars, marked, unmarked, waited>>
  /\ UNCHANGED <<hourNow, lock, mailed, early, swept>>

Finish(s) ==
  /\ sweeps[s] # NoSweep /\ sweeps[s].sent = {} /\ sweeps[s].left = {}
  /\ sweeps' = [sweeps EXCEPT ![s] = NoSweep] /\ lock' = IF lock = s THEN NoSweep ELSE lock
  /\ swept' = (swept \/ sweeps[s].prompt) /\ UNCHANGED <<hourNow, peopleVars, digestVars, waited>>

\* The server dies; its connection, and the lock with it, goes as well.
Die(s) ==
  /\ sweeps[s] # NoSweep /\ sweeps' = [sweeps EXCEPT ![s] = NoSweep]
  /\ lock' = IF lock = s THEN NoSweep ELSE lock
  /\ UNCHANGED <<hourNow, peopleVars, digestVars, swept, waited>>

\* The connection that holds the lock goes, and the sweep goes on.
LoseLock(s) ==
  /\ lock = s /\ lock' = NoSweep
  /\ UNCHANGED <<hourNow, peopleVars, sweeps, digestVars, swept, waited>>

\* An hour passes.  Those whose hour it was and who saw no good sweep in it
\* have an excuse.
HourPasses ==
  /\ hourNow' = (hourNow + 1) % HoursPerDay /\ swept' = FALSE
  /\ sweeps' = [s \in Sweeps |->
                  IF sweeps[s] = NoSweep THEN NoSweep ELSE [sweeps[s] EXCEPT !.prompt = FALSE]]
  /\ marked' = [u \in Addressees |-> Later(marked[u], Longest + 1)]
  /\ mailed' = [u \in Addressees |-> Later(mailed[u], Longest)]
  /\ waited' = [u \in Addressees |->
                  IF ~Owed(u) \/ (prefs[u].hour = hourNow /\ ~swept) THEN 0 ELSE Later(waited[u], Longest + HoursPerDay + 1)]
  /\ UNCHANGED <<peopleVars, lock, unmarked, early>>

-----------------------------------------------------------------------------

InboxNext ==
  \/ \E u \in Addressees :
       \/ \E n \in Notices : Create(n, u)
       \/ \E ns \in SUBSET Notices : MarkRead(ns, u)
       \/ \E digest \in {"off", "daily", "weekly"}, hour \in Hours : SetPreferences(u, digest, hour)
       \/ \E to \in {"active", "inactive"} : SetActive(u, to)
       \/ Anonymise(u)
       \/ \E s \in Sweeps, w \in Windows :
            SendDigest(s, u, w) \/ SendFails(s, u, w)
  \/ \E ns \in SUBSET Notices : Purge(ns)
  \/ \E s \in Sweeps :
       \/ \E sure, got \in BOOLEAN : Run(s, sure, got)
       \/ Finish(s) \/ Die(s) \/ LoseLock(s)
       \/ \E works \in BOOLEAN : MarkDigestSent(s, works)
  \/ HourPasses

InboxSpec == InboxInit /\ [][InboxNext]_inboxVars

-----------------------------------------------------------------------------
(* Properties *)

\* No two digests within a window, unless the first could not be recorded or
\* two sweeps overlapped (services/sweeplock.go:15-18, services/digest.go:71-72).
NoDigestTooSoon == early = {}

\* Whoever is owed a digest and saw a good sweep in every hour of his waits no
\* longer than his window and the day after it; on the day he changes his hour
\* the window may cost him one more (repo/collaboration.go:642-682).
NobodyWaitsLong ==
  \A u \in Addressees :
    Owed(u) => waited[u] <= HoursPerDay + (IF prefs[u].digest = "daily" THEN HoursPerDay - 1
                                           ELSE Longest)

\* A digest comes when it should: not twice and not never.
DigestsKeepTheirPace == NoDigestTooSoon /\ NobodyWaitsLong
=============================================================================
