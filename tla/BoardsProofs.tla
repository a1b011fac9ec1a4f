---------------------------- MODULE BoardsProofs ----------------------------
(***************************************************************************)
(* What Boards keeps for any number of tabs, saves and changes: no saved   *)
(* scene lacks a change of its predecessor, an editor that has loaded and  *)
(* says "Saved" shows what is stored, and the refusal of what it saves is  *)
(* somebody else's save.                                                   *)
(*                                                                         *)
(* The check of the version only helps because an editor holds all of the  *)
(* scene whose version it sends: it loads both at once, takes neither from *)
(* a later fetch, and takes a new version only for a scene it sent itself. *)
(* An editor that has not loaded sends version 0, which no board has.      *)
(***************************************************************************)
EXTENDS Boards, TLAPS

\* What tabs have seen of the board is no newer than the board.
Bounded(e) == cached[e] <= version /\ fetched[e] <= version

\* Every version after the first was saved by somebody.
Authored == \A v \in 2..MaxVersion : v <= version => author[v] \in Editors

\* No stored scene has an empty title.
NoBlanks == \A v \in Versions : scenes[v] \cap Blanks = {}

\* An editor holds the whole scene of its version.  One that has not loaded has
\* nothing in its cache to load.
Holds(e) ==
  tab[e].open =>
    /\ tab[e].base \in 0..version
    /\ tab[e].base = 0 => cached[e] = 0
    /\ tab[e].base # 0 => scenes[tab[e].base] \subseteq tab[e].items

\* A save is a tab's.  On its way it holds that scene too; a save that was
\* stored is its version, but for an empty title.
Carries(r) ==
  /\ request[r].at # "free" => request[r].by \in Editors
  /\ request[r].at = "sent" =>
       /\ request[r].base \in 0..version
       /\ request[r].base # 0 => scenes[request[r].base] \subseteq request[r].items
  /\ request[r].at = "saved" =>
       /\ request[r].base \in 1..version
       /\ scenes[request[r].base] = request[r].items \ Blanks

\* The save an editor waits for is its own and holds what the editor held, unless
\* the editor had not loaded: such a save cannot be stored.
Awaits(e) ==
  LET r == tab[e].saving IN r # None =>
    /\ tab[e].open /\ tab[e].dirty
    /\ request[r].by = e /\ request[r].at # "free" /\ ~request[r].lost
    /\ request[r].at \in {"sent", "saved"} /\ request[r].base # 0 =>
         /\ request[r].items \subseteq tab[e].items
         /\ tab[e].raced \/ request[r].items = tab[e].items
    /\ request[r].at = "sent" => request[r].base \in {0, tab[e].base}
    /\ request[r].at = "saved" => 0 < tab[e].base /\ tab[e].base < request[r].base

\* A tab that no answer was kept from waits for every save it has in flight, and
\* knows of every version it made but that one.
InFlight(e, r) ==
  request[r].by = e /\ request[r].at # "free" => tab[e].saving = r

Underway(e, v) ==
  /\ tab[e].saving # None
  /\ request[tab[e].saving].at = "saved" /\ request[tab[e].saving].base = v

\* A board the cache dropped is fetched again before a save of it can be stored.
Seen(e, v) ==
  \/ v <= cached[e] /\ (tab[e].open => v <= tab[e].base)
  \/ /\ tab[e].open => tab[e].base = 0
     /\ cached[e] = 0 /\ (fetched[e] = 0 \/ v <= fetched[e])

Knows(e, v) == author[v] = e /\ v <= version => Underway(e, v) \/ Seen(e, v)

Informed(e) ==
  e \notin strayed => /\ \A r \in Requests : InFlight(e, r)
                      /\ \A v \in Versions : Knows(e, v)

\* The inductive invariant.
IInv ==
  /\ TypeOK
  /\ NothingOverwritten
  /\ SavedIsStored
  /\ RefusedForAnother
  /\ Authored
  /\ NoBlanks
  /\ \A e \in Editors : Bounded(e)
  /\ \A e \in Editors : Holds(e)
  /\ \A r \in Requests : Carries(r)
  /\ \A e \in Editors : Awaits(e)
  /\ \A e \in Editors : Informed(e)

-----------------------------------------------------------------------------
(* Operators.                                                              *)

LEMMA ClosedIsTab ==
  /\ Closed \in Tab /\ ~Closed.open /\ Closed.saving = None
  /\ ~Closed.raced /\ ~Closed.dirty
  BY BoardsAssumption DEF Closed, Tab

LEMMA FreeIsRequest ==
  /\ Free \in Request /\ Free.at = "free" /\ Free.by = None /\ ~Free.lost
  BY BoardsAssumption DEF Free, Request

LEMMA Loading ==
  ASSUME IInv, NEW e \in Editors, NEW v \in 1..version
  PROVE  /\ v \in Versions
         /\ Loaded(e, v) \in Tab
         /\ Loaded(e, v).open = tab[e].open /\ Loaded(e, v).dirty = tab[e].dirty
         /\ Loaded(e, v).saving = tab[e].saving /\ Loaded(e, v).raced = tab[e].raced
         /\ Unloaded(e) => Loaded(e, v).items = scenes[v] /\ Loaded(e, v).base = v
         /\ ~Unloaded(e) => Loaded(e, v) = tab[e]
  <1>1. /\ tab[e] \in Tab /\ v \in Versions /\ v \in 0..MaxVersion
        /\ scenes[v] \in SUBSET Changes
    BY BoardsAssumption DEF IInv, TypeOK, Versions
  <1>2. CASE Unloaded(e)
    <2> DEFINE x == [tab[e] EXCEPT !.items = scenes[v], !.base = v]
    <2>1. /\ x \in Tab /\ x.open = tab[e].open /\ x.dirty = tab[e].dirty
          /\ x.saving = tab[e].saving /\ x.raced = tab[e].raced
          /\ x.items = scenes[v] /\ x.base = v
      BY <1>1 DEF Tab
    <2>2. Loaded(e, v) = x
      BY <1>2 DEF Loaded
    <2> HIDE DEF x
    <2> QED BY <1>1, <1>2, <2>1, <2>2
  <1>3. CASE ~Unloaded(e)
    <2>1. Loaded(e, v) = tab[e]
      BY <1>3 DEF Loaded
    <2> QED BY <1>1, <1>3, <2>1
  <1> QED BY <1>2, <1>3

-----------------------------------------------------------------------------
(* The steps of a tab.                                                     *)

LEMMA FetchBeginsKeepsInvariant ==
  ASSUME IInv, NEW e \in Editors, FetchBegins(e)
  PROVE  IInv'
  <1>1. /\ fetched' = [fetched EXCEPT ![e] = version]
        /\ UNCHANGED <<alive, version, scenes, author, cached, tab, request, strayed>>
    BY DEF FetchBegins, row
  <1>2. TypeOK'
    BY <1>1, BoardsAssumption DEF IInv, TypeOK, Versions
  <1>3. /\ NothingOverwritten' /\ SavedIsStored' /\ RefusedForAnother'
        /\ Authored' /\ NoBlanks'
    BY <1>1 DEF IInv, NothingOverwritten, SavedIsStored, RefusedForAnother, Authored, NoBlanks, Versions
  <1>4. \A f \in Editors : Bounded(f)'
    BY <1>1, BoardsAssumption DEF IInv, TypeOK, Bounded, Versions
  <1>5. /\ \A f \in Editors : Holds(f)' /\ Awaits(f)' /\ Informed(f)'
        /\ \A r \in Requests : Carries(r)'
    BY <1>1 DEF IInv, Holds, Carries, Awaits, Informed, InFlight, Knows, Underway, Seen, Versions
  <1> QED BY <1>2, <1>3, <1>4, <1>5 DEF IInv

LEMMA FetchEndsKeepsInvariant ==
  ASSUME IInv, NEW e \in Editors, FetchEnds(e)
  PROVE  IInv'
  <1> DEFINE x == Loaded(e, fetched[e])
  <1>1. fetched[e] \in 1..version /\ fetched[e] \in 0..MaxVersion
    BY BoardsAssumption DEF FetchEnds, IInv, TypeOK, Bounded, Versions
  <1>2. /\ x \in Tab /\ x.open = tab[e].open /\ x.dirty = tab[e].dirty
        /\ x.saving = tab[e].saving /\ x.raced = tab[e].raced
        /\ Unloaded(e) => x.items = scenes[fetched[e]] /\ x.base = fetched[e]
        /\ ~Unloaded(e) => x = tab[e]
    BY <1>1, Loading
  <1> HIDE DEF x
  <1>3. /\ cached' = [cached EXCEPT ![e] = fetched[e]]
        /\ fetched' = [fetched EXCEPT ![e] = 0]
        /\ tab' = [tab EXCEPT ![e] = x]
        /\ strayed \subseteq strayed' /\ strayed' \subseteq strayed \cup {e}
        /\ e \notin strayed' => cached[e] <= fetched[e]
        /\ UNCHANGED <<alive, version, scenes, author, request>>
    BY BoardsAssumption DEF FetchEnds, row, IInv, TypeOK, x
  <1>4. TypeOK'
    BY <1>1, <1>2, <1>3, BoardsAssumption DEF IInv, TypeOK, Versions
  <1>5. /\ tab'[e] = x /\ cached'[e] = fetched[e] /\ fetched'[e] = 0
        /\ \A f \in Editors \ {e} :
             tab'[f] = tab[f] /\ cached'[f] = cached[f] /\ fetched'[f] = fetched[f]
    BY <1>3 DEF IInv, TypeOK
  <1>6. /\ NothingOverwritten' /\ RefusedForAnother' /\ Authored' /\ NoBlanks'
        /\ \A r \in Requests : Carries(r)'
    BY <1>3 DEF IInv, NothingOverwritten, RefusedForAnother, Authored, NoBlanks, Carries, Versions
  <1>7. SavedIsStored'
    <2>1. scenes[fetched[e]] \cap Blanks = {}
      BY <1>1, <1>4, BoardsAssumption DEF IInv, NoBlanks, TypeOK, Versions
    <2>2. Unloaded(e) => x.items \ (Blanks \cup Resizes) = scenes[x.base] \ Resizes
      BY <1>2, <2>1
    <2> QED BY <1>2, <1>3, <1>5, <2>2 DEF IInv, SavedIsStored
  <1>8. \A f \in Editors : Bounded(f)'
    BY <1>1, <1>3, <1>5, BoardsAssumption DEF IInv, TypeOK, Bounded, Versions
  <1>9. ASSUME NEW f \in Editors PROVE Holds(f)'
    <2>1. CASE f = e
      BY <1>1, <1>2, <1>3, <1>5, <2>1 DEF IInv, Holds, Unloaded
    <2>2. CASE f # e
      BY <1>3, <1>5, <2>2 DEF IInv, Holds
    <2> QED BY <2>1, <2>2
  <1>10. ASSUME NEW f \in Editors PROVE Awaits(f)'
    <2>1. CASE f = e
      <3>1. Unloaded(e) /\ tab[e].saving # None =>
              /\ request[tab[e].saving].at # "saved"
              /\ request[tab[e].saving].at = "sent" => request[tab[e].saving].base = 0
        BY <1>1 DEF IInv, Awaits, Unloaded
      <3> QED BY <1>2, <1>3, <1>5, <2>1, <3>1 DEF IInv, Awaits
    <2>2. CASE f # e
      BY <1>3, <1>5, <2>2 DEF IInv, Awaits
    <2> QED BY <2>1, <2>2
  <1>11. ASSUME NEW f \in Editors, f \notin strayed'
         PROVE  Informed(f)'
    <2>1. Informed(f) /\ f \notin strayed
      BY <1>3, <1>11 DEF IInv
    <2>2. tab'[f].saving = tab[f].saving
      BY <1>2, <1>5
    <2>3. \A r \in Requests : InFlight(f, r)'
      BY <1>3, <2>1, <2>2 DEF Informed, InFlight
    <2>4. ASSUME NEW v \in Versions, Seen(f, v), v <= version
          PROVE  Seen(f, v)'
      <3>1. CASE f = e
        <4>1. v <= fetched[e]
          BY <1>1, <1>3, <1>11, <2>4, <3>1, BoardsAssumption
          DEF IInv, TypeOK, Seen, Versions
        <4>2. x.open => v <= x.base
          BY <1>2, <2>4, <3>1, <4>1 DEF Seen, Unloaded
        <4> QED BY <1>5, <3>1, <4>1, <4>2 DEF Seen
      <3>2. CASE f # e
        BY <1>3, <1>5, <2>4, <3>2 DEF Seen
      <3> QED BY <3>1, <3>2
    <2>5. \A v \in Versions : Knows(f, v)'
      BY <1>3, <2>1, <2>2, <2>4 DEF Informed, Knows, Underway, Versions
    <2> QED BY <2>3, <2>5 DEF Informed, Versions
  <1>12. \A f \in Editors : Informed(f)'
    BY <1>11 DEF Informed
  <1> QED BY <1>4, <1>6, <1>7, <1>8, <1>9, <1>10, <1>12 DEF IInv

LEMMA FetchFailsKeepsInvariant ==
  ASSUME IInv, NEW e \in Editors, FetchFails(e)
  PROVE  IInv'
  <1>1. /\ fetched' = [fetched EXCEPT ![e] = 0]
        /\ UNCHANGED <<alive, version, scenes, author, cached, tab, request, strayed>>
    BY DEF FetchFails, row
  <1>2. TypeOK'
    BY <1>1, BoardsAssumption DEF IInv, TypeOK, Versions
  <1>3. /\ NothingOverwritten' /\ SavedIsStored' /\ RefusedForAnother'
        /\ Authored' /\ NoBlanks'
    BY <1>1 DEF IInv, NothingOverwritten, SavedIsStored, RefusedForAnother, Authored, NoBlanks, Versions
  <1>4. \A f \in Editors : Bounded(f)'
    BY <1>1, BoardsAssumption DEF IInv, TypeOK, Bounded, Versions
  <1>5. /\ \A f \in Editors : Holds(f)' /\ Awaits(f)' /\ Informed(f)'
        /\ \A r \in Requests : Carries(r)'
    BY <1>1 DEF IInv, Holds, Carries, Awaits, Informed, InFlight, Knows, Underway, Seen, Versions
  <1> QED BY <1>2, <1>3, <1>4, <1>5 DEF IInv

LEMMA EvictKeepsInvariant ==
  ASSUME IInv, NEW e \in Editors, Evict(e)
  PROVE  IInv'
  <1>1. /\ cached' = [cached EXCEPT ![e] = 0] /\ ~tab[e].open /\ fetched[e] = 0
        /\ UNCHANGED <<alive, version, scenes, author, fetched, tab, request, strayed>>
    BY DEF Evict, row
  <1>2. TypeOK'
    BY <1>1, BoardsAssumption DEF IInv, TypeOK, Versions
  <1>3. /\ NothingOverwritten' /\ SavedIsStored' /\ RefusedForAnother'
        /\ Authored' /\ NoBlanks'
    BY <1>1 DEF IInv, NothingOverwritten, SavedIsStored, RefusedForAnother, Authored, NoBlanks, Versions
  <1>4. \A f \in Editors : Bounded(f)'
    BY <1>1, BoardsAssumption DEF IInv, TypeOK, Bounded, Versions
  <1>5. cached'[e] = 0 /\ \A f \in Editors : f # e => cached'[f] = cached[f]
    BY <1>1 DEF IInv, TypeOK
  <1>6. /\ \A f \in Editors : Holds(f)' /\ Awaits(f)'
        /\ \A r \in Requests : Carries(r)'
    BY <1>1, <1>5 DEF IInv, Holds, Carries, Awaits, Versions
  <1>7. \A f \in Editors : Informed(f)'
    BY <1>1, <1>5 DEF IInv, Informed, InFlight, Knows, Underway, Seen, Versions
  <1> QED BY <1>2, <1>3, <1>4, <1>6, <1>7 DEF IInv

\* The cached version is the newest this tab made: it has no save in flight.
LEMMA OpenKeepsInvariant ==
  ASSUME IInv, NEW e \in Editors, Open(e)
  PROVE  IInv'
  <1> DEFINE x == [Closed EXCEPT !.open = TRUE, !.base = cached[e],
                       !.items = IF cached[e] = 0 THEN {} ELSE scenes[cached[e]]]
  <1>1. /\ cached[e] \in 0..version /\ cached[e] \in 0..MaxVersion /\ ~tab[e].open
        /\ cached[e] # 0 => cached[e] \in Versions
    BY BoardsAssumption DEF Open, IInv, TypeOK, Bounded, Versions
  <1>2. /\ x \in Tab /\ x.open /\ x.base = cached[e] /\ x.saving = None
        /\ cached[e] # 0 => x.items = scenes[cached[e]]
    BY <1>1, BoardsAssumption DEF Closed, Tab, IInv, TypeOK, Versions
  <1> HIDE DEF x
  <1>3. /\ tab' = [tab EXCEPT ![e] = x]
        /\ UNCHANGED <<alive, version, scenes, author, cached, fetched, request, strayed>>
    BY DEF Open, row, cache, x
  <1>4. TypeOK'
    BY <1>2, <1>3 DEF IInv, TypeOK, Versions
  <1>5. /\ NothingOverwritten' /\ RefusedForAnother' /\ Authored' /\ NoBlanks'
        /\ \A r \in Requests : Carries(r)'
    BY <1>3 DEF IInv, NothingOverwritten, RefusedForAnother, Authored, NoBlanks, Carries, Versions
  <1>6. SavedIsStored'
    <2>1. cached[e] # 0 => scenes[cached[e]] \cap Blanks = {}
      BY <1>1 DEF IInv, NoBlanks
    <2>2. cached[e] # 0 =>
            x.items \ (Blanks \cup Resizes) = scenes[cached[e]] \ Resizes
      BY <1>2, <2>1
    <2> QED BY <1>2, <1>3, <2>2 DEF IInv, TypeOK, SavedIsStored
  <1>7. \A f \in Editors : Bounded(f)' /\ Holds(f)' /\ Awaits(f)'
    BY <1>1, <1>2, <1>3 DEF IInv, TypeOK, Bounded, Holds, Awaits, Versions
  <1>8. ASSUME NEW f \in Editors, f \notin strayed
        PROVE  Informed(f)'
    <2>1. CASE f = e
      <3>1. tab[e].saving = None
        BY <1>1 DEF IInv, Awaits
      <3>2. tab'[e] = x
        BY <1>3 DEF IInv, TypeOK
      <3>3. \A r \in Requests : InFlight(e, r)'
        BY <1>2, <1>3, <1>8, <2>1, <3>1, <3>2, BoardsAssumption
        DEF IInv, Informed, InFlight
      <3>4. \A v \in Versions : Knows(e, v)'
        BY <1>1, <1>2, <1>3, <1>8, <2>1, <3>1, <3>2
        DEF IInv, Informed, Knows, Underway, Seen, Versions
      <3> QED BY <2>1, <3>3, <3>4 DEF Informed, Versions
    <2>2. CASE f # e
      <3>1. tab'[f] = tab[f]
        BY <1>3, <2>2 DEF IInv, TypeOK
      <3> QED BY <1>3, <3>1 DEF IInv, Informed, InFlight, Knows, Underway, Seen, Versions
    <2> QED BY <2>1, <2>2
  <1>9. \A f \in Editors : Informed(f)'
    BY <1>3, <1>8 DEF Informed
  <1> QED BY <1>4, <1>5, <1>6, <1>7, <1>9 DEF IInv

LEMMA CloseKeepsInvariant ==
  ASSUME IInv, NEW e \in Editors, Close(e)
  PROVE  IInv'
  <1>1. /\ tab' = [tab EXCEPT ![e] = Closed]
        /\ strayed \subseteq strayed' /\ strayed' \subseteq strayed \cup {e}
        /\ e \notin strayed' => tab[e].saving = None
        /\ UNCHANGED <<alive, version, scenes, author, cached, fetched, request>>
    BY DEF Close, row, cache
  <1>2. TypeOK'
    BY <1>1, ClosedIsTab DEF IInv, TypeOK, Versions
  <1>3. /\ NothingOverwritten' /\ RefusedForAnother' /\ Authored' /\ NoBlanks'
        /\ \A r \in Requests : Carries(r)'
    BY <1>1 DEF IInv, NothingOverwritten, RefusedForAnother, Authored, NoBlanks, Carries, Versions
  <1>4. SavedIsStored'
    BY <1>1, ClosedIsTab DEF IInv, TypeOK, SavedIsStored
  <1>5. \A f \in Editors : Bounded(f)' /\ Holds(f)' /\ Awaits(f)'
    BY <1>1, ClosedIsTab DEF IInv, TypeOK, Bounded, Holds, Awaits, Versions
  <1>6. ASSUME NEW f \in Editors, f \notin strayed'
        PROVE  Informed(f)'
    <2>1. CASE f = e
      <3>1. tab'[e] = Closed
        BY <1>1 DEF IInv, TypeOK
      <3>2. \A r \in Requests : InFlight(e, r)'
        BY <1>1, <1>6, <2>1, <3>1, ClosedIsTab, BoardsAssumption
        DEF IInv, Informed, InFlight
      <3>3. \A v \in Versions : Knows(e, v)'
        BY <1>1, <1>6, <2>1, <3>1, ClosedIsTab
        DEF IInv, Informed, Knows, Underway, Seen, Versions
      <3> QED BY <2>1, <3>2, <3>3 DEF Informed, Versions
    <2>2. CASE f # e
      <3>1. tab'[f] = tab[f] /\ f \notin strayed
        BY <1>1, <1>6, <2>2 DEF IInv, TypeOK
      <3> QED BY <1>1, <3>1 DEF IInv, Informed, InFlight, Knows, Underway, Seen, Versions
    <2> QED BY <2>1, <2>2
  <1>7. \A f \in Editors : Informed(f)'
    BY <1>6 DEF Informed
  <1> QED BY <1>2, <1>3, <1>4, <1>5, <1>7 DEF IInv

LEMMA ChangeKeepsInvariant ==
  ASSUME IInv, NEW e \in Editors, NEW c \in Changes, Change(e, c)
  PROVE  IInv'
  <1> DEFINE x == [tab[e] EXCEPT !.items = tab[e].items \cup {c},
                     !.dirty = tab[e].dirty \/ c \notin Resizes,
                     !.raced = tab[e].raced \/ tab[e].saving # None]
  <1>1. tab[e] \in Tab /\ tab[e].open
    BY DEF Change, Ready, IInv, TypeOK
  <1>2. /\ x \in Tab /\ x.open /\ x.base = tab[e].base
        /\ tab[e].dirty => x.dirty
        /\ ~x.dirty => ~tab[e].dirty /\ c \in Resizes
        /\ ~x.raced => ~tab[e].raced
        /\ x.items = tab[e].items \cup {c} /\ x.saving = tab[e].saving
        /\ x.saving # None => x.raced
    BY <1>1 DEF Tab
  <1> HIDE DEF x
  <1>3. /\ tab' = [tab EXCEPT ![e] = x]
        /\ UNCHANGED <<alive, version, scenes, author, cached, fetched, request, strayed>>
    BY DEF Change, row, cache, x
  <1>4. TypeOK'
    BY <1>2, <1>3 DEF IInv, TypeOK, Versions
  <1>5. /\ NothingOverwritten' /\ RefusedForAnother' /\ Authored' /\ NoBlanks'
        /\ \A r \in Requests : Carries(r)'
    BY <1>3 DEF IInv, NothingOverwritten, RefusedForAnother, Authored, NoBlanks, Carries, Versions
  <1>6. SavedIsStored'
    <2>1. c \in Resizes => x.items \ (Blanks \cup Resizes)
                             = tab[e].items \ (Blanks \cup Resizes)
      BY <1>2
    <2> QED BY <1>1, <1>2, <1>3, <2>1 DEF IInv, TypeOK, SavedIsStored
  <1>7. \A f \in Editors : Bounded(f)' /\ Holds(f)'
    BY <1>1, <1>2, <1>3 DEF IInv, TypeOK, Bounded, Holds, Versions
  <1>8. ASSUME NEW f \in Editors
        PROVE  Awaits(f)' /\ Informed(f)'
    <2>1. /\ tab'[f].saving = tab[f].saving /\ tab'[f].open = tab[f].open
          /\ tab'[f].base = tab[f].base /\ (tab[f].dirty => tab'[f].dirty)
          /\ tab[f].items \subseteq tab'[f].items
          /\ tab'[f].saving # None => tab'[f].raced \/ tab'[f] = tab[f]
      BY <1>1, <1>2, <1>3 DEF IInv, TypeOK
    <2>2. Awaits(f)'
      BY <1>3, <2>1 DEF IInv, Awaits
    <2>3. Informed(f)'
      BY <1>3, <2>1 DEF IInv, Informed, InFlight, Knows, Underway, Seen, Versions
    <2> QED BY <2>2, <2>3
  <1> QED BY <1>4, <1>5, <1>6, <1>7, <1>8 DEF IInv

LEMMA SaveKeepsInvariant ==
  ASSUME IInv, NEW e \in Editors, NEW r \in Requests, Save(e, r)
  PROVE  IInv'
  <1> DEFINE x == [tab[e] EXCEPT !.saving = r, !.raced = FALSE]
  <1> DEFINE q == [at |-> "sent", by |-> e, items |-> tab[e].items,
                   base |-> tab[e].base, lost |-> FALSE]
  <1>1. /\ tab[e] \in Tab /\ tab[e].open /\ tab[e].dirty /\ tab[e].saving = None
        /\ request[r].at = "free"
    BY DEF Save, Ready, IInv, TypeOK
  <1>2. /\ x \in Tab /\ x.open /\ x.dirty /\ x.base = tab[e].base
        /\ x.items = tab[e].items /\ x.saving = r
    BY <1>1 DEF Tab
  <1>3. /\ q \in Request /\ q.at = "sent" /\ q.by = e /\ q.items = tab[e].items
        /\ q.base = tab[e].base /\ ~q.lost
    BY <1>1 DEF Request, Tab
  <1> HIDE DEF x, q
  <1>4. /\ tab' = [tab EXCEPT ![e] = x]
        /\ request' = [request EXCEPT ![r] = q]
        /\ UNCHANGED <<alive, version, scenes, author, cached, fetched, strayed>>
    BY DEF Save, row, cache, x, q
  <1>5. TypeOK'
    BY <1>2, <1>3, <1>4 DEF IInv, TypeOK, Versions
  <1>6. NothingOverwritten' /\ Authored' /\ NoBlanks'
    BY <1>4 DEF IInv, NothingOverwritten, Authored, NoBlanks, Versions
  <1>7. SavedIsStored'
    BY <1>2, <1>4 DEF IInv, TypeOK, SavedIsStored
  <1>8. RefusedForAnother'
    BY <1>3, <1>4 DEF IInv, TypeOK, RefusedForAnother, Versions
  <1>9. \A f \in Editors : Bounded(f)' /\ Holds(f)'
    BY <1>1, <1>2, <1>4 DEF IInv, TypeOK, Bounded, Holds, Versions
  <1>10. \A p \in Requests : Carries(p)'
    BY <1>1, <1>3, <1>4 DEF IInv, TypeOK, Carries, Holds
  <1>11. ASSUME NEW f \in Editors
         PROVE  Awaits(f)' /\ Informed(f)'
    <2>1. CASE f = e
      <3>1. tab'[e] = x /\ request'[r] = q
        BY <1>4 DEF IInv, TypeOK
      <3>2. Awaits(e)'
        BY <1>2, <1>3, <3>1 DEF Awaits
      <3>3. e \notin strayed => \A p \in Requests : InFlight(e, p)'
        BY <1>1, <1>2, <1>4, <3>1, BoardsAssumption DEF IInv, TypeOK, Informed, InFlight
      <3>4. e \notin strayed => \A v \in Versions : Knows(e, v)'
        BY <1>1, <1>2, <1>4, <3>1 DEF IInv, Informed, Knows, Underway, Seen, Versions
      <3> QED BY <1>4, <2>1, <3>2, <3>3, <3>4 DEF Informed, Versions
    <2>2. CASE f # e
      <3>1. tab'[f] = tab[f]
        BY <1>4, <2>2 DEF IInv, TypeOK
      <3>2. tab[f].saving # None => tab[f].saving # r
        BY <1>1 DEF IInv, Awaits
      <3>3. tab[f].saving # None => request'[tab[f].saving] = request[tab[f].saving]
        BY <1>4, <3>2 DEF IInv, TypeOK, Tab
      <3>4. Awaits(f)'
        BY <3>1, <3>3 DEF IInv, Awaits
      <3>5. f \notin strayed => \A p \in Requests : InFlight(f, p)'
        BY <1>3, <1>4, <2>2, <3>1 DEF IInv, TypeOK, Informed, InFlight
      <3>6. f \notin strayed => \A v \in Versions : Knows(f, v)'
        BY <1>4, <3>1, <3>3 DEF IInv, Informed, Knows, Underway, Seen, Versions
      <3> QED BY <1>4, <3>4, <3>5, <3>6 DEF Informed, Versions
    <2> QED BY <2>1, <2>2
  <1> QED BY <1>5, <1>6, <1>7, <1>8, <1>9, <1>10, <1>11 DEF IInv

-----------------------------------------------------------------------------
(* The steps of the server.                                                *)

\* The scene that is stored holds the one it replaces: the save was sent by an
\* editor that held all of this version.
LEMMA StoreKeepsInvariant ==
  ASSUME IInv, NEW r \in Requests, Store(r)
  PROVE  IInv'
  <1> DEFINE q == [request[r] EXCEPT !.at = "saved", !.base = version + 1]
  <1>1. /\ request[r] \in Request /\ request[r].at = "sent"
        /\ request[r].base = version /\ version \in Versions
        /\ version + 1 \in Versions /\ version + 1 \in 0..MaxVersion
        /\ version \in Nat
    BY BoardsAssumption DEF Store, Matches, IInv, TypeOK, Versions
  <1>2. /\ q \in Request /\ q.at = "saved" /\ q.by = request[r].by
        /\ q.items = request[r].items /\ q.base = version + 1
        /\ q.lost = request[r].lost
    BY <1>1 DEF Request
  <1> HIDE DEF q
  <1>3. /\ request' = [request EXCEPT ![r] = q]
        /\ version' = version + 1
        /\ scenes' = [scenes EXCEPT ![version + 1] = request[r].items \ Blanks]
        /\ author' = [author EXCEPT ![version + 1] = request[r].by]
        /\ UNCHANGED <<alive, cached, fetched, tab, strayed>>
    BY DEF Store, cache, q
  <1>4. TypeOK'
    BY <1>1, <1>2, <1>3 DEF IInv, TypeOK, Versions, Request
  <1>5. /\ \A v \in 1..version : scenes'[v] = scenes[v] /\ author'[v] = author[v]
        /\ scenes'[version + 1] = request[r].items \ Blanks
        /\ author'[version + 1] = request[r].by
    BY <1>1, <1>3, BoardsAssumption DEF IInv, TypeOK, Versions
  <1>6. request'[r] = q /\ \A p \in Requests : p # r => request'[p] = request[p]
    BY <1>3 DEF IInv, TypeOK
  <1>7. scenes[version] \subseteq request[r].items \ Blanks
    <2>1. scenes[version] \subseteq request[r].items /\ scenes[version] \cap Blanks = {}
      BY <1>1, BoardsAssumption DEF IInv, Carries, NoBlanks, Versions
    <2> QED BY <2>1
  <1>8. NothingOverwritten'
    <2>1. ASSUME NEW v \in 2..MaxVersion, v <= version + 1
          PROVE  scenes'[v - 1] \subseteq scenes'[v]
      <3>1. CASE v = version + 1
        BY <1>1, <1>5, <1>7, <3>1, BoardsAssumption DEF Versions
      <3>2. CASE v # version + 1
        <4>1. v \in 1..version /\ v - 1 \in 1..version /\ v <= version
          BY <1>1, <2>1, <3>2, BoardsAssumption
        <4> QED BY <1>5, <4>1 DEF IInv, NothingOverwritten
      <3> QED BY <3>1, <3>2
    <2> QED BY <1>3, <2>1 DEF NothingOverwritten
  <1>9. \A f \in Editors : Bounded(f)' /\ Holds(f)'
    BY <1>1, <1>3, <1>5, BoardsAssumption DEF IInv, TypeOK, Bounded, Holds
  <1>10. Authored'
    <2>1. request[r].by \in Editors
      BY <1>1 DEF IInv, Carries
    <2>2. ASSUME NEW v \in 2..MaxVersion, v <= version + 1
          PROVE  author'[v] \in Editors
      <3>1. CASE v = version + 1
        BY <1>5, <2>1, <3>1
      <3>2. CASE v # version + 1
        <4>1. v \in 1..version /\ v <= version
          BY <1>1, <2>2, <3>2, BoardsAssumption
        <4> QED BY <1>5, <4>1 DEF IInv, Authored
      <3> QED BY <3>1, <3>2
    <2> QED BY <1>3, <2>2 DEF Authored
  <1>11. NoBlanks'
    BY <1>1, <1>3 DEF IInv, TypeOK, NoBlanks, Versions
  <1>12. SavedIsStored'
    BY <1>1, <1>3, <1>5 DEF IInv, SavedIsStored, Holds
  <1>13. RefusedForAnother'
    <2>1. ASSUME NEW p \in Requests, request'[p].at = "stale",
                 request'[p].base # 0, request'[p].by \notin strayed
          PROVE  \E v \in Versions : /\ request'[p].base < v /\ v <= version + 1
                                     /\ author'[v] \in Editors \ {request'[p].by}
      <3>1. p # r /\ request'[p] = request[p]
        BY <1>2, <1>6, <2>1
      <3>2. PICK v \in Versions : /\ request[p].base < v /\ v <= version
                                  /\ author[v] \in Editors \ {request[p].by}
        BY <2>1, <3>1 DEF IInv, RefusedForAnother
      <3>3. v \in 1..version /\ v <= version + 1
        BY <1>1, <3>2, BoardsAssumption DEF Versions
      <3> QED BY <1>5, <3>1, <3>2, <3>3
    <2> QED BY <1>3, <2>1 DEF RefusedForAnother, Versions
  <1>14. ASSUME NEW p \in Requests
         PROVE  Carries(p)'
    <2>1. CASE p = r
      BY <1>1, <1>2, <1>3, <1>5, <1>6, <2>1 DEF IInv, Carries
    <2>2. CASE p # r
      <3>1. Carries(p) /\ request'[p] = request[p]
        BY <1>6, <2>2 DEF IInv
      <3>2. request[p].at \in {"sent", "saved"} /\ request[p].base # 0 =>
              /\ request[p].base \in 1..(version + 1)
              /\ scenes'[request[p].base] = scenes[request[p].base]
        BY <1>1, <1>5, <3>1 DEF Carries
      <3>3. request[p].at = "sent" => request[p].base \in 0..(version + 1)
        BY <1>1, <3>1 DEF Carries
      <3> QED BY <1>1, <1>3, <3>1, <3>2, <3>3 DEF Carries
    <2> QED BY <2>1, <2>2
  <1>15. ASSUME NEW f \in Editors
         PROVE  Awaits(f)'
    <2>1. Awaits(f) /\ tab'[f] = tab[f]
      BY <1>3 DEF IInv
    <2>2. CASE tab[f].saving = r
      BY <1>1, <1>2, <1>6, <2>1, <2>2, BoardsAssumption DEF Awaits, IInv, Holds, Versions
    <2>3. CASE tab[f].saving # r
      <3>1. tab[f].saving # None => request'[tab[f].saving] = request[tab[f].saving]
        BY <1>6, <2>3 DEF IInv, TypeOK, Tab
      <3> QED BY <2>1, <3>1 DEF Awaits
    <2> QED BY <2>2, <2>3
  <1>16. ASSUME NEW f \in Editors, f \notin strayed
         PROVE  Informed(f)'
    <2>1. Informed(f) /\ tab'[f] = tab[f]
      BY <1>3 DEF IInv
    <2>2. \A p \in Requests : InFlight(f, p)'
      BY <1>1, <1>2, <1>6, <1>16, <2>1 DEF Informed, InFlight
    <2>3. ASSUME NEW v \in Versions, author'[v] = f, v <= version + 1
          PROVE  Underway(f, v)' \/ Seen(f, v)'
      <3>1. CASE v = version + 1
        <4>1. InFlight(f, r) /\ request[r].by = f
          BY <1>5, <1>16, <2>1, <2>3, <3>1 DEF Informed
        <4>2. tab[f].saving = r
          BY <1>1, <4>1 DEF InFlight
        <4> QED BY <1>2, <1>6, <2>1, <3>1, <4>2, BoardsAssumption DEF Underway
      <3>2. CASE v # version + 1
        <4>1. v \in 1..version /\ v <= version /\ author[v] = f
          BY <1>1, <1>5, <2>3, <3>2, BoardsAssumption DEF Versions
        <4>2. Knows(f, v)
          BY <1>16, <2>1 DEF Informed
        <4>3. Underway(f, v) => tab[f].saving # r /\ Underway(f, v)'
          BY <1>1, <1>6, <2>1 DEF Underway, IInv, TypeOK, Tab
        <4>4. Seen(f, v) => Seen(f, v)'
          BY <1>3 DEF Seen
        <4> QED BY <4>1, <4>2, <4>3, <4>4 DEF Knows
      <3> QED BY <3>1, <3>2
    <2>4. \A v \in Versions : Knows(f, v)'
      BY <1>3, <2>3 DEF Knows
    <2> QED BY <2>2, <2>4 DEF Informed, Versions
  <1>17. \A f \in Editors : Informed(f)'
    BY <1>3, <1>16 DEF Informed
  <1> QED BY <1>4, <1>8, <1>9, <1>10, <1>11, <1>12, <1>13, <1>14, <1>15, <1>17 DEF IInv

\* The board moved on from the version of the save, and this tab knows of every
\* version of its own.
LEMMA RefuseKeepsInvariant ==
  ASSUME IInv, NEW r \in Requests, Refuse(r)
  PROVE  IInv'
  <1> PICK answer \in {"stale", "failed"} :
        /\ answer = "stale" => alive /\ ~Matches(r)
        /\ request' = [request EXCEPT ![r] = [@ EXCEPT !.at = answer]]
    BY DEF Refuse
  <1> DEFINE q == [request[r] EXCEPT !.at = answer]
  <1>1. request[r] \in Request /\ request[r].at = "sent"
    BY DEF Refuse, IInv, TypeOK
  <1>2. /\ q \in Request /\ q.at \in {"stale", "failed"} /\ q.by = request[r].by
        /\ q.items = request[r].items /\ q.base = request[r].base
        /\ q.lost = request[r].lost
        /\ q.at = "stale" => alive /\ ~Matches(r)
    BY <1>1 DEF Request
  <1> HIDE DEF q
  <1>3. /\ request' = [request EXCEPT ![r] = q]
        /\ UNCHANGED <<alive, version, scenes, author, cached, fetched, tab, strayed>>
    BY DEF Refuse, row, cache, q
  <1>4. TypeOK'
    BY <1>2, <1>3 DEF IInv, TypeOK, Versions
  <1>5. NothingOverwritten' /\ SavedIsStored' /\ Authored' /\ NoBlanks'
    BY <1>3 DEF IInv, NothingOverwritten, SavedIsStored, Authored, NoBlanks, Versions
  <1>6. \A f \in Editors : Bounded(f)' /\ Holds(f)'
    BY <1>3 DEF IInv, Bounded, Holds, Versions
  <1>7. request'[r] = q /\ \A p \in Requests : p # r => request'[p] = request[p]
    BY <1>3 DEF IInv, TypeOK
  <1>8. \A p \in Requests : Carries(p)'
    BY <1>1, <1>2, <1>3, <1>7 DEF IInv, Carries
  <1>9. ASSUME NEW f \in Editors
        PROVE  Awaits(f)'
    <2>1. Awaits(f) /\ tab'[f] = tab[f]
      BY <1>3 DEF IInv
    <2>2. CASE tab[f].saving = r
      BY <1>2, <1>7, <2>1, <2>2 DEF Awaits
    <2>3. CASE tab[f].saving # r
      <3>1. tab[f].saving # None => request'[tab[f].saving] = request[tab[f].saving]
        BY <1>7, <2>3 DEF IInv, TypeOK, Tab
      <3> QED BY <2>1, <3>1 DEF Awaits
    <2> QED BY <2>2, <2>3
  <1>10. ASSUME NEW f \in Editors, f \notin strayed
         PROVE  Informed(f)'
    <2>1. Informed(f) /\ tab'[f] = tab[f]
      BY <1>3 DEF IInv
    <2>2. \A p \in Requests : InFlight(f, p)'
      BY <1>1, <1>2, <1>7, <1>10, <2>1 DEF Informed, InFlight
    <2>3. \A v \in Versions : Underway(f, v) => Underway(f, v)'
      BY <1>1, <1>7, <2>1 DEF Underway, IInv, TypeOK, Tab
    <2>4. \A v \in Versions : Knows(f, v)'
      BY <1>3, <1>10, <2>1, <2>3 DEF Informed, Knows, Seen
    <2> QED BY <2>2, <2>4 DEF Informed, Versions
  <1>11. \A f \in Editors : Informed(f)'
    BY <1>3, <1>10 DEF Informed
  <1>12. ASSUME request'[r].at = "stale", request'[r].base # 0,
                request'[r].by \notin strayed
         PROVE  \E v \in Versions : /\ request[r].base < v /\ v <= version
                                    /\ author[v] \in Editors \ {request[r].by}
    <2>1. /\ request[r].base \in 1..version /\ request[r].base # version
          /\ version \in Versions
      BY <1>1, <1>2, <1>7, <1>12 DEF Matches, IInv, Carries, TypeOK
    <2>2. request[r].base < version
      BY <2>1, BoardsAssumption DEF Versions
    <2>3. author[version] # request[r].by
      <3> DEFINE e == request[r].by
      <3>1. e \in Editors
        BY <1>1 DEF IInv, Carries
      <3>2. author[version] # e
        <4>1. SUFFICES ASSUME author[version] = e PROVE FALSE
          OBVIOUS
        <4>2. Informed(e) /\ Awaits(e)
          BY <3>1 DEF IInv
        <4>3. tab[e].saving = r
          BY <1>1, <1>2, <1>7, <1>12, <4>2 DEF Informed, InFlight
        <4>4. tab[e].open /\ tab[e].base = request[r].base
          BY <1>1, <2>1, <4>2, <4>3, BoardsAssumption DEF Awaits
        <4>5. Knows(e, version) /\ ~Underway(e, version)
          BY <1>1, <1>2, <1>7, <1>12, <2>1, <4>2, <4>3 DEF Informed, Underway
        <4>6. version <= tab[e].base
          BY <2>1, <4>1, <4>4, <4>5, BoardsAssumption DEF Knows, Seen, Versions
        <4> QED BY <2>1, <2>2, <4>4, <4>6, BoardsAssumption DEF Versions
      <3> QED BY <3>2
    <2>4. author[version] \in Editors
      BY <2>1, <2>2, BoardsAssumption DEF IInv, Authored, Versions
    <2> QED BY <2>1, <2>2, <2>3, <2>4, BoardsAssumption DEF Versions
  <1>13. RefusedForAnother'
    BY <1>2, <1>3, <1>7, <1>12 DEF IInv, RefusedForAnother, Versions
  <1> QED BY <1>4, <1>5, <1>6, <1>8, <1>9, <1>11, <1>13 DEF IInv

LEMMA DeleteKeepsInvariant ==
  ASSUME IInv, Delete
  PROVE  IInv'
  <1>1. /\ alive' = FALSE
        /\ UNCHANGED <<version, scenes, author, cached, fetched, tab, request, strayed>>
    BY DEF Delete, cache
  <1>2. TypeOK'
    BY <1>1 DEF IInv, TypeOK, Versions
  <1>3. /\ NothingOverwritten' /\ SavedIsStored' /\ RefusedForAnother'
        /\ Authored' /\ NoBlanks'
    BY <1>1 DEF IInv, NothingOverwritten, SavedIsStored, RefusedForAnother, Authored, NoBlanks, Versions
  <1>4. /\ \A f \in Editors : Bounded(f)' /\ Holds(f)' /\ Awaits(f)' /\ Informed(f)'
        /\ \A r \in Requests : Carries(r)'
    BY <1>1 DEF IInv, Bounded, Holds, Carries, Awaits, Informed, InFlight, Knows, Underway, Seen, Versions
  <1> QED BY <1>2, <1>3, <1>4 DEF IInv

-----------------------------------------------------------------------------
(* The answers.                                                            *)

\* The editor still holds what it sent, which is the scene of the version that
\* it takes.
LEMMA AnswerSavedKeepsInvariant ==
  ASSUME IInv, NEW r \in Requests, AnswerSaved(r)
  PROVE  IInv'
  <1> DEFINE e == request[r].by
  <1> DEFINE x == [tab[e] EXCEPT !.base = request[r].base, !.dirty = FALSE,
                                 !.saving = None]
  <1> DEFINE y == Loaded(e, request[r].base)
  <1>1. /\ request[r] \in Request /\ request[r].at = "saved" /\ e \in Editors
        /\ tab[e] \in Tab /\ request[r].base \in 1..version
        /\ scenes[request[r].base] = request[r].items \ Blanks
        /\ version \in Nat /\ request[r].base \in Nat
    BY BoardsAssumption DEF AnswerSaved, IInv, TypeOK, Carries, Versions
  <1>2. /\ x \in Tab /\ x.open = tab[e].open /\ x.base = request[r].base
        /\ x.items = tab[e].items /\ x.saving = None /\ ~x.dirty
        /\ x.raced = tab[e].raced
    BY <1>1 DEF Tab, Request
  <1>3. /\ y \in Tab /\ y.open = tab[e].open /\ y.dirty = tab[e].dirty
        /\ y.saving = tab[e].saving /\ y.raced = tab[e].raced
        /\ Unloaded(e) => y.items = scenes[request[r].base] /\ y.base = request[r].base
        /\ ~Unloaded(e) => y = tab[e]
    BY <1>1, Loading
  <1> HIDE DEF x, y
  <1>4. /\ request' = [request EXCEPT ![r] = Free]
        /\ cached' = [cached EXCEPT ![e] = request[r].base]
        /\ UNCHANGED <<alive, version, scenes, author, fetched, strayed>>
        /\ tab[e].saving = r => tab' = [tab EXCEPT ![e] = x]
        /\ tab[e].saving # r => tab' = [tab EXCEPT ![e] = y]
    BY DEF AnswerSaved, row, x, y
  <1>5. TypeOK'
    <2>1. request[r].base \in 0..MaxVersion
      BY <1>1 DEF Request
    <2>2. tab' \in [Editors -> Tab]
      BY <1>2, <1>3, <1>4 DEF IInv, TypeOK
    <2> QED BY <1>4, <2>1, <2>2, FreeIsRequest DEF IInv, TypeOK, Versions
  <1>6. /\ request'[r] = Free
        /\ \A p \in Requests : p # r => request'[p] = request[p]
    BY <1>4 DEF IInv, TypeOK
  <1>7. /\ tab[e].saving = r => tab'[e] = x
        /\ tab[e].saving # r => tab'[e] = y
        /\ \A f \in Editors : f # e => tab'[f] = tab[f]
    BY <1>1, <1>4 DEF IInv, TypeOK
  <1>8. tab[e].saving = r =>
          /\ tab[e].open /\ request[r].items \subseteq tab[e].items
          /\ tab[e].raced \/ request[r].items = tab[e].items
          /\ 0 < tab[e].base /\ tab[e].base < request[r].base
    BY <1>1, BoardsAssumption DEF IInv, Awaits
  <1>9. NothingOverwritten' /\ Authored' /\ NoBlanks'
    BY <1>4 DEF IInv, NothingOverwritten, Authored, NoBlanks, Versions
  <1>10. SavedIsStored'
    <2>1. CASE tab[e].saving = r
      <3>1. ~tab[e].raced => x.items \ (Blanks \cup Resizes) = scenes[x.base] \ Resizes
        BY <1>1, <1>2, <1>8, <2>1
      <3> QED BY <1>2, <1>4, <1>7, <2>1, <3>1 DEF IInv, SavedIsStored
    <2>2. CASE tab[e].saving # r
      <3>1. scenes[request[r].base] \cap Blanks = {}
        BY <1>1, <1>5, BoardsAssumption DEF IInv, NoBlanks, TypeOK, Versions
      <3>2. Unloaded(e) => y.items \ (Blanks \cup Resizes) = scenes[y.base] \ Resizes
        BY <1>3, <3>1
      <3> QED BY <1>3, <1>4, <1>7, <2>2, <3>2 DEF IInv, SavedIsStored
    <2> QED BY <2>1, <2>2
  <1>11. RefusedForAnother'
    BY <1>4, <1>6, FreeIsRequest DEF IInv, RefusedForAnother, Versions
  <1>12. ASSUME NEW f \in Editors
         PROVE  Bounded(f)' /\ Holds(f)'
    <2>1. cached'[f] = cached[f] \/ (f = e /\ cached'[f] = request[r].base)
      BY <1>1, <1>4 DEF IInv, TypeOK
    <2>2. Bounded(f)'
      BY <1>1, <1>4, <2>1 DEF IInv, Bounded
    <2>3. Holds(f)'
      <3>1. CASE f # e
        BY <1>4, <1>7, <2>1, <3>1 DEF IInv, Holds
      <3>2. CASE f = e /\ tab[e].saving = r
        BY <1>1, <1>2, <1>4, <1>7, <1>8, <3>2 DEF Holds
      <3>3. CASE f = e /\ tab[e].saving # r
        BY <1>1, <1>3, <1>4, <1>7, <3>3 DEF IInv, Holds, Unloaded
      <3> QED BY <3>1, <3>2, <3>3
    <2> QED BY <2>2, <2>3
  <1>13. \A p \in Requests : Carries(p)'
    BY <1>4, <1>6, FreeIsRequest DEF IInv, Carries
  <1>14. ASSUME NEW f \in Editors, f # e \/ tab[e].saving # r
         PROVE  /\ tab[f].saving # r /\ tab'[f].saving = tab[f].saving
                /\ f # e => tab'[f] = tab[f]
                /\ tab[f].saving # None =>
                     request'[tab[f].saving] = request[tab[f].saving]
    <2>1. tab'[f].saving = tab[f].saving /\ (f # e => tab'[f] = tab[f])
      BY <1>3, <1>7, <1>14
    <2>2. tab[f].saving = r => request[r].by = f
      BY BoardsAssumption DEF IInv, Awaits
    <2> QED BY <1>6, <1>14, <2>1, <2>2 DEF IInv, TypeOK, Tab
  <1>15. ASSUME NEW f \in Editors
         PROVE  Awaits(f)'
    <2>1. CASE f = e /\ tab[e].saving = r
      BY <1>2, <1>7, <2>1 DEF Awaits
    <2>2. CASE f # e
      BY <1>14, <2>2 DEF IInv, Awaits
    <2>3. CASE f = e /\ tab[e].saving # r
      <3>1. Unloaded(e) /\ tab[e].saving # None =>
              /\ request[tab[e].saving].at # "saved"
              /\ request[tab[e].saving].at = "sent" => request[tab[e].saving].base = 0
        BY <1>1 DEF IInv, Awaits, Unloaded
      <3>2. Awaits(e)
        BY <1>1 DEF IInv
      <3>3. /\ tab'[e] = y /\ y.saving = tab[e].saving
            /\ tab[e].saving # None => request'[tab[e].saving] = request[tab[e].saving]
        BY <1>1, <1>3, <1>7, <1>14, <2>3
      <3>4. CASE Unloaded(e)
        BY <1>3, <2>3, <3>1, <3>2, <3>3, <3>4 DEF Awaits
      <3>5. CASE ~Unloaded(e)
        BY <1>3, <2>3, <3>2, <3>3, <3>5 DEF Awaits
      <3> QED BY <3>4, <3>5
    <2> QED BY <2>1, <2>2, <2>3
  <1>16. ASSUME NEW f \in Editors, f \notin strayed
         PROVE  Informed(f)'
    <2>1. Informed(f)
      BY <1>16 DEF IInv
    <2>2. CASE f = e
      <3>1. tab[e].saving = r
        BY <1>1, <1>16, <2>1, <2>2 DEF Informed, InFlight
      <3>2. \A p \in Requests : InFlight(f, p)'
        BY <1>1, <1>6, <1>16, <2>1, <2>2, <3>1, FreeIsRequest DEF Informed, InFlight
      <3>3. cached'[e] = request[r].base /\ tab'[e].base = request[r].base
        BY <1>1, <1>2, <1>4, <1>7, <3>1 DEF IInv, TypeOK
      <3>4. ASSUME NEW v \in Versions, author[v] = e, v <= version
            PROVE  v <= request[r].base
        <4>1. Knows(e, v)
          BY <1>16, <2>1, <2>2 DEF Informed
        <4>2. Underway(e, v) => v = request[r].base
          BY <3>1 DEF Underway
        <4>3. tab[e].base \in Nat
          BY <1>1 DEF Tab
        <4> QED BY <1>1, <1>8, <3>1, <3>4, <4>1, <4>2, <4>3, BoardsAssumption
            DEF Knows, Seen, Versions
      <3>5. \A v \in Versions : Knows(f, v)'
        BY <1>4, <2>2, <3>3, <3>4 DEF Knows, Seen
      <3> QED BY <2>2, <3>2, <3>5 DEF Informed, Versions
    <2>3. CASE f # e
      <3>1. cached'[f] = cached[f]
        BY <1>4, <2>3 DEF IInv, TypeOK
      <3>2. \A p \in Requests : InFlight(f, p)'
        BY <1>6, <1>14, <1>16, <2>1, <2>3, FreeIsRequest DEF Informed, InFlight
      <3>3. \A v \in Versions : Knows(f, v)'
        BY <1>4, <1>14, <1>16, <2>1, <2>3, <3>1 DEF Informed, Knows, Underway, Seen
      <3> QED BY <3>2, <3>3 DEF Informed, Versions
    <2> QED BY <2>2, <2>3
  <1>17. \A f \in Editors : Informed(f)'
    BY <1>4, <1>16 DEF Informed
  <1> QED BY <1>5, <1>9, <1>10, <1>11, <1>12, <1>13, <1>15, <1>17 DEF IInv

LEMMA SavingEnds ==
  ASSUME IInv, NEW r \in Requests, NoLongerSaving(r)
  PROVE  /\ tab' \in [Editors -> Tab]
         /\ \A f \in Editors :
              /\ tab'[f].open = tab[f].open /\ tab'[f].base = tab[f].base
              /\ tab'[f].items = tab[f].items /\ tab'[f].dirty = tab[f].dirty
              /\ tab'[f].raced = tab[f].raced
              /\ tab'[f].saving = IF tab[f].saving = r THEN None ELSE tab[f].saving
  <1> SUFFICES ASSUME NEW f \in Editors
               PROVE  LET x == [tab[f] EXCEPT !.saving = None] IN
                      /\ tab[f] \in Tab /\ x \in Tab
                      /\ x.open = tab[f].open /\ x.base = tab[f].base
                      /\ x.items = tab[f].items /\ x.dirty = tab[f].dirty
                      /\ x.raced = tab[f].raced /\ x.saving = None
    BY DEF NoLongerSaving
  <1>1. tab[f] \in Tab
    BY DEF IInv, TypeOK
  <1> QED BY <1>1 DEF Tab

LEMMA AnswerRefusedKeepsInvariant ==
  ASSUME IInv, NEW r \in Requests, AnswerRefused(r)
  PROVE  IInv'
  <1>1. /\ request' = [request EXCEPT ![r] = Free]
        /\ request[r].at \in {"stale", "failed"}
        /\ UNCHANGED <<alive, version, scenes, author, cached, fetched, strayed>>
    BY DEF AnswerRefused, row, cache
  <1>2. /\ tab' \in [Editors -> Tab]
        /\ \A f \in Editors :
             /\ tab'[f].open = tab[f].open /\ tab'[f].base = tab[f].base
             /\ tab'[f].items = tab[f].items /\ tab'[f].dirty = tab[f].dirty
             /\ tab'[f].raced = tab[f].raced
             /\ tab'[f].saving = IF tab[f].saving = r THEN None ELSE tab[f].saving
    BY SavingEnds DEF AnswerRefused
  <1>3. TypeOK'
    BY <1>1, <1>2, FreeIsRequest DEF IInv, TypeOK, Versions
  <1>4. /\ request'[r] = Free
        /\ \A p \in Requests : p # r => request'[p] = request[p]
    BY <1>1 DEF IInv, TypeOK
  <1>5. /\ NothingOverwritten' /\ SavedIsStored' /\ RefusedForAnother'
        /\ Authored' /\ NoBlanks'
    BY <1>1, <1>2, <1>4, FreeIsRequest
    DEF IInv, NothingOverwritten, SavedIsStored, RefusedForAnother, Authored, NoBlanks, Versions
  <1>6. \A f \in Editors : Bounded(f)' /\ Holds(f)'
    BY <1>1, <1>2 DEF IInv, Bounded, Holds
  <1>7. \A p \in Requests : Carries(p)'
    BY <1>1, <1>4, FreeIsRequest DEF IInv, Carries
  <1>8. \A f \in Editors : tab'[f].saving # None =>
          /\ tab'[f].saving = tab[f].saving
          /\ request'[tab[f].saving] = request[tab[f].saving]
    BY <1>2, <1>4 DEF IInv, TypeOK, Tab
  <1>9. \A f \in Editors : Awaits(f)'
    BY <1>2, <1>8 DEF IInv, Awaits
  <1>10. ASSUME NEW f \in Editors, f \notin strayed
         PROVE  Informed(f)'
    <2>1. \A p \in Requests : InFlight(f, p)'
      BY <1>2, <1>4, <1>10, FreeIsRequest DEF IInv, Informed, InFlight
    <2>2. \A v \in Versions : Underway(f, v) => Underway(f, v)'
      BY <1>1, <1>2, <1>8 DEF Underway
    <2>3. \A v \in Versions : Knows(f, v)'
      BY <1>1, <1>2, <1>10, <2>2 DEF IInv, Informed, Knows, Seen
    <2> QED BY <2>1, <2>3 DEF Informed, Versions
  <1>11. \A f \in Editors : Informed(f)'
    BY <1>1, <1>10 DEF Informed
  <1> QED BY <1>3, <1>5, <1>6, <1>7, <1>9, <1>11 DEF IInv

LEMMA LoseKeepsInvariant ==
  ASSUME IInv, NEW r \in Requests, Lose(r)
  PROVE  IInv'
  <1> DEFINE q == [request[r] EXCEPT !.lost = TRUE]
  <1>1. /\ request[r] \in Request /\ request[r].at # "free"
        /\ request[r].by \in Editors
    BY DEF Lose, Waiting, IInv, TypeOK, Carries
  <1>2. /\ q \in Request /\ q.at = request[r].at /\ q.by = request[r].by
        /\ q.items = request[r].items /\ q.base = request[r].base
    BY <1>1 DEF Request
  <1> HIDE DEF q
  <1>3. /\ request' = [request EXCEPT ![r] = q]
        /\ strayed' = strayed \cup {request[r].by}
        /\ UNCHANGED <<alive, version, scenes, author, cached, fetched>>
    BY DEF Lose, row, cache, q
  <1>4. /\ tab' \in [Editors -> Tab]
        /\ \A f \in Editors :
             /\ tab'[f].open = tab[f].open /\ tab'[f].base = tab[f].base
             /\ tab'[f].items = tab[f].items /\ tab'[f].dirty = tab[f].dirty
             /\ tab'[f].raced = tab[f].raced
             /\ tab'[f].saving = IF tab[f].saving = r THEN None ELSE tab[f].saving
    BY SavingEnds DEF Lose
  <1>5. TypeOK'
    BY <1>1, <1>2, <1>3, <1>4 DEF IInv, TypeOK, Versions
  <1>6. request'[r] = q /\ \A p \in Requests : p # r => request'[p] = request[p]
    BY <1>3 DEF IInv, TypeOK
  <1>7. NothingOverwritten' /\ SavedIsStored' /\ Authored' /\ NoBlanks'
    BY <1>3, <1>4 DEF IInv, NothingOverwritten, SavedIsStored, Authored, NoBlanks, Versions
  <1>8. RefusedForAnother'
    <2>1. \A p \in Requests : /\ request'[p].at = request[p].at
                              /\ request'[p].by = request[p].by
                              /\ request'[p].base = request[p].base
      BY <1>2, <1>6
    <2> QED BY <1>3, <2>1 DEF IInv, RefusedForAnother, Versions
  <1>9. \A f \in Editors : Bounded(f)' /\ Holds(f)'
    BY <1>3, <1>4 DEF IInv, Bounded, Holds
  <1>10. \A p \in Requests : Carries(p)'
    BY <1>2, <1>3, <1>6 DEF IInv, Carries
  <1>11. \A f \in Editors : tab'[f].saving # None =>
           /\ tab'[f].saving = tab[f].saving
           /\ request'[tab[f].saving] = request[tab[f].saving]
    BY <1>4, <1>6 DEF IInv, TypeOK, Tab
  <1>12. \A f \in Editors : Awaits(f)'
    BY <1>4, <1>11 DEF IInv, Awaits
  <1>13. ASSUME NEW f \in Editors, f \notin strayed'
         PROVE  Informed(f)'
    <2>1. f \notin strayed /\ request[r].by # f
      BY <1>3, <1>13
    <2>2. tab[f].saving # r
      BY <2>1, BoardsAssumption DEF IInv, Awaits
    <2>3. \A p \in Requests : InFlight(f, p)'
      BY <1>2, <1>4, <1>6, <2>1, <2>2 DEF IInv, Informed, InFlight
    <2>4. \A v \in Versions : Underway(f, v) => Underway(f, v)'
      BY <1>3, <1>4, <1>11, <2>2 DEF Underway
    <2>5. \A v \in Versions : Knows(f, v)'
      BY <1>3, <1>4, <2>1, <2>4 DEF IInv, Informed, Knows, Seen
    <2> QED BY <2>3, <2>5 DEF Informed, Versions
  <1>14. \A f \in Editors : Informed(f)'
    BY <1>13 DEF Informed
  <1> QED BY <1>5, <1>7, <1>8, <1>9, <1>10, <1>12, <1>14 DEF IInv

LEMMA VanishKeepsInvariant ==
  ASSUME IInv, NEW r \in Requests, Vanish(r)
  PROVE  IInv'
  <1>1. /\ request' = [request EXCEPT ![r] = Free] /\ request[r].lost
        /\ UNCHANGED <<alive, version, scenes, author, cached, fetched, tab, strayed>>
    BY DEF Vanish, row, cache
  <1>2. TypeOK'
    BY <1>1, FreeIsRequest DEF IInv, TypeOK, Versions
  <1>3. /\ request'[r] = Free
        /\ \A p \in Requests : p # r => request'[p] = request[p]
    BY <1>1 DEF IInv, TypeOK
  <1>4. /\ NothingOverwritten' /\ SavedIsStored' /\ RefusedForAnother'
        /\ Authored' /\ NoBlanks'
    BY <1>1, <1>3, FreeIsRequest
    DEF IInv, NothingOverwritten, SavedIsStored, RefusedForAnother, Authored, NoBlanks, Versions
  <1>5. \A f \in Editors : Bounded(f)' /\ Holds(f)'
    BY <1>1 DEF IInv, Bounded, Holds
  <1>6. \A p \in Requests : Carries(p)'
    BY <1>1, <1>3, FreeIsRequest DEF IInv, Carries
  <1>7. \A f \in Editors : tab[f].saving # None =>
          request'[tab[f].saving] = request[tab[f].saving]
    BY <1>1, <1>3 DEF IInv, TypeOK, Tab, Awaits
  <1>8. \A f \in Editors : Awaits(f)'
    BY <1>1, <1>7 DEF IInv, Awaits
  <1>9. ASSUME NEW f \in Editors, f \notin strayed
        PROVE  Informed(f)'
    <2>1. \A p \in Requests : InFlight(f, p)'
      BY <1>1, <1>3, <1>9, FreeIsRequest DEF IInv, Informed, InFlight
    <2>2. \A v \in Versions : Underway(f, v) => Underway(f, v)'
      BY <1>1, <1>7 DEF Underway
    <2>3. \A v \in Versions : Knows(f, v)'
      BY <1>1, <1>9, <2>2 DEF IInv, Informed, Knows, Seen
    <2> QED BY <2>1, <2>3 DEF Informed, Versions
  <1>10. \A f \in Editors : Informed(f)'
    BY <1>1, <1>9 DEF Informed
  <1> QED BY <1>2, <1>4, <1>5, <1>6, <1>8, <1>10 DEF IInv

-----------------------------------------------------------------------------
(* The inductive invariant holds.                                          *)

LEMMA InvariantHoldsInitially == ASSUME Init PROVE IInv
  <1>1. TypeOK
    <2>1. /\ alive \in BOOLEAN /\ version \in Versions
          /\ scenes \in [Versions -> SUBSET Changes]
          /\ author \in [Versions -> Editors \cup {None}]
          /\ cached \in [Editors -> 0..MaxVersion]
          /\ fetched \in [Editors -> 0..MaxVersion]
          /\ strayed \subseteq Editors
      BY BoardsAssumption DEF Init, Versions
    <2>2. tab \in [Editors -> Tab] /\ request \in [Requests -> Request]
      BY ClosedIsTab, FreeIsRequest DEF Init
    <2> QED BY <2>1, <2>2 DEF TypeOK
  <1>2. NothingOverwritten /\ SavedIsStored /\ RefusedForAnother /\ Authored /\ NoBlanks
    BY ClosedIsTab, FreeIsRequest, BoardsAssumption
    DEF Init, NothingOverwritten, SavedIsStored, RefusedForAnother, Authored, NoBlanks, Versions
  <1>3. /\ \A e \in Editors : Bounded(e) /\ Holds(e) /\ Awaits(e)
        /\ \A r \in Requests : Carries(r)
    BY ClosedIsTab, FreeIsRequest DEF Init, Bounded, Holds, Awaits, Carries
  <1>4. ASSUME NEW e \in Editors
        PROVE  Informed(e)
    BY FreeIsRequest, BoardsAssumption
    DEF Init, Informed, InFlight, Knows, Versions
  <1> QED BY <1>1, <1>2, <1>3, <1>4 DEF IInv

LEMMA StutteringKeepsInvariant == ASSUME IInv, UNCHANGED vars PROVE IInv'
  <1>1. UNCHANGED <<alive, version, scenes, author, cached, fetched, tab, request, strayed>>
    BY DEF vars
  <1>2. /\ TypeOK' /\ NothingOverwritten' /\ SavedIsStored' /\ RefusedForAnother'
        /\ Authored' /\ NoBlanks'
    BY <1>1 DEF IInv, TypeOK, NothingOverwritten, SavedIsStored, RefusedForAnother,
       Authored, NoBlanks, Versions
  <1>3. /\ \A e \in Editors : Bounded(e)' /\ Holds(e)' /\ Awaits(e)' /\ Informed(e)'
        /\ \A r \in Requests : Carries(r)'
    BY <1>1 DEF IInv, Bounded, Holds, Awaits, Carries, Informed, InFlight, Knows, Underway, Seen, Versions
  <1> QED BY <1>2, <1>3 DEF IInv

LEMMA InvariantIsPreserved == ASSUME IInv, [Next]_vars PROVE IInv'
  <1>1. CASE \E e \in Editors : Editing(e)
    BY <1>1, FetchBeginsKeepsInvariant, FetchEndsKeepsInvariant,
       FetchFailsKeepsInvariant, EvictKeepsInvariant, OpenKeepsInvariant, CloseKeepsInvariant,
       ChangeKeepsInvariant, SaveKeepsInvariant DEF Editing
  <1>2. CASE \E r \in Requests : Handling(r)
    BY <1>2, StoreKeepsInvariant, RefuseKeepsInvariant, AnswerSavedKeepsInvariant,
       AnswerRefusedKeepsInvariant, LoseKeepsInvariant, VanishKeepsInvariant
    DEF Handling
  <1>3. CASE Delete
    BY <1>3, DeleteKeepsInvariant
  <1>4. CASE UNCHANGED vars
    BY <1>4, StutteringKeepsInvariant
  <1> QED BY <1>1, <1>2, <1>3, <1>4 DEF Next

LEMMA InvariantHolds == Spec => []IInv
  BY InvariantHoldsInitially, InvariantIsPreserved, PTL DEF Spec

-----------------------------------------------------------------------------
(* The theorems.                                                           *)

\* Every state of Boards is well typed.
THEOREM TypeCorrect == Spec => []TypeOK
  <1>1. IInv => TypeOK
    BY DEF IInv
  <1> QED BY <1>1, InvariantHolds, PTL

\* However many people edit a board, and whatever their tabs cache and are told,
\* a saved scene holds every change of the scene before it.
THEOREM NobodyIsOverwritten == Spec => []NothingOverwritten
  <1>1. IInv => NothingOverwritten
    BY DEF IInv
  <1> QED BY <1>1, InvariantHolds, PTL

\* An editor that has loaded and says "Saved" shows the stored scene of its
\* version, the emptied title and added rows and columns apart, unless something
\* was changed while a save was in flight.
THEOREM WhatIsSavedIsStored == Spec => []SavedIsStored
  <1>1. IInv => SavedIsStored
    BY DEF IInv
  <1> QED BY <1>1, InvariantHolds, PTL

\* A tab whose answers all arrived is refused what an editor saves that has
\* loaded only if somebody else has saved the board since.
THEOREM RefusalIsAnothersSave == Spec => []RefusedForAnother
  <1>1. IInv => RefusedForAnother
    BY DEF IInv
  <1> QED BY <1>1, InvariantHolds, PTL
=============================================================================
