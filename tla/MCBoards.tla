------------------------------ MODULE MCBoards ------------------------------
(* Small instances of Boards for TLC.                                      *)
EXTENDS Boards, TLC, FiniteSets

Drawn == Changes \ (Blanks \cup Resizes)
Symmetry ==
  Permutations(Editors) \cup Permutations(Requests) \cup Permutations(Drawn)

\* Bounds.  What makes a scene or a save unlike the others: an emptied title, a
\* size, an editor that has not loaded or a save of one, and an editor that is
\* dirty, or a save, without a change.
Loose == {x \in Blanks \cup Resizes : ~Unused(x)}
Baseless == {e \in Editors : Unloaded(e)}
  \cup {r \in Requests : request[r].at # "free" /\ request[r].base = 0}
Changeless ==
  {e \in Editors : /\ tab[e].open /\ tab[e].dirty /\ tab[e].base # 0
                   /\ tab[e].items = scenes[tab[e].base]}
  \cup {r \in Requests : /\ request[r].at \in {"sent", "stale", "failed"}
                         /\ request[r].base # 0
                         /\ request[r].items = scenes[request[r].base]}
Oddities == Loose \cup Baseless \cup Changeless

\* Two at a time, over the first two versions, and none with an answer astray;
\* a version that differs from the one before it.
FewOddities ==
  /\ Cardinality(Oddities) <= 2
  /\ Oddities # {} => strayed = {} /\ version <= 2
  /\ \A v \in 2..version : scenes[v] # scenes[v - 1]
=============================================================================
