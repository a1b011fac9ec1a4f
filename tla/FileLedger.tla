----------------------------- MODULE FileLedger -----------------------------
(* What attachments promise about one uploaded file, whatever stores do:   *)
(* it is listed only once its bytes are there, it stays readable until it  *)
(* is removed, and the bytes of a removed file are given back.             *)
CONSTANTS
  Files,
  Kept     \* files whose bytes may never be given back


VARIABLE file   \* where each file is in its life

Life == {"nowhere", "listed", "removed", "reclaimed"}

TypeOK == file \in [Files -> Life]

Init == file = [f \in Files |-> "nowhere"]

Moves(f, from, to) == file[f] = from /\ file' = [file EXCEPT ![f] = to]

List(f) == Moves(f, "nowhere", "listed")

\* A cascade removes any number of files at once.
Remove(gone) ==
  /\ gone # {}
  /\ \A f \in gone : file[f] = "listed"
  /\ file' = [f \in Files |-> IF f \in gone THEN "removed" ELSE file[f]]

Reclaim(f) == Moves(f, "removed", "reclaimed")

Next ==
  \/ \E f \in Files : List(f) \/ Reclaim(f)
  \/ \E gone \in SUBSET Files : Remove(gone)

Spec == Init /\ [][Next]_file /\ \A f \in Files \ Kept : WF_file(Reclaim(f))
=============================================================================
