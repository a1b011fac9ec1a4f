--------------------------- MODULE MCAttachments ---------------------------
(* Small instances of Attachments for TLC.                                 *)
EXTENDS Attachments, TLC

\* Uploads and replicas are interchangeable (for safety; Refused is empty).
Symmetry == Permutations(Files) \cup Permutations(Sweepers)
=============================================================================
