-------------------------- MODULE AttachmentsProofs --------------------------
(***************************************************************************)
(* What Attachments guarantees for any number of files, owners and         *)
(* replicas, whatever fails.  That the steps follow FileLedger needs       *)
(* INSERTs that are reported as committed (LostReplies = FALSE).           *)
(*                                                                         *)
(* The bucket and the database change in separate steps, so the invariant  *)
(* says, for each file, how far its handler and its sweepers have come:    *)
(* past Put the object is there and the row is not; a key is queued or in  *)
(* a sweeper's hands only once its row is deleted; and the object of a key *)
(* about to be cleared from the queue is already gone.                     *)
(***************************************************************************)
EXTENDS Attachments, FiniteSetTheorems, TLAPS

\* An upload in flight has no row yet, its object once Put is through, and a
\* verdict once the scan is.
UploadsInOrder ==
  \A f \in Files :
    /\ up[f].at \in {"none", "put", "scan", "insert"} => row[f] = "none"
    /\ up[f].at = "cleanup" => row[f] = "none" \/ up[f].unreported
    /\ up[f].unreported => LostReplies
    /\ up[f].at \in {"scan", "insert"} => f \in store
    /\ up[f].at = "insert" => up[f].verdict \in Verdicts

\* Queued keys, and keys a pass holds, are of deleted rows.
QueuedWasDeleted ==
  /\ \A f \in queue : row[f] = "deleted"
  /\ \A r \in Sweepers, f \in Files :
       f \in sweep[r].todo \/ f = sweep[r].doing => row[f] = "deleted"

\* What a sweeper is about to clear from the queue is gone from the bucket.
ClearedIsGone == \A r \in Sweepers : sweep[r].doing \notin store

\* The inductive invariant.
IInv ==
  /\ TypeOK
  /\ UploadsInOrder
  /\ QueuedWasDeleted
  /\ ClearedIsGone
  /\ NoDanglingRow
  /\ DeletedIsQueued

\* The database reports what it did.
Reported == LostReplies = FALSE

-----------------------------------------------------------------------------
LEMMA InvariantHoldsInitially == Init => IInv
  BY AttachmentsAssumption
  DEF Init, IInv, TypeOK, UploadsInOrder, QueuedWasDeleted, ClearedIsGone, NoDanglingRow,
      DeletedIsQueued, Listed, Upload, Stages, Verdicts, Pass, Resting

\* Moving a handler to its next stage changes nothing else about the upload.
LEMMA GotoKeepsUploads ==
  ASSUME TypeOK, NEW f \in Files, NEW stage \in Stages, Goto(f, stage)
  PROVE  up' \in [Files -> Upload]
  <1>1. up[f] \in Upload
    BY DEF TypeOK
  <1>2. [up[f] EXCEPT !.at = stage] \in Upload
    BY <1>1 DEF Upload
  <1>3. up' = [up EXCEPT ![f] = [up[f] EXCEPT !.at = stage]]
    BY DEF Goto
  <1> QED BY <1>2, <1>3 DEF TypeOK

\* Nothing else of any upload changes.
LEMMA GotoChangesTheStage ==
  ASSUME TypeOK, NEW f \in Files, NEW stage, Goto(f, stage)
  PROVE  /\ up'[f].at = stage
         /\ \A g \in Files \ {f} : up'[g] = up[g]
         /\ \A g \in Files : /\ up'[g].unreported = up[g].unreported
                            /\ up'[g].verdict = up[g].verdict
  <1>1. up \in [Files -> Upload]
    BY DEF TypeOK
  <1>2. up' = [up EXCEPT ![f] = [up[f] EXCEPT !.at = stage]]
    BY DEF Goto
  <1>3. up'[f] = [up[f] EXCEPT !.at = stage] /\ \A g \in Files \ {f} : up'[g] = up[g]
    BY <1>1, <1>2
  <1>4. up'[f].at = stage /\ up'[f].unreported = up[f].unreported /\ up'[f].verdict = up[f].verdict
    BY <1>1, <1>3 DEF Upload
  <1> QED BY <1>3, <1>4

\* Every call of every upload, deletion and sweeper, and every failure, preserves it.
LEMMA InvariantIsPreserved == IInv /\ [Next]_vars => IInv'
  <1> SUFFICES ASSUME IInv, [Next]_vars PROVE IInv'
    OBVIOUS
  <1>1. ASSUME NEW f \in Files, NEW o \in Owners, UploadAttachment(f, o)
       PROVE  IInv'
    <2> USE DEF Begin
    <2>1. TypeOK'
      <3>1. up[f] \in Upload /\ o \in Owners
        BY DEF IInv, TypeOK
      <3>2. PICK b \in BOOLEAN : up' = [up EXCEPT ![f] =
                 [[[up[f] EXCEPT !.at = "put"] EXCEPT !.owner = o] EXCEPT !.beside = b]]
        BY <1>1 DEF UploadAttachment, IInv, TypeOK
      <3>3. [[[up[f] EXCEPT !.at = "put"] EXCEPT !.owner = o] EXCEPT !.beside = b] \in Upload
        BY <3>1 DEF Upload, Stages
      <3>4. up' \in [Files -> Upload]
        BY <3>2, <3>3 DEF IInv, TypeOK
      <3> QED BY <1>1, <3>4 DEF UploadAttachment, IInv, TypeOK, deletion
    <2>2. UploadsInOrder'
      BY <1>1 DEF UploadAttachment, IInv, TypeOK, UploadsInOrder, Upload, Listed, Verdicts, QueuedWasDeleted, deletion
    <2>3. QueuedWasDeleted' /\ ClearedIsGone'
      BY <1>1, AttachmentsAssumption DEF UploadAttachment, IInv, TypeOK, UploadsInOrder, QueuedWasDeleted, ClearedIsGone, Upload, Pass, Listed, Verdicts, deletion
    <2>4. NoDanglingRow' /\ DeletedIsQueued'
      BY <1>1 DEF UploadAttachment, IInv, TypeOK, UploadsInOrder, QueuedWasDeleted, ClearedIsGone, NoDanglingRow, DeletedIsQueued, Upload, Listed, Verdicts, deletion
    <2> QED BY <2>1, <2>2, <2>3, <2>4 DEF IInv
  <1>2. ASSUME NEW f \in Files, Put(f)
       PROVE  IInv'
    <2>1. TypeOK'
      <3>1. \E stage \in Stages : Goto(f, stage)
        BY <1>2 DEF Put, Stages
      <3>2. up' \in [Files -> Upload]
        BY <3>1, GotoKeepsUploads DEF IInv
      <3> QED BY <1>2, <3>2 DEF Put, IInv, TypeOK, deletion
    <2>2. UploadsInOrder'
      <3>1. PICK stage \in {"scan", "failed"} :
              Goto(f, stage) /\ (stage = "scan" => f \in store') /\ store \subseteq store' /\ row' = row
        BY <1>2 DEF Put
      <3>2. row[f] = "none" /\ TypeOK
        BY <1>2 DEF Put, IInv, UploadsInOrder
      <3> QED BY <3>1, <3>2, GotoChangesTheStage DEF IInv, UploadsInOrder
    <2>3. QueuedWasDeleted' /\ ClearedIsGone'
      BY <1>2, AttachmentsAssumption DEF Put, Goto, IInv, TypeOK, UploadsInOrder, QueuedWasDeleted, ClearedIsGone, Upload, Pass, Listed, Verdicts, deletion
    <2>4. NoDanglingRow' /\ DeletedIsQueued'
      <3>1. \E stage \in Stages : Goto(f, stage)
        BY <1>2 DEF Put, Stages
      <3>2. \A g \in Files : up'[g].unreported = up[g].unreported
        BY <3>1, GotoChangesTheStage DEF IInv
      <3>3. /\ row[f] = "none" /\ UNCHANGED <<row, queue>>
            /\ store \subseteq store' /\ store' \subseteq store \cup {f}
        BY <1>2 DEF Put, IInv, UploadsInOrder, deletion
      <3> QED BY <3>2, <3>3 DEF IInv, NoDanglingRow, DeletedIsQueued, Listed
    <2> QED BY <2>1, <2>2, <2>3, <2>4 DEF IInv
  <1>3. ASSUME NEW f \in Files, Scan(f)
       PROVE  IInv'
    <2>1. TypeOK'
      <3>1. up[f] \in Upload
        BY DEF IInv, TypeOK
      <3>2. up' \in [Files -> Upload]
        <4>1. CASE \E v \in Verdicts : up' = [up EXCEPT ![f].at = "insert", ![f].verdict = v]
          <5> PICK v \in Verdicts : up' = [up EXCEPT ![f].at = "insert", ![f].verdict = v]
            BY <4>1
          <5>1. [[up[f] EXCEPT !.at = "insert"] EXCEPT !.verdict = v] \in Upload
            BY <3>1 DEF Upload, Stages
          <5>2. up' = [up EXCEPT ![f] = [[up[f] EXCEPT !.at = "insert"] EXCEPT !.verdict = v]]
            BY DEF IInv, TypeOK
          <5> QED BY <5>1, <5>2 DEF IInv, TypeOK
        <4>2. CASE Goto(f, "cleanup")
          BY <3>1, <4>2 DEF Goto, IInv, TypeOK, Upload, Stages
        <4> QED BY <1>3, <4>1, <4>2 DEF Scan
      <3> QED BY <1>3, <3>2 DEF Scan, IInv, TypeOK, deletion
    <2>2. UploadsInOrder'
      <3>1. /\ up' \in [Files -> Upload]
            /\ \/ up'[f].at = "cleanup"
               \/ up'[f].at = "insert" /\ up'[f].verdict \in Verdicts
            /\ up'[f].unreported = up[f].unreported
            /\ \A g \in Files \ {f} : up'[g] = up[g]
        <4>1. up[f] \in Upload /\ up' \in [Files -> Upload]
          BY <2>1 DEF IInv, TypeOK
        <4>2. CASE Goto(f, "cleanup")
          <5>1. up' = [up EXCEPT ![f] = [up[f] EXCEPT !.at = "cleanup"]]
            BY <4>2 DEF Goto
          <5>2. /\ up'[f] = [up[f] EXCEPT !.at = "cleanup"]
                /\ \A g \in Files \ {f} : up'[g] = up[g]
            BY <5>1 DEF IInv, TypeOK
          <5>3. up'[f].at = "cleanup" /\ up'[f].unreported = up[f].unreported
            BY <4>1, <5>2 DEF Upload
          <5> QED BY <4>1, <5>2, <5>3
        <4>3. ASSUME NEW v \in Verdicts,
                     up' = [up EXCEPT ![f].at = "insert", ![f].verdict = v]
              PROVE  /\ up'[f].at = "insert" /\ up'[f].verdict = v
                     /\ up'[f].unreported = up[f].unreported
                     /\ \A g \in Files \ {f} : up'[g] = up[g]
          <5>1. up' = [up EXCEPT ![f] = [[up[f] EXCEPT !.at = "insert"] EXCEPT !.verdict = v]]
            BY <4>3 DEF IInv, TypeOK
          <5>2. up'[f] = [[up[f] EXCEPT !.at = "insert"] EXCEPT !.verdict = v]
            BY <5>1 DEF IInv, TypeOK
          <5> QED BY <4>1, <5>1, <5>2 DEF Upload, IInv, TypeOK
        <4> QED BY <1>3, <4>1, <4>2, <4>3 DEF Scan
      <3>2. up[f].at = "scan" /\ UNCHANGED <<row, store>>
        BY <1>3 DEF Scan
      <3> QED BY <3>1, <3>2 DEF IInv, UploadsInOrder
    <2>3. QueuedWasDeleted' /\ ClearedIsGone'
      BY <1>3, AttachmentsAssumption DEF Scan, Goto, IInv, TypeOK, UploadsInOrder, QueuedWasDeleted, ClearedIsGone, Upload, Pass, Listed, Verdicts, deletion
    <2>4. NoDanglingRow' /\ DeletedIsQueued'
      <3>1. \A g \in Files : up'[g].unreported = up[g].unreported
        <4>1. CASE Goto(f, "cleanup")
          BY <4>1, GotoChangesTheStage DEF IInv
        <4>2. ASSUME NEW v \in Verdicts, up' = [up EXCEPT ![f].at = "insert", ![f].verdict = v]
              PROVE  \A g \in Files : up'[g].unreported = up[g].unreported
          BY <4>2 DEF IInv, TypeOK, Upload
        <4> QED BY <1>3, <4>1, <4>2 DEF Scan
      <3>2. UNCHANGED <<row, store, queue>>
        BY <1>3 DEF Scan, deletion
      <3> QED BY <3>1, <3>2 DEF IInv, NoDanglingRow, DeletedIsQueued, Listed
    <2> QED BY <2>1, <2>2, <2>3, <2>4 DEF IInv
  <1>4. ASSUME NEW f \in Files, Insert(f)
       PROVE  IInv'
    <2>1. TypeOK'
      <3>1. up[f].verdict \in Verdicts
        BY <1>4 DEF Insert, CreateRow, IInv, UploadsInOrder
      <3> QED BY <1>4, <3>1 DEF Insert, CreateRow, Goto, IInv, TypeOK, Upload, Stages, deletion
    <2>2. UploadsInOrder'
      BY <1>4 DEF Insert, CreateRow, Goto, IInv, TypeOK, UploadsInOrder, Upload, Listed, Verdicts, QueuedWasDeleted, deletion
    <2>3. QueuedWasDeleted' /\ ClearedIsGone'
      BY <1>4, AttachmentsAssumption DEF Insert, CreateRow, Goto, IInv, TypeOK, UploadsInOrder, QueuedWasDeleted, ClearedIsGone, Upload, Pass, Listed, Verdicts, deletion
    <2>4. NoDanglingRow' /\ DeletedIsQueued'
      BY <1>4 DEF Insert, CreateRow, Goto, IInv, TypeOK, UploadsInOrder, QueuedWasDeleted, ClearedIsGone, NoDanglingRow, DeletedIsQueued, Upload, Listed, Verdicts, deletion
    <2> QED BY <2>1, <2>2, <2>3, <2>4 DEF IInv
  <1>5. ASSUME NEW f \in Files, InsertFails(f)
       PROVE  IInv'
    <2>1. TypeOK'
      <3>1. Goto(f, "cleanup") /\ "cleanup" \in Stages
        BY <1>5 DEF InsertFails, Stages
      <3>2. up' \in [Files -> Upload]
        BY <3>1, GotoKeepsUploads DEF IInv
      <3> QED BY <1>5, <3>2 DEF InsertFails, IInv, TypeOK, deletion
    <2>2. UploadsInOrder'
      BY <1>5 DEF InsertFails, Goto, IInv, TypeOK, UploadsInOrder, Upload, Listed, Verdicts, QueuedWasDeleted, deletion
    <2>3. QueuedWasDeleted' /\ ClearedIsGone'
      BY <1>5, AttachmentsAssumption DEF InsertFails, Goto, IInv, TypeOK, UploadsInOrder, QueuedWasDeleted, ClearedIsGone, Upload, Pass, Listed, Verdicts, deletion
    <2>4. NoDanglingRow' /\ DeletedIsQueued'
      BY <1>5 DEF InsertFails, Goto, IInv, TypeOK, UploadsInOrder, QueuedWasDeleted, ClearedIsGone, NoDanglingRow, DeletedIsQueued, Upload, Listed, Verdicts, deletion
    <2> QED BY <2>1, <2>2, <2>3, <2>4 DEF IInv
  <1>6. ASSUME NEW f \in Files, Cleanup(f)
       PROVE  IInv'
    <2>1. TypeOK'
      <3>1. Goto(f, "failed") /\ "failed" \in Stages
        BY <1>6 DEF Cleanup, Stages
      <3>2. up' \in [Files -> Upload]
        BY <3>1, GotoKeepsUploads DEF IInv
      <3> QED BY <1>6, <3>2 DEF Cleanup, IInv, TypeOK, deletion
    <2>2. UploadsInOrder'
      BY <1>6 DEF Cleanup, Goto, IInv, TypeOK, UploadsInOrder, Upload, Listed, Verdicts, QueuedWasDeleted, deletion
    <2>3. QueuedWasDeleted' /\ ClearedIsGone'
      BY <1>6, AttachmentsAssumption DEF Cleanup, Goto, IInv, TypeOK, UploadsInOrder, QueuedWasDeleted, ClearedIsGone, Upload, Pass, Listed, Verdicts, deletion
    <2>4. NoDanglingRow' /\ DeletedIsQueued'
      BY <1>6 DEF Cleanup, Goto, IInv, TypeOK, UploadsInOrder, QueuedWasDeleted, ClearedIsGone, NoDanglingRow, DeletedIsQueued, Upload, Listed, Verdicts, deletion
    <2> QED BY <2>1, <2>2, <2>3, <2>4 DEF IInv
  <1>7. ASSUME NEW f \in Files, HangUp(f)
       PROVE  IInv'
    <2>1. TypeOK'
      <3>1. up[f] \in Upload
        BY DEF IInv, TypeOK
      <3>2. [up[f] EXCEPT !.gone = TRUE] \in Upload
        BY <3>1 DEF Upload
      <3>3. up' = [up EXCEPT ![f] = [up[f] EXCEPT !.gone = TRUE]]
        BY <1>7 DEF HangUp
      <3>4. up' \in [Files -> Upload]
        BY <3>2, <3>3 DEF IInv, TypeOK
      <3> QED BY <1>7, <3>4 DEF HangUp, IInv, TypeOK, deletion
    <2>2. UploadsInOrder'
      BY <1>7 DEF HangUp, InFlight, IInv, TypeOK, UploadsInOrder, Upload, Listed, Verdicts, QueuedWasDeleted, deletion
    <2>3. QueuedWasDeleted' /\ ClearedIsGone'
      BY <1>7, AttachmentsAssumption DEF HangUp, InFlight, IInv, TypeOK, UploadsInOrder, QueuedWasDeleted, ClearedIsGone, Upload, Pass, Listed, Verdicts, deletion
    <2>4. NoDanglingRow' /\ DeletedIsQueued'
      BY <1>7 DEF HangUp, InFlight, IInv, TypeOK, UploadsInOrder, QueuedWasDeleted, ClearedIsGone, NoDanglingRow, DeletedIsQueued, Upload, Listed, Verdicts, deletion
    <2> QED BY <2>1, <2>2, <2>3, <2>4 DEF IInv
  <1>8. ASSUME NEW f \in Files, CrashUpload(f)
       PROVE  IInv'
    <2>1. TypeOK'
      <3>1. Goto(f, "failed") /\ "failed" \in Stages
        BY <1>8 DEF CrashUpload, Stages
      <3>2. up' \in [Files -> Upload]
        BY <3>1, GotoKeepsUploads DEF IInv
      <3> QED BY <1>8, <3>2 DEF CrashUpload, IInv, TypeOK, deletion
    <2>2. UploadsInOrder'
      BY <1>8 DEF CrashUpload, InFlight, Goto, IInv, TypeOK, UploadsInOrder, Upload, Listed, Verdicts, QueuedWasDeleted, deletion
    <2>3. QueuedWasDeleted' /\ ClearedIsGone'
      BY <1>8, AttachmentsAssumption DEF CrashUpload, InFlight, Goto, IInv, TypeOK, UploadsInOrder, QueuedWasDeleted, ClearedIsGone, Upload, Pass, Listed, Verdicts, deletion
    <2>4. NoDanglingRow' /\ DeletedIsQueued'
      BY <1>8 DEF CrashUpload, InFlight, Goto, IInv, TypeOK, UploadsInOrder, QueuedWasDeleted, ClearedIsGone, NoDanglingRow, DeletedIsQueued, Upload, Listed, Verdicts, deletion
    <2> QED BY <2>1, <2>2, <2>3, <2>4 DEF IInv
  <1>9. ASSUME NEW f \in Files, DeleteAttachment(f)
       PROVE  IInv'
    <2>1. TypeOK'
      BY <1>9, AttachmentsAssumption DEF DeleteAttachment, DeleteRows, IInv, TypeOK, Upload, Stages, Verdicts, Pass, deletion
    <2>2. UploadsInOrder'
      BY <1>9 DEF DeleteAttachment, DeleteRows, IInv, TypeOK, UploadsInOrder, Upload, Listed, Verdicts, QueuedWasDeleted, deletion
    <2>3. QueuedWasDeleted' /\ ClearedIsGone'
      BY <1>9, AttachmentsAssumption DEF DeleteAttachment, DeleteRows, IInv, TypeOK, UploadsInOrder, QueuedWasDeleted, ClearedIsGone, Upload, Pass, Listed, Verdicts, deletion
    <2>4. NoDanglingRow' /\ DeletedIsQueued'
      BY <1>9 DEF DeleteAttachment, DeleteRows, IInv, TypeOK, UploadsInOrder, QueuedWasDeleted, ClearedIsGone, NoDanglingRow, DeletedIsQueued, Upload, Listed, Verdicts, deletion
    <2> QED BY <2>1, <2>2, <2>3, <2>4 DEF IInv
  <1>10. ASSUME NEW owners \in SUBSET Owners, Cascade(owners)
       PROVE  IInv'
    <2>1. TypeOK'
      BY <1>10, AttachmentsAssumption DEF Cascade, DeleteRows, IInv, TypeOK, Upload, Stages, Verdicts, Pass, deletion
    <2>2. UploadsInOrder'
      BY <1>10 DEF Cascade, DeleteRows, IInv, TypeOK, UploadsInOrder, Upload, Listed, Verdicts, QueuedWasDeleted, deletion
    <2>3. QueuedWasDeleted' /\ ClearedIsGone'
      BY <1>10, AttachmentsAssumption DEF Cascade, DeleteRows, IInv, TypeOK, UploadsInOrder, QueuedWasDeleted, ClearedIsGone, Upload, Pass, Listed, Verdicts, deletion
    <2>4. NoDanglingRow' /\ DeletedIsQueued'
      BY <1>10 DEF Cascade, DeleteRows, IInv, TypeOK, UploadsInOrder, QueuedWasDeleted, ClearedIsGone, NoDanglingRow, DeletedIsQueued, Upload, Listed, Verdicts, deletion
    <2> QED BY <2>1, <2>2, <2>3, <2>4 DEF IInv
  <1>11. ASSUME NEW r \in Sweepers, StartPass(r)
       PROVE  IInv'
    <2>1. TypeOK'
      BY <1>11, AttachmentsAssumption DEF StartPass, PendingDeletions, IInv, TypeOK, Upload, Stages, Verdicts, Pass, deletion
    <2>2. UploadsInOrder'
      BY <1>11 DEF StartPass, PendingDeletions, IInv, TypeOK, UploadsInOrder, Upload, Listed, Verdicts, QueuedWasDeleted, deletion
    <2>3. QueuedWasDeleted' /\ ClearedIsGone'
      BY <1>11, AttachmentsAssumption DEF StartPass, PendingDeletions, IInv, TypeOK, UploadsInOrder, QueuedWasDeleted, ClearedIsGone, Upload, Pass, Listed, Verdicts, deletion
    <2>4. NoDanglingRow' /\ DeletedIsQueued'
      BY <1>11 DEF StartPass, PendingDeletions, IInv, TypeOK, UploadsInOrder, QueuedWasDeleted, ClearedIsGone, NoDanglingRow, DeletedIsQueued, Upload, Listed, Verdicts, deletion
    <2> QED BY <2>1, <2>2, <2>3, <2>4 DEF IInv
  <1>12. ASSUME NEW r \in Sweepers, NEW f \in Files, DeleteObject(r, f)
       PROVE  IInv'
    <2>1. TypeOK'
      BY <1>12, AttachmentsAssumption DEF DeleteObject, IInv, TypeOK, Upload, Stages, Verdicts, Pass, deletion
    <2>2. UploadsInOrder'
      BY <1>12 DEF DeleteObject, IInv, TypeOK, UploadsInOrder, Upload, Listed, Verdicts, QueuedWasDeleted, deletion
    <2>3. QueuedWasDeleted' /\ ClearedIsGone'
      BY <1>12, AttachmentsAssumption DEF DeleteObject, IInv, TypeOK, UploadsInOrder, QueuedWasDeleted, ClearedIsGone, Upload, Pass, Listed, Verdicts, deletion
    <2>4. NoDanglingRow' /\ DeletedIsQueued'
      BY <1>12 DEF DeleteObject, IInv, TypeOK, UploadsInOrder, QueuedWasDeleted, ClearedIsGone, NoDanglingRow, DeletedIsQueued, Upload, Listed, Verdicts, deletion
    <2> QED BY <2>1, <2>2, <2>3, <2>4 DEF IInv
  <1>13. ASSUME NEW r \in Sweepers, DeletionDone(r)
       PROVE  IInv'
    <2>1. TypeOK'
      BY <1>13, AttachmentsAssumption DEF DeletionDone, IInv, TypeOK, Upload, Stages, Verdicts, Pass, deletion
    <2>2. UploadsInOrder'
      BY <1>13 DEF DeletionDone, IInv, TypeOK, UploadsInOrder, Upload, Listed, Verdicts, QueuedWasDeleted, deletion
    <2>3. QueuedWasDeleted' /\ ClearedIsGone'
      BY <1>13, AttachmentsAssumption DEF DeletionDone, IInv, TypeOK, UploadsInOrder, QueuedWasDeleted, ClearedIsGone, Upload, Pass, Listed, Verdicts, deletion
    <2>4. NoDanglingRow' /\ DeletedIsQueued'
      BY <1>13 DEF DeletionDone, IInv, TypeOK, UploadsInOrder, QueuedWasDeleted, ClearedIsGone, NoDanglingRow, DeletedIsQueued, Upload, Listed, Verdicts, deletion
    <2> QED BY <2>1, <2>2, <2>3, <2>4 DEF IInv
  <1>14. ASSUME NEW r \in Sweepers, NEW f \in Files, DeletionFailed(r, f)
       PROVE  IInv'
    <2>1. TypeOK'
      <3>1. attempts' \in [Files -> 0..MaxAttempts]
        <4>1. CASE UNCHANGED attempts
          BY <4>1 DEF IInv, TypeOK
        <4>2. CASE attempts' = [attempts EXCEPT ![f] =
                       IF f \in queue /\ @ < MaxAttempts THEN @ + 1 ELSE @]
          BY <4>2, AttachmentsAssumption DEF IInv, TypeOK
        <4> QED BY <1>14, <4>1, <4>2 DEF DeletionFailed
      <3>2. store' \subseteq Files
        BY <1>14 DEF DeletionFailed, IInv, TypeOK
      <3>3. sweep' \in [Sweepers -> Pass]
        BY <1>14 DEF DeletionFailed, IInv, TypeOK, Pass
      <3> QED BY <1>14, <3>1, <3>2, <3>3 DEF DeletionFailed, IInv, TypeOK
    <2>2. UploadsInOrder'
      BY <1>14 DEF DeletionFailed, IInv, TypeOK, UploadsInOrder, Upload, Listed, Verdicts, QueuedWasDeleted, deletion
    <2>3. QueuedWasDeleted' /\ ClearedIsGone'
      BY <1>14, AttachmentsAssumption DEF DeletionFailed, IInv, TypeOK, UploadsInOrder, QueuedWasDeleted, ClearedIsGone, Upload, Pass, Listed, Verdicts, deletion
    <2>4. NoDanglingRow' /\ DeletedIsQueued'
      BY <1>14 DEF DeletionFailed, IInv, TypeOK, UploadsInOrder, QueuedWasDeleted, ClearedIsGone, NoDanglingRow, DeletedIsQueued, Upload, Listed, Verdicts, deletion
    <2> QED BY <2>1, <2>2, <2>3, <2>4 DEF IInv
  <1>15. ASSUME NEW r \in Sweepers, CrashSweep(r)
       PROVE  IInv'
    <2>1. TypeOK'
      BY <1>15, AttachmentsAssumption DEF CrashSweep, Resting, IInv, TypeOK, Upload, Stages, Verdicts, Pass, deletion
    <2>2. UploadsInOrder'
      BY <1>15 DEF CrashSweep, Resting, IInv, TypeOK, UploadsInOrder, Upload, Listed, Verdicts, QueuedWasDeleted, deletion
    <2>3. QueuedWasDeleted' /\ ClearedIsGone'
      BY <1>15, AttachmentsAssumption DEF CrashSweep, Resting, IInv, TypeOK, UploadsInOrder, QueuedWasDeleted, ClearedIsGone, Upload, Pass, Listed, Verdicts, deletion
    <2>4. NoDanglingRow' /\ DeletedIsQueued'
      BY <1>15 DEF CrashSweep, Resting, IInv, TypeOK, UploadsInOrder, QueuedWasDeleted, ClearedIsGone, NoDanglingRow, DeletedIsQueued, Upload, Listed, Verdicts, deletion
    <2> QED BY <2>1, <2>2, <2>3, <2>4 DEF IInv
  <1>16. ASSUME NEW f \in Files, InsertReplyLost(f)
       PROVE  IInv'
    <2>1. /\ up[f] \in Upload /\ up[f].at = "insert" /\ LostReplies
          /\ row' = [row EXCEPT ![f] = up[f].verdict]
          /\ up[f].verdict \in Verdicts /\ row[f] = "none" /\ f \in store
          /\ UNCHANGED <<alive, store, queue, attempts, sweep>>
      BY <1>16 DEF InsertReplyLost, CreateRow, IInv, TypeOK, UploadsInOrder, deletion
    <2>2. up' = [up EXCEPT ![f] = [[up[f] EXCEPT !.at = "cleanup"] EXCEPT !.unreported = TRUE]]
      BY <1>16 DEF InsertReplyLost, IInv, TypeOK
    <2>3. /\ [[up[f] EXCEPT !.at = "cleanup"] EXCEPT !.unreported = TRUE] \in Upload
          /\ up'[f].at = "cleanup" /\ up'[f].unreported
          /\ \A g \in Files \ {f} : up'[g] = up[g]
      BY <2>1, <2>2 DEF Upload, Stages, IInv, TypeOK
    <2>4. TypeOK'
      BY <2>1, <2>2, <2>3 DEF IInv, TypeOK, Verdicts
    <2>5. UploadsInOrder'
      BY <2>1, <2>3 DEF IInv, TypeOK, UploadsInOrder
    <2>6. QueuedWasDeleted' /\ ClearedIsGone'
      BY <2>1 DEF IInv, TypeOK, QueuedWasDeleted, ClearedIsGone
    <2>7. NoDanglingRow' /\ DeletedIsQueued'
      BY <2>1, <2>3 DEF IInv, TypeOK, NoDanglingRow, DeletedIsQueued, Listed, Verdicts
    <2> QED BY <2>4, <2>5, <2>6, <2>7 DEF IInv
  <1>17. CASE UNCHANGED vars
    BY <1>17 DEF vars, IInv, TypeOK, UploadsInOrder, QueuedWasDeleted, ClearedIsGone, NoDanglingRow,
        DeletedIsQueued, Listed
  <1> QED
    BY <1>1, <1>2, <1>3, <1>4, <1>5, <1>6, <1>7, <1>8, <1>9, <1>10, <1>11, <1>12, <1>13, <1>14, <1>15, <1>16, <1>17
    DEF Next, UploadStep, SweepStep

-----------------------------------------------------------------------------
\* The inductive invariant is an invariant.
THEOREM InvariantHolds == Spec => []IInv
  BY InvariantHoldsInitially, InvariantIsPreserved, PTL DEF Spec

\* Every reachable state is well typed.
THEOREM TypeCorrect == Spec => []TypeOK
  <1>1. IInv => TypeOK
    BY DEF IInv
  <1> QED BY <1>1, InvariantHolds, PTL

\* A row never promises a file that is not there, however uploads, deletions,
\* cascades and sweepers of several replicas interleave and whatever of them
\* fails, dies or is hung up on, but for an INSERT that committed unreported.
THEOREM RowsHaveObjects == Spec => []NoDanglingRow
  <1>1. IInv => NoDanglingRow
    BY DEF IInv
  <1> QED BY <1>1, InvariantHolds, PTL

\* The object of a deleted row is never forgotten: it is gone, or its key is on
\* the queue the next pass reads.
THEOREM DeletedObjectsAreQueued == Spec => []DeletedIsQueued
  <1>1. IInv => DeletedIsQueued
    BY DEF IInv
  <1> QED BY <1>1, InvariantHolds, PTL

\* Step by step, rows and objects move the way the ledger says: nothing is listed
\* before its bytes are there, and nothing listed loses them.
THEOREM StepsFollowTheLedger ==
  ASSUME Reported
  PROVE  Spec => Ledger!Init /\ [][Ledger!Next]_life
  <1>1. Init => Ledger!Init
    BY DEF Init, Ledger!Init, life
  <1>2. IInv /\ IInv' /\ [Next]_vars => [Ledger!Next]_life
    <2> SUFFICES ASSUME IInv, IInv', [Next]_vars PROVE [Ledger!Next]_life
      OBVIOUS
    <2>1. ASSUME NEW f \in Files, Insert(f)
          PROVE  Ledger!List(f)
      <3>1. row[f] = "none" /\ f \in store /\ up[f].verdict \in Verdicts
        BY <2>1 DEF Insert, IInv, UploadsInOrder
      <3>2. life[f] = "nowhere" /\ life' = [life EXCEPT ![f] = "listed"]
        BY <2>1, <3>1 DEF Insert, CreateRow, IInv, TypeOK, Listed, Verdicts, life
      <3> QED BY <3>2 DEF Ledger!List, Ledger!Moves
    <2>2. ASSUME NEW gone \in SUBSET Files, \A f \in gone : Listed(f), DeleteRows(gone),
                 UNCHANGED store
          PROVE  [Ledger!Next]_life
      <3>1. CASE gone = {}
        BY <2>2, <3>1 DEF DeleteRows, IInv, TypeOK, Listed, life
      <3>2. CASE gone # {}
        <4>1. \A f \in gone : f \in store /\ life[f] = "listed"
          BY <2>2 DEF IInv, NoDanglingRow, UploadsInOrder, Reported, Listed, Verdicts, life
        <4>2. life' = [f \in Files |-> IF f \in gone THEN "removed" ELSE life[f]]
          BY <2>2, <4>1 DEF DeleteRows, IInv, TypeOK, Listed, Verdicts, life
        <4>3. Ledger!Remove(gone)
          BY <3>2, <4>1, <4>2 DEF Ledger!Remove
        <4> QED BY <4>3 DEF Ledger!Next
      <3> QED BY <3>1, <3>2
    <2>3. ASSUME NEW f \in Files, row[f] = "deleted", store' \in {store, store \ {f}}, UNCHANGED row
          PROVE  [Ledger!Next]_life
      <3>1. CASE store' = store
        BY <2>3, <3>1 DEF Listed, life
      <3>2. CASE f \notin store /\ store' = store \ {f}
        BY <2>3, <3>2 DEF Listed, life
      <3>3. CASE f \in store /\ store' = store \ {f}
        <4>1. life[f] = "removed" /\ life' = [life EXCEPT ![f] = "reclaimed"]
          BY <2>3, <3>3 DEF Listed, Verdicts, life
        <4> QED BY <4>1 DEF Ledger!Next, Ledger!Reclaim, Ledger!Moves
      <3> QED BY <2>3, <3>1, <3>2, <3>3
    <2>4. ASSUME NEW f \in Files, row[f] = "none", store' \in {store, store \ {f}, store \cup {f}},
                 UNCHANGED row
          PROVE  UNCHANGED life
      BY <2>4 DEF Listed, life
    <2>5. ASSUME UNCHANGED <<row, store>>
          PROVE  UNCHANGED life
      BY <2>5 DEF Listed, life
    <2>6. ASSUME NEW f \in Files, UploadStep(f)
          PROVE  [Ledger!Next]_life
      <3>1. CASE Insert(f)
        BY <2>1, <3>1 DEF Ledger!Next
      <3>2. CASE Put(f) \/ Cleanup(f)
        <4>1. row[f] = "none"
          BY <3>2 DEF Put, Cleanup, IInv, UploadsInOrder, Reported
        <4> QED BY <2>4, <3>2, <4>1 DEF Put, Cleanup
      <3>3. CASE \/ \E o \in Owners : UploadAttachment(f, o)
                 \/ Scan(f) \/ InsertFails(f) \/ HangUp(f) \/ CrashUpload(f)
        BY <2>5, <3>3 DEF UploadAttachment, Begin, Scan, InsertFails, HangUp, CrashUpload
      <3> QED BY <2>6, <3>1, <3>2, <3>3 DEF UploadStep, InsertReplyLost, Reported
    <2>7. ASSUME NEW f \in Files, DeleteAttachment(f)
          PROVE  [Ledger!Next]_life
      BY <2>2, <2>7 DEF DeleteAttachment
    <2>8. ASSUME NEW owners \in SUBSET Owners, Cascade(owners)
          PROVE  [Ledger!Next]_life
      BY <2>2, <2>8 DEF Cascade
    <2>9. ASSUME NEW r \in Sweepers, SweepStep(r) \/ CrashSweep(r)
          PROVE  [Ledger!Next]_life
      <3>1. ASSUME NEW f \in Files, DeleteObject(r, f) \/ DeletionFailed(r, f)
            PROVE  [Ledger!Next]_life
        <4>1. row[f] = "deleted"
          BY <3>1 DEF DeleteObject, DeletionFailed, IInv, QueuedWasDeleted
        <4> QED BY <2>3, <3>1, <4>1 DEF DeleteObject, DeletionFailed
      <3>2. CASE StartPass(r) \/ DeletionDone(r) \/ CrashSweep(r)
        BY <2>5, <3>2 DEF StartPass, DeletionDone, CrashSweep
      <3> QED BY <2>9, <3>1, <3>2 DEF SweepStep
    <2>10. CASE UNCHANGED vars
      BY <2>5, <2>10 DEF vars
    <2> QED BY <2>6, <2>7, <2>8, <2>9, <2>10 DEF Next
  <1> QED BY <1>1, <1>2, InvariantHolds, PTL DEF Spec
-----------------------------------------------------------------------------
(* The ceiling of a task.                                                  *)
(*                                                                         *)
(* Of the uploads that began alone at most one is on its way, and it has   *)
(* left room for itself.                                                   *)

Held == {f \in Files : Listed(f)}

\* The rows of t whose uploads began alone.
Plain(t) == {f \in Files : Listed(f) /\ up[f].owner = t /\ ~up[f].beside}

Coming(f, t) == Inserting(f) /\ up[f].owner = t /\ ~up[f].beside

RoomLeft ==
  /\ IsFiniteSet(Held)
  /\ \A t \in Tasks :
       /\ Cardinality(Plain(t)) <= TaskLimit
       /\ \A f \in Files :
            Coming(f, t) => /\ Cardinality(Plain(t)) + 1 <= TaskLimit
                            /\ \A g \in Files : Coming(g, t) => g = f

LEMMA PlainIsFinite ==
  ASSUME RoomLeft, NEW t \in Tasks
  PROVE  IsFiniteSet(Plain(t)) /\ Cardinality(Plain(t)) \in Nat
  <1>1. Plain(t) \in SUBSET Held
    BY DEF Plain, Held
  <1> QED BY <1>1, FS_Subset, FS_CardinalityType DEF RoomLeft

\* No new row and no new upload.
LEMMA NothingComes ==
  ASSUME RoomLeft,
         \A f \in Files : /\ Listed(f)' => Listed(f)
                          /\ up'[f].owner = up[f].owner /\ up'[f].beside = up[f].beside
                          /\ Inserting(f)' => Inserting(f)
  PROVE  RoomLeft'
  <1>1. IsFiniteSet(Held')
    <2>1. Held' \in SUBSET Held
      BY DEF Held
    <2> QED BY <2>1, FS_Subset DEF RoomLeft
  <1>2. ASSUME NEW t \in Tasks
        PROVE  /\ Cardinality(Plain(t)') \in Nat /\ Cardinality(Plain(t)) \in Nat
               /\ Cardinality(Plain(t)') <= Cardinality(Plain(t))
    <2>1. Plain(t)' \in SUBSET Plain(t)
      BY DEF Plain
    <2> QED BY <2>1, PlainIsFinite, FS_Subset, FS_CardinalityType
  <1>3. \A f \in Files, t \in Tasks : Coming(f, t)' => Coming(f, t)
    BY DEF Coming
  <1>4. ASSUME NEW t \in Tasks
        PROVE  /\ Cardinality(Plain(t)') <= TaskLimit
               /\ \A f \in Files :
                    Coming(f, t)' => /\ Cardinality(Plain(t)') + 1 <= TaskLimit
                                     /\ \A g \in Files : Coming(g, t)' => g = f
    BY <1>2, <1>3, AttachmentsAssumption DEF RoomLeft
  <1> QED BY <1>1, <1>4 DEF RoomLeft

\* An upload that does not begin beside another finds room and is the only one.
LEMMA UploadLeavesRoom ==
  ASSUME IInv, RoomLeft, NEW f \in Files, NEW o \in Owners, UploadAttachment(f, o)
  PROVE  RoomLeft'
  <1> DEFINE b == o \in Tasks /\ \E g \in Files : Inserting(g) /\ up[g].owner = o
  <1>1. /\ up'[f].owner = o /\ up'[f].at = "put" /\ up'[f].beside = b
        /\ \A g \in Files \ {f} : up'[g] = up[g]
    <2>1. up[f] \in Upload
      BY DEF IInv, TypeOK
    <2> QED BY <2>1 DEF UploadAttachment, Begin, IInv, TypeOK, Upload
  <1>2. row' = row /\ ~Listed(f) /\ ~Inserting(f)
    BY DEF UploadAttachment, Begin, IInv, UploadsInOrder, Listed, Verdicts, Inserting
  <1>3. \A g \in Files : Listed(g)' <=> Listed(g)
    BY <1>2 DEF Listed
  <1>4. Held' = Held /\ \A t \in Tasks : Plain(t)' = Plain(t)
    BY <1>1, <1>2, <1>3 DEF Held, Plain
  <1>5. \A t \in Tasks, g \in Files \ {f} : Coming(g, t)' <=> Coming(g, t)
    BY <1>1 DEF Coming, Inserting
  <1>6. ASSUME NEW t \in Tasks, Coming(f, t)'
        PROVE  /\ Cardinality(Plain(t)) + 1 <= TaskLimit
               /\ \A g \in Files \ {f} : ~Coming(g, t)
    <2>1. o = t /\ ~b
      BY <1>1, <1>6 DEF Coming
    <2>2. UsageBytes(t) + 1 <= TaskLimit
      BY <2>1 DEF UploadAttachment
    <2>3. LET Used == {g \in Files : Listed(g) /\ up[g].owner = t}
          IN  /\ IsFiniteSet(Used) /\ Cardinality(Used) \in Nat
              /\ Cardinality(Plain(t)) <= Cardinality(Used)
      <3> DEFINE Used == {g \in Files : Listed(g) /\ up[g].owner = t}
      <3>1. Used \in SUBSET Held /\ Plain(t) \in SUBSET Used
        BY DEF Held, Plain
      <3> HIDE DEF Used
      <3>2. IsFiniteSet(Used) /\ Cardinality(Used) \in Nat
        BY <3>1, FS_Subset, FS_CardinalityType DEF RoomLeft
      <3>3. Cardinality(Plain(t)) <= Cardinality(Used)
        BY <3>1, <3>2, FS_Subset
      <3> QED BY <3>2, <3>3 DEF Used
    <2>4. Cardinality(Plain(t)) + 1 <= TaskLimit
      BY <2>2, <2>3, PlainIsFinite, AttachmentsAssumption DEF UsageBytes
    <2> QED BY <2>1, <2>4 DEF Coming
  <1>7. ASSUME NEW t \in Tasks, NEW g \in Files, Coming(g, t)'
        PROVE  /\ Cardinality(Plain(t)) + 1 <= TaskLimit
               /\ \A h \in Files : Coming(h, t)' => h = g
    <2>1. CASE g = f
      BY <1>5, <1>6, <1>7, <2>1
    <2>2. CASE g # f
      BY <1>5, <1>6, <1>7, <2>2 DEF RoomLeft
    <2> QED BY <2>1, <2>2
  <1> QED BY <1>4, <1>7 DEF RoomLeft

\* The row an upload inserts takes the room that it left.
LEMMA RowTakesItsRoom ==
  ASSUME IInv, RoomLeft, NEW f \in Files, Insert(f) \/ InsertReplyLost(f)
  PROVE  RoomLeft'
  <1>1. /\ up[f].at = "insert" /\ row[f] = "none"
        /\ row' = [row EXCEPT ![f] = up[f].verdict]
    BY DEF Insert, InsertReplyLost, CreateRow, IInv, UploadsInOrder
  <1>2. /\ up'[f].owner = up[f].owner /\ up'[f].beside = up[f].beside
        /\ up'[f].at \in {"done", "cleanup"} /\ \A g \in Files \ {f} : up'[g] = up[g]
    <2>1. up[f] \in Upload
      BY DEF IInv, TypeOK
    <2> QED BY <2>1 DEF Insert, InsertReplyLost, Goto, IInv, TypeOK, Upload
  <1>3. Inserting(f) /\ ~Inserting(f)' /\ ~Listed(f)
    BY <1>1, <1>2 DEF Inserting, Listed, Verdicts
  <1>4. \A g \in Files \ {f} : Listed(g)' <=> Listed(g)
    BY <1>1 DEF IInv, TypeOK, Listed
  <1>5. IsFiniteSet(Held')
    <2>1. Held' \in SUBSET (Held \cup {f})
      BY <1>4 DEF Held
    <2> QED BY <2>1, FS_AddElement, FS_Subset DEF RoomLeft
  <1>6. \A t \in Tasks, g \in Files : Coming(g, t)' => Coming(g, t) /\ g # f
    BY <1>2, <1>3 DEF Coming, Inserting
  <1>7. ASSUME NEW t \in Tasks
        PROVE  /\ Cardinality(Plain(t)') <= TaskLimit
               /\ \A g \in Files :
                    Coming(g, t)' => /\ Cardinality(Plain(t)') + 1 <= TaskLimit
                                     /\ \A h \in Files : Coming(h, t)' => h = g
    <2>1. CASE Coming(f, t)
      <3>1. Plain(t)' \in SUBSET (Plain(t) \cup {f})
        BY <1>2, <1>4 DEF Plain
      <3>2. Cardinality(Plain(t)') <= Cardinality(Plain(t)) + 1
        <4>1. f \notin Plain(t)
          BY <1>3 DEF Plain
        <4>2. /\ IsFiniteSet(Plain(t) \cup {f})
              /\ Cardinality(Plain(t) \cup {f}) = Cardinality(Plain(t)) + 1
          BY <4>1, PlainIsFinite, FS_AddElement
        <4> QED BY <3>1, <4>2, FS_Subset
      <3>3. Cardinality(Plain(t)') \in Nat
        <4>1. IsFiniteSet(Plain(t) \cup {f})
          BY PlainIsFinite, FS_AddElement
        <4> QED BY <3>1, <4>1, FS_Subset, FS_CardinalityType
      <3>4. \A g \in Files : ~Coming(g, t)'
        BY <1>6, <2>1 DEF RoomLeft
      <3> QED BY <2>1, <3>2, <3>3, <3>4, PlainIsFinite, AttachmentsAssumption DEF RoomLeft
    <2>2. CASE ~Coming(f, t)
      <3>1. Plain(t)' = Plain(t)
        BY <1>2, <1>3, <1>4, <2>2 DEF Plain, Coming
      <3> QED BY <1>6, <3>1 DEF RoomLeft
    <2> QED BY <2>1, <2>2
  <1> QED BY <1>5, <1>7 DEF RoomLeft

LEMMA RoomLeftInitially == Init => RoomLeft
  <1> SUFFICES ASSUME Init PROVE RoomLeft
    OBVIOUS
  <1>1. Held = {} /\ \A t \in Tasks : Plain(t) = {}
    BY DEF Init, Held, Plain, Listed, Verdicts
  <1>2. \A f \in Files, t \in Tasks : ~Coming(f, t)
    BY DEF Init, Coming, Inserting
  <1>3. IsFiniteSet(Held)
    BY <1>1, FS_EmptySet
  <1>4. \A t \in Tasks : Cardinality(Plain(t)) = 0
    BY <1>1, FS_EmptySet
  <1>5. TaskLimit \in Nat
    BY AttachmentsAssumption
  <1> QED BY <1>2, <1>3, <1>4, <1>5 DEF RoomLeft

LEMMA RoomLeftIsPreserved == IInv /\ RoomLeft /\ [Next]_vars => RoomLeft'
  <1> SUFFICES ASSUME IInv, RoomLeft, [Next]_vars PROVE RoomLeft'
    OBVIOUS
  <1>1. ASSUME NEW f \in Files, NEW stage \in {"scan", "insert", "cleanup", "failed"},
               Inserting(f) \/ stage = "failed", Goto(f, stage)
        PROVE  \A g \in Files : /\ up'[g].owner = up[g].owner
                                /\ up'[g].beside = up[g].beside
                                /\ Inserting(g)' => Inserting(g)
    <2>1. up' = [up EXCEPT ![f] = [up[f] EXCEPT !.at = stage]] /\ up[f] \in Upload
      BY <1>1 DEF Goto, IInv, TypeOK
    <2>2. up'[f].owner = up[f].owner /\ up'[f].beside = up[f].beside /\ up'[f].at = stage
      BY <2>1 DEF IInv, TypeOK, Upload
    <2>3. \A g \in Files \ {f} : up'[g] = up[g]
      BY <2>1 DEF IInv, TypeOK
    <2> QED BY <1>1, <2>2, <2>3 DEF Inserting
  <1>2. ASSUME NEW f \in Files, UploadStep(f) PROVE RoomLeft'
    <2>1. CASE (\E o \in Owners : UploadAttachment(f, o)) \/ Insert(f) \/ InsertReplyLost(f)
      BY <2>1, UploadLeavesRoom, RowTakesItsRoom
    <2>2. CASE Put(f) \/ InsertFails(f) \/ Cleanup(f) \/ CrashUpload(f)
      <3>1. row' = row
        BY <2>2 DEF Put, InsertFails, Cleanup, CrashUpload
      <3>2. \E stage \in {"scan", "insert", "cleanup", "failed"} :
              (Inserting(f) \/ stage = "failed") /\ Goto(f, stage)
        BY <2>2 DEF Put, InsertFails, Cleanup, CrashUpload, Inserting
      <3> QED BY <1>1, <3>1, <3>2, NothingComes DEF Listed
    <2>3. CASE Scan(f)
      <3>1. row' = row /\ Inserting(f)
        BY <2>3 DEF Scan, Inserting
      <3>2. CASE Goto(f, "cleanup")
        BY <1>1, <3>1, <3>2, NothingComes DEF Listed
      <3>3. ASSUME NEW v \in Verdicts, up' = [up EXCEPT ![f].at = "insert", ![f].verdict = v]
            PROVE  RoomLeft'
        <4>1. up[f] \in Upload
          BY DEF IInv, TypeOK
        <4>2. \A g \in Files : /\ up'[g].owner = up[g].owner
                               /\ up'[g].beside = up[g].beside
                               /\ Inserting(g)' => Inserting(g)
          BY <3>1, <3>3, <4>1 DEF IInv, TypeOK, Upload, Inserting
        <4> QED BY <3>1, <4>2, NothingComes DEF Listed
      <3> QED BY <2>3, <3>2, <3>3 DEF Scan
    <2>4. CASE HangUp(f)
      <3>1. up' = [up EXCEPT ![f] = [up[f] EXCEPT !.gone = TRUE]] /\ up[f] \in Upload
        BY <2>4 DEF HangUp, IInv, TypeOK
      <3>2. \A g \in Files : /\ up'[g].owner = up[g].owner
                             /\ up'[g].beside = up[g].beside
                             /\ Inserting(g)' => Inserting(g)
        BY <3>1 DEF IInv, TypeOK, Upload, Inserting
      <3> QED BY <2>4, <3>2, NothingComes DEF HangUp, Listed
    <2> QED BY <1>2, <2>1, <2>2, <2>3, <2>4 DEF UploadStep
  <1>3. ASSUME NEW gone \in SUBSET Files, DeleteRows(gone), up' = up PROVE RoomLeft'
    BY <1>3, NothingComes DEF DeleteRows, IInv, TypeOK, Listed, Verdicts, Inserting
  <1>4. ASSUME UNCHANGED <<row, up>> PROVE RoomLeft'
    BY <1>4, NothingComes DEF Listed, Inserting
  <1>5. ASSUME NEW f \in Files, DeleteAttachment(f) PROVE RoomLeft'
    BY <1>3, <1>5 DEF DeleteAttachment
  <1>6. ASSUME NEW owners \in SUBSET Owners, Cascade(owners) PROVE RoomLeft'
    BY <1>3, <1>6 DEF Cascade
  <1>7. ASSUME NEW r \in Sweepers, SweepStep(r) \/ CrashSweep(r) PROVE RoomLeft'
    BY <1>4, <1>7 DEF SweepStep, CrashSweep, StartPass, DeletionDone, DeleteObject,
                      DeletionFailed
  <1>8. CASE UNCHANGED vars
    BY <1>4, <1>8 DEF vars
  <1> QED BY <1>2, <1>5, <1>6, <1>7, <1>8 DEF Next

\* However many uploads, deletions and failures there are, a task holds more than
\* its ceiling only while it holds a file whose upload began beside another.
THEOREM TaskStaysWithinLimit == Spec => []WithinTaskLimit
  <1>1. RoomLeft => WithinTaskLimit
    <2> SUFFICES ASSUME RoomLeft, NEW t \in Tasks,
                        ~\E f \in Files : Listed(f) /\ up[f].owner = t /\ up[f].beside
                 PROVE  UsageBytes(t) <= TaskLimit
      BY DEF WithinTaskLimit
    <2>1. {f \in Files : Listed(f) /\ up[f].owner = t} = Plain(t)
      BY DEF Plain
    <2> QED BY <2>1 DEF UsageBytes, RoomLeft
  <1> QED BY <1>1, InvariantHolds, RoomLeftInitially, RoomLeftIsPreserved, PTL DEF Spec
==============================================================================
