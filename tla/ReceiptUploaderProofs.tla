----------------------- MODULE ReceiptUploaderProofs -----------------------
(***************************************************************************)
(* No acceptable receipt is lost, for any number of receipts, any batch    *)
(* size and any number of errors and restarts.                             *)
(***************************************************************************)
EXTENDS ReceiptUploader, TLAPS

\* The marks still to be written of an answered upload are of receipts that
\* Forge took in.
MarksAreTaken == up.pc = "uploaded" => up.ids \ Rejects \subseteq forge

QueueInv == TypeOK /\ NoReceiptLost /\ MarksAreTaken

\* A fault counter that was below its bound stays within it.
LEMMA FaultInRange ==
    ASSUME TypeOK,
           \/ Fault("store", MaxStoreFaults)
           \/ Fault("restart", MaxRestarts)
    PROVE  faults' \in [store : 0..MaxStoreFaults, restart : 0..MaxRestarts]
BY UploaderAssumption DEF TypeOK, Fault

\* Init establishes the invariant.
LEMMA QueueInit == Init => QueueInv
BY UploaderAssumption
   DEF Init, QueueInv, TypeOK, NoReceiptLost, MarksAreTaken, UploadStatus, UploadPc, IdleUpload

\* Every step of the uploader and of the enforcement path keeps the invariant.
LEMMA QueueStep == QueueInv /\ [Next]_vars => QueueInv'
<1> SUFFICES ASSUME QueueInv, [Next]_vars PROVE QueueInv'
  OBVIOUS
<1> USE DEF QueueInv, TypeOK, NoReceiptLost, MarksAreTaken, UploadStatus, UploadPc
<1>1. ASSUME NEW r \in Receipt, NEW t \in 0..clock, Persist(r, t) PROVE QueueInv'
  BY <1>1 DEF Persist
<1>2. CASE UploadBegin
  BY <1>2 DEF UploadBegin, Batches, Listed
<1>3. CASE Post
  <2>1. CASE PostAnswered
    <3>1. PICK a \in Answers(up.batch) :
             up' = [up EXCEPT !.pc = "uploaded", !.ids = AcceptedIds(up.batch, a)]
      BY <2>1 DEF PostAnswered
    <3>2. AcceptedIds(up.batch, a) \subseteq up.batch
      BY <3>1 DEF AcceptedIds, Answers
    <3>. QED BY <2>1, <3>1, <3>2 DEF PostAnswered
  <2>2. CASE ~ PostAnswered
    <3>1. PICK taken \in {{}, up.batch \ Rejects} : PostFailed(taken)
      BY <1>3, <2>2 DEF Post
    <3>. QED BY <1>3, <2>2, <3>1 DEF Post, PostFailed
  <2>. QED BY <2>1, <2>2
<1>4. CASE Mark
  <2>1. PICK r \in up.ids :
           \/ /\ MarkRow(r)
              /\ up' = IF up.ids = {r} THEN IdleUpload ELSE [up EXCEPT !.ids = @ \ {r}]
              /\ UNCHANGED faults
           \/ /\ Fault("store", MaxStoreFaults)
              /\ up' = IdleUpload
              /\ UNCHANGED upload
    BY <1>4 DEF Mark
  <2>2. CASE MarkRow(r) /\ UNCHANGED faults
             /\ up' = IF up.ids = {r} THEN IdleUpload ELSE [up EXCEPT !.ids = @ \ {r}]
    BY <1>4, <2>2 DEF Mark, MarkRow, IdleUpload
  <2>3. CASE Fault("store", MaxStoreFaults) /\ up' = IdleUpload /\ UNCHANGED upload
    BY <1>4, <2>3, FaultInRange DEF Mark, IdleUpload
  <2>. QED BY <2>1, <2>2, <2>3
<1>5. CASE Prune
  BY <1>5 DEF Prune, Prunable
<1>6. CASE Crash
  BY <1>6, FaultInRange DEF Crash, IdleUpload
<1>7. CASE Tick
  BY <1>7 DEF Tick
<1>8. CASE UNCHANGED vars
  BY <1>8 DEF vars
<1>. QED BY <1>1, <1>2, <1>3, <1>4, <1>5, <1>6, <1>7, <1>8 DEF Next

\* The rows, the batch in flight and Forge's set keep their types; an upload in
\* flight marks only rows of its batch.
THEOREM QueueTypeCorrect == Spec => []TypeOK
<1>1. QueueInv => TypeOK
  BY DEF QueueInv
<1>. QED BY <1>1, QueueInit, QueueStep, PTL DEF Spec

\* Lost answers, marks and processes lose no acceptable receipt: what left the
\* queue is with Forge (uploadPendingReceipts, PruneUploadedReceipts).
THEOREM NothingLost == Spec => []NoReceiptLost
<1>1. QueueInv => NoReceiptLost
  BY DEF QueueInv
<1>. QED BY <1>1, QueueInit, QueueStep, PTL DEF Spec
=============================================================================
