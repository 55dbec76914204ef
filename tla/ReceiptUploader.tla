-------------------------- MODULE ReceiptUploader --------------------------
(***************************************************************************)
(* The receipt upload queue: receipts are written to action_receipts by    *)
(* the enforcement path, and one goroutine sends batches of them to Forge  *)
(* and marks the rows row by row.  Any request or answer may be lost or be *)
(* an error, a mark may fail, and the process may die between two steps.   *)
(***************************************************************************)
EXTENDS Naturals, FiniteSets

CONSTANTS
    Receipt,       \* receipts the node ever emits
    Rejects,       \* receipts Forge never accepts
    BatchSize,     \* receiptUploadBatchSize
    Retention,     \* receiptRetentionPeriod, in ticks
    MaxTime,       \* bound: the clock stops here
    MaxStoreFaults,\* bound: journal writes that fail
    MaxRestarts    \* bound: restarts of the process

ASSUME UploaderAssumption ==
    /\ Rejects \subseteq Receipt
    /\ BatchSize \in Nat \ {0}
    /\ {Retention, MaxTime, MaxStoreFaults, MaxRestarts} \subseteq Nat

VARIABLES
    upload,  \* upload_status of the row; "none" before it exists, "pruned" after
    applied, \* applied_at of the row
    forge,   \* receipts Forge has taken
    up,      \* the upload in flight: position, batch, identifiers still to mark
    clock,
    faults

vars == <<upload, applied, forge, up, clock, faults>>

UploadStatus == {"none", "pending", "failed", "uploaded", "pruned"}
UploadPc     == {"idle", "post", "uploaded", "failed"}

IdleUpload == [pc |-> "idle", batch |-> {}, ids |-> {}]

Fault(kind, max) == faults[kind] < max /\ faults' = [faults EXCEPT ![kind] = @ + 1]

-----------------------------------------------------------------------------
\* PersistReceipt.  A revert's receipt carries the applied_at of its lease, so
\* rows do not arrive in the order of that column.
Persist(r, t) ==
    /\ upload[r] = "none"
    /\ upload' = [upload EXCEPT ![r] = "pending"]
    /\ applied' = [applied EXCEPT ![r] = t]
    /\ UNCHANGED <<forge, up, clock, faults>>

Listed == {r \in Receipt : upload[r] \in {"pending", "failed"}}

\* ListPendingReceipts: the oldest rows, up to the limit.
Batches ==
    {b \in SUBSET Listed :
        /\ b # {} /\ Cardinality(b) <= BatchSize
        /\ Cardinality(b) = BatchSize \/ b = Listed
        /\ \A r \in b, s \in Listed \ b : applied[r] <= applied[s]}

UploadBegin ==
    /\ up.pc = "idle"
    /\ \E b \in Batches : up' = [pc |-> "post", batch |-> b, ids |-> {}]
    /\ UNCHANGED <<upload, applied, forge, clock, faults>>

\* What is read of a 200 answer of Forge: the identifiers it accepted, or none
\* when it lists none or cannot be decoded.
Answers(b) == {b \ Rejects, {}}

\* UploadReceipts drops the decoding error; no identifiers mean the whole batch.
AcceptedIds(b, answer) == IF answer = {} THEN b ELSE answer

\* Wrong variant of PostFailed: the error is not looked at.
PostFailedIgnored(taken) ==
    /\ forge' = forge \cup taken
    /\ up' = [up EXCEPT !.pc = "uploaded", !.ids = up.batch]
    /\ UNCHANGED faults

\* The request or its answer is lost, or Forge answers with an error: whether
\* the batch was taken remains open.
PostFailed(taken) ==
    /\ forge' = forge \cup taken
    /\ up' = [up EXCEPT !.pc = "failed", !.ids = up.batch]
    /\ UNCHANGED faults

PostAnswered ==
    /\ up.pc = "post"
    /\ forge' = forge \cup (up.batch \ Rejects)
    /\ \E a \in Answers(up.batch) :
          up' = [up EXCEPT !.pc = "uploaded", !.ids = AcceptedIds(up.batch, a)]
    /\ UNCHANGED <<upload, applied, clock, faults>>

Post ==
    \/ PostAnswered
    \/ /\ up.pc = "post"
       /\ \E taken \in {{}, up.batch \ Rejects} : PostFailed(taken)
       /\ UNCHANGED <<upload, applied, clock>>

\* Wrong variants of MarkRow: back to the queue; a status nobody knows.
MarkRowAcknowledged(r) == upload' = [upload EXCEPT ![r] = "acknowledged"]
MarkRowPending(r) == upload' = [upload EXCEPT ![r] = "pending"]

\* One UPDATE by identifier, whatever the row says now.
MarkRow(r) == upload' = [upload EXCEPT ![r] = up.pc]

\* MarkReceiptsUploaded and MarkReceiptsFailed, row by row; the first journal
\* error ends the upload.
Mark ==
    /\ up.pc \in {"uploaded", "failed"}
    /\ \E r \in up.ids :
          \/ /\ MarkRow(r)
             /\ up' = IF up.ids = {r} THEN IdleUpload ELSE [up EXCEPT !.ids = @ \ {r}]
             /\ UNCHANGED faults
          \/ /\ Fault("store", MaxStoreFaults)
             /\ up' = IdleUpload
             /\ UNCHANGED upload
    /\ UNCHANGED <<applied, forge, clock>>

\* PruneUploadedReceipts.
Prunable == {r \in Receipt : upload[r] = "uploaded" /\ applied[r] + Retention < clock}

Prune ==
    /\ up.pc = "idle"
    /\ Prunable # {}
    /\ upload' = [r \in Receipt |-> IF r \in Prunable THEN "pruned" ELSE upload[r]]
    /\ UNCHANGED <<applied, forge, up, clock, faults>>

Crash ==
    /\ Fault("restart", MaxRestarts)
    /\ up # IdleUpload
    /\ up' = IdleUpload
    /\ UNCHANGED <<upload, applied, forge, clock>>

Tick == /\ clock < MaxTime
        /\ clock' = clock + 1
        /\ UNCHANGED <<upload, applied, forge, up, faults>>

Init ==
    /\ upload = [r \in Receipt |-> "none"]
    /\ applied = [r \in Receipt |-> 0]
    /\ forge = {}
    /\ up = IdleUpload
    /\ clock = 0
    /\ faults = [store |-> 0, restart |-> 0]

Next == \/ \E r \in Receipt, t \in 0..clock : Persist(r, t)
        \/ UploadBegin
        \/ Post
        \/ Mark
        \/ Prune
        \/ Crash
        \/ Tick

Spec == Init /\ [][Next]_vars

\* The uploader's goroutine keeps running: its ticker fires again and again, and
\* the HTTP client has a timeout, so that a call ends.
FairSpec == Spec /\ WF_vars(UploadBegin) /\ WF_vars(Post) /\ WF_vars(Mark)

\* What QueueDrains asks of Forge, which no code of the node guarantees: of the
\* uploads that keep coming, it answers some with 200, after any number of errors.
ForgeAnswers == SF_vars(PostAnswered)

-----------------------------------------------------------------------------
(* Properties.                                                             *)

\* Every variable has its type, and an upload in flight is about its batch.
TypeOK ==
    /\ upload \in [Receipt -> UploadStatus]
    /\ applied \in [Receipt -> Nat]
    /\ forge \in SUBSET Receipt
    /\ up \in [pc : UploadPc, batch : SUBSET Receipt, ids : SUBSET Receipt]
    /\ up.ids \subseteq up.batch
    /\ clock \in Nat
    /\ faults \in [store : 0..MaxStoreFaults, restart : 0..MaxRestarts]

\* A receipt that Forge would accept leaves the queue only when Forge has it:
\* lost answers, half-finished marks and crashes lose none, and pruning deletes
\* none that was not delivered.
NoReceiptLost ==
    \A r \in Receipt \ Rejects : upload[r] \in {"uploaded", "pruned"} => r \in forge

\* A receipt marked uploaded is one Forge accepted (UploadReceipts: "Returns the
\* IDs that the server accepted so the caller can mark them uploaded").
UploadedIsAccepted ==
    \A r \in Receipt : upload[r] = "uploaded" => r \in forge

\* As long as Forge answers again and again, every receipt it would accept leaves
\* the queue: also behind whole batches of older rows that it refuses, after any
\* number of failed uploads, and although marks and the process are lost in
\* between (ListPendingReceipts returns the oldest rows, failed ones included).
QueueDrains ==
    ForgeAnswers =>
        \A r \in Receipt \ Rejects :
            upload[r] = "pending" ~> upload[r] \in {"uploaded", "pruned"}
=============================================================================
