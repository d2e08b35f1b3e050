------------------------------ MODULE Receipts ------------------------------
(***************************************************************************)
(* Uploaded receipts.  The image goes to object storage, outside the       *)
(* transaction that writes the receipt and, when the server is to read it, *)
(* queues a recognition job.  Deliveries of that job read the receipt,     *)
(* recognise the image between two transactions and write what they found. *)
(* Meanwhile people confirm the receipt into a ledger transaction, or post *)
(* a transaction that names it, under subjects and keys of their own.      *)
(*                                                                         *)
(* The subject lock does not order any of these: the row lock an update    *)
(* takes and the unique index on transactions.receipt_id do.               *)
(***************************************************************************)
EXTENDS Naturals

CONSTANTS
  Receipts,     \* uploads
  Deliveries,   \* deliveries of recognition jobs: bound
  Posts,        \* requests that post a transaction for a receipt
  ReceiptOf,    \* the receipt a request names
  KeyOf         \* the idempotency key (with its subject) of a request

ASSUME ReceiptsAssumption == Receipts # {} /\ ReceiptOf \in [Posts -> Receipts]

Nobody == "nobody"
ASSUME NobodyAssumption == Nobody \notin Posts

VARIABLES
  upload,     \* each upload request: its pc and the row it is about to write
  stored,     \* receipts whose object is in the bucket
  receipt,    \* receipts.status, committed
  link,       \* receipts.transaction_id: the request that posted it
  ocrJob,     \* the recognition job of a receipt
  delivery,   \* each delivery: its pc, its receipt, whether it was confirmed
  rowLock,    \* the request holding the row of a receipt
  post,       \* each posting request's pc
  posted      \* committed transactions carrying a receipt id, by their request

receiptVars ==
  <<upload, stored, receipt, link, ocrJob, delivery, rowLock, post, posted>>

Preferences == {"device_result", "savia", "external_provider"}
Claimable   == {"uploaded", "awaiting_review", "failed"}
Unread      == {"uploaded", "processing"}
Answers     == {"created", "replayed", "conflict", "invalid", "error"}

ReceiptTypeOK ==
  /\ upload \in [Receipts -> [pc : {"new", "in_try", "commit", "over"}, job : BOOLEAN,
                             status : {"uploaded", "awaiting_review"}]]
  /\ stored \subseteq Receipts
  /\ receipt \in [Receipts -> {"absent", "confirmed"} \cup Claimable]
  /\ link \in [Receipts -> {Nobody} \cup Posts]
  /\ ocrJob \in [Receipts -> {"none", "open", "completed", "failed"}]
  /\ delivery \in [Deliveries -> [pc : {"none", "bound", "recognised", "over"},
                                 of : Receipts, settled : BOOLEAN]]
  /\ rowLock \in [Receipts -> {Nobody} \cup Posts]
  /\ post \in [Posts -> {"new", "claimed", "direct", "linking", "commit"}
                        \cup Answers]
  /\ posted \subseteq Posts

ReceiptInit ==
  /\ upload = [r \in Receipts |-> [pc |-> "new", status |-> "uploaded", job |-> FALSE]]
  /\ stored = {}
  /\ receipt = [r \in Receipts |-> "absent"]
  /\ link = [r \in Receipts |-> Nobody]
  /\ ocrJob = [r \in Receipts |-> "none"]
  /\ delivery = [d \in Deliveries |->
       [pc |-> "none", of |-> CHOOSE r \in Receipts : TRUE, settled |-> FALSE]]
  /\ rowLock = [r \in Receipts |-> Nobody]
  /\ post = [p \in Posts |-> "new"]
  /\ posted = {}

-----------------------------------------------------------------------------
(* Uploading *)

Uploading(r, pc) == upload[r].pc = pc

\* The role is right and the key unused: the object is sent, in the
\* transaction but before the try block.  A call that fails may have arrived.
SendObject(r) ==
  /\ Uploading(r, "new")
  /\ \E arrives \in BOOLEAN, fails \in BOOLEAN :
       /\ arrives \/ fails
       /\ stored' = IF arrives THEN stored \cup {r} ELSE stored
       /\ upload' = [upload EXCEPT ![r].pc = IF fails THEN "over" ELSE "in_try"]
  /\ UNCHANGED <<receipt, link, ocrJob, delivery, rowLock, post, posted>>

\* The job (for an image the server is to read) and the row, uncommitted.
WriteReceipt(r) ==
  /\ Uploading(r, "in_try")
  /\ \E preference \in Preferences, image \in BOOLEAN :
       upload' = [upload EXCEPT ![r] =
         [pc     |-> "commit",
          status |-> IF preference = "device_result" THEN "awaiting_review"
                     ELSE "uploaded",
          job    |-> preference = "savia" /\ image]]
  /\ UNCHANGED <<stored, receipt, link, ocrJob, delivery, rowLock, post, posted>>

\* catch: remove the object, as well as it goes, and fail.
WriteReceiptFails(r) ==
  /\ Uploading(r, "in_try")
  /\ stored' \in {stored, stored \ {r}}
  /\ upload' = [upload EXCEPT ![r].pc = "over"]
  /\ UNCHANGED <<receipt, link, ocrJob, delivery, rowLock, post, posted>>

Insert(r) ==
  /\ receipt' = [receipt EXCEPT ![r] = upload[r].status]
  /\ ocrJob' = [ocrJob EXCEPT ![r] = IF upload[r].job THEN "open" ELSE "none"]

\* Faulty variant: the catch block surrounds the transaction, so that a COMMIT
\* whose answer is lost takes the object away from a receipt that exists.
CommitOrClean(r) ==
  /\ Uploading(r, "commit")
  /\ upload' = [upload EXCEPT ![r].pc = "over"]
  /\ \/ Insert(r) /\ stored' \in {stored, stored \ {r}}
     \/ stored' = stored \ {r} /\ UNCHANGED <<receipt, ocrJob>>
  /\ UNCHANGED <<link, delivery, rowLock, post, posted>>

\* COMMIT is after the try block: whether it succeeds, fails or loses its
\* answer, the object stays.
CommitReceipt(r) ==
  /\ Uploading(r, "commit")
  /\ upload' = [upload EXCEPT ![r].pc = "over"]
  /\ Insert(r) \/ UNCHANGED <<receipt, ocrJob>>
  /\ UNCHANGED <<stored, link, delivery, rowLock, post, posted>>

-----------------------------------------------------------------------------
(* Recognition *)

\* compute: read the binding in a transaction of its own.
Bind(d) ==
  /\ delivery[d].pc = "none"
  /\ \E r \in Receipts :
       /\ ocrJob[r] = "open"
       /\ delivery' = [delivery EXCEPT ![d] =
            [pc |-> "bound", of |-> r,
             settled |-> receipt[r] = "confirmed" \/ link[r] # Nobody]]
  /\ UNCHANGED <<upload, stored, receipt, link, ocrJob, rowLock, post, posted>>

\* download and ocr: nothing is fetched for a receipt seen as confirmed.
Recognise(d) ==
  /\ delivery[d].pc = "bound"
  /\ delivery[d].settled \/ delivery[d].of \in stored
  /\ delivery' = [delivery EXCEPT ![d].pc = "recognised"]
  /\ UNCHANGED <<upload, stored, receipt, link, ocrJob, rowLock, post, posted>>

\* The condition of updateOcrResultCas, and of the projection of a failure.
StillUnread(r) == link[r] = Nobody /\ receipt[r] \in Unread

\* persist: the result and the end of the job commit together, if this
\* delivery is still the one to end it.  The update waits for the row.
Persist(d) ==
  LET r == delivery[d].of IN
  /\ delivery[d].pc = "recognised"
  /\ ocrJob[r] = "open"
  /\ rowLock[r] = Nobody
  /\ receipt' = IF StillUnread(r)
                  THEN [receipt EXCEPT ![r] = "awaiting_review"] ELSE receipt
  /\ ocrJob' = [ocrJob EXCEPT ![r] = "completed"]
  /\ delivery' = [delivery EXCEPT ![d].pc = "over"]
  /\ UNCHANGED <<upload, stored, link, rowLock, post, posted>>

\* The delivery crashes, loses its lease, or finds the job ended by another.
DropDelivery(d) ==
  /\ delivery[d].pc \in {"bound", "recognised"}
  /\ delivery' = [delivery EXCEPT ![d].pc = "over"]
  /\ UNCHANGED <<upload, stored, receipt, link, ocrJob, rowLock, post, posted>>

\* Faulty variant: the end of the job is not projected on the receipt.
FailJobOnly(r) ==
  /\ ocrJob[r] = "open"
  /\ rowLock[r] = Nobody
  /\ ocrJob' = [ocrJob EXCEPT ![r] = "failed"]
  /\ UNCHANGED <<upload, stored, receipt, link, delivery, rowLock, post, posted>>

\* A permanent error or the last attempt ends the job (failed, dead_letter),
\* and the trigger on jobs fails the receipt in the same transaction.
FailJob(r) ==
  /\ ocrJob[r] = "open"
  /\ rowLock[r] = Nobody
  /\ ocrJob' = [ocrJob EXCEPT ![r] = "failed"]
  /\ receipt' = IF StillUnread(r) THEN [receipt EXCEPT ![r] = "failed"] ELSE receipt
  /\ UNCHANGED <<upload, stored, link, delivery, rowLock, post, posted>>

-----------------------------------------------------------------------------
(* Posting *)

ReleaseClaim(p) ==
  rowLock' = [r \in Receipts |-> IF rowLock[r] = p THEN Nobody ELSE rowLock[r]]

\* Roll back, and answer: nothing of the transaction remains.
Refuse(p, answer) ==
  /\ post' = [post EXCEPT ![p] = answer]
  /\ ReleaseClaim(p)
  /\ UNCHANGED <<upload, stored, receipt, link, ocrJob, delivery, posted>>

\* confirmReceipt: the claim is an update that writes no status.  A retry of
\* a confirmation that succeeded is a conflict too: its key is not looked at.
Claim(p) ==
  LET r == ReceiptOf[p] IN
  /\ post[p] = "new"
  /\ rowLock[r] = Nobody
  /\ IF receipt[r] \in Claimable /\ link[r] = Nobody
       THEN /\ rowLock' = [rowLock EXCEPT ![r] = p]
            /\ post' = [post EXCEPT ![p] = "claimed"]
       ELSE /\ post' = [post EXCEPT ![p] = "conflict"]
            /\ UNCHANGED rowLock
  /\ UNCHANGED <<upload, stored, receipt, link, ocrJob, delivery, posted>>

\* POST /v1/transactions with a receiptId: the foreign key must find the row.
PostDirectly(p) ==
  /\ post[p] = "new"
  /\ receipt[ReceiptOf[p]] # "absent"
  /\ post' = [post EXCEPT ![p] = "direct"]
  /\ UNCHANGED <<upload, stored, receipt, link, ocrJob, delivery, rowLock, posted>>

Rivals(p) == {q \in Posts \ {p} : ReceiptOf[q] = ReceiptOf[p]}

Inserting(p) == post[p] \in {"linking", "commit"}

\* createWithin: the record of the key, the checks of the account and the
\* command, then the insert, which waits for another of the same receipt.
CreateTransaction(p) ==
  /\ post[p] \in {"claimed", "direct"}
  /\ LET used == {q \in posted : KeyOf[q] = KeyOf[p]} IN
     \/ /\ used # {}
        /\ Refuse(p, IF \E q \in used : ReceiptOf[q] = ReceiptOf[p]
                       THEN "replayed" ELSE "conflict")
     \/ used = {} /\ Refuse(p, "invalid")
     \/ /\ used = {}
        /\ ~ \E q \in Rivals(p) : Inserting(q)
        /\ IF Rivals(p) \cap posted # {}
             THEN Refuse(p, "conflict")
             ELSE /\ post' = [post EXCEPT ![p] =
                       IF post[p] = "claimed" THEN "linking" ELSE "commit"]
                  /\ UNCHANGED <<upload, stored, receipt, link, ocrJob,
                                 delivery, rowLock, posted>>

\* confirm, and COMMIT.
ConfirmReceipt(p) ==
  LET r == ReceiptOf[p] IN
  /\ post[p] = "linking"
  /\ post' = [post EXCEPT ![p] = "created"]
  /\ posted' = posted \cup {p}
  /\ receipt' = [receipt EXCEPT ![r] = "confirmed"]
  /\ link' = [link EXCEPT ![r] = p]
  /\ ReleaseClaim(p)
  /\ UNCHANGED <<upload, stored, ocrJob, delivery>>

CommitDirect(p) ==
  /\ post[p] = "commit"
  /\ post' = [post EXCEPT ![p] = "created"]
  /\ posted' = posted \cup {p}
  /\ UNCHANGED <<upload, stored, receipt, link, ocrJob, delivery, rowLock>>

AbortPost(p) ==
  /\ post[p] \in {"claimed", "direct", "linking", "commit"}
  /\ Refuse(p, "error")

-----------------------------------------------------------------------------
EndJob(r) == FailJob(r) \/ \E d \in Deliveries : delivery[d].of = r /\ Persist(d)

UploadStep(r) ==
  SendObject(r) \/ WriteReceipt(r) \/ WriteReceiptFails(r) \/ CommitReceipt(r)

PostStep(p) ==
  \/ Claim(p) \/ PostDirectly(p) \/ CreateTransaction(p)
  \/ ConfirmReceipt(p) \/ CommitDirect(p) \/ AbortPost(p)

ReceiptNext ==
  \/ \E r \in Receipts : UploadStep(r) \/ FailJob(r)
  \/ \E d \in Deliveries : Bind(d) \/ Recognise(d) \/ Persist(d) \/ DropDelivery(d)
  \/ \E p \in Posts : PostStep(p)

\* A transaction ends, by its deadline if nothing else; a job is retried until
\* it ends, and the row is granted in the order of the queue.
ReceiptFairness ==
  /\ \A p \in Posts : WF_receiptVars(CreateTransaction(p) \/ ConfirmReceipt(p)
                                     \/ CommitDirect(p) \/ AbortPost(p))
  /\ \A r \in Receipts : SF_receiptVars(EndJob(r))

ReceiptSpec == ReceiptInit /\ [][ReceiptNext]_receiptVars /\ ReceiptFairness

-----------------------------------------------------------------------------
(* Properties *)

(* A receipt never outlives its image: createReceipt removes the object    *)
(* only when its transaction is certain to be rolled back, although the    *)
(* upload is not part of it and COMMIT may lose its answer.                *)
EveryReceiptHasItsImage ==
  \A r \in Receipts : receipt[r] # "absent" => r \in stored

(* A receipt has one transaction at most, and is confirmed exactly when it *)
(* carries one, which is then the transaction that names it: whatever the  *)
(* order of confirmations, direct posts, failures of the ledger and keys   *)
(* used twice.                                                             *)
ConfirmedByItsTransaction ==
  \A r \in Receipts :
    /\ (receipt[r] = "confirmed") = (link[r] # Nobody)
    /\ \A p, q \in posted : ReceiptOf[p] = r /\ ReceiptOf[q] = r => p = q
    /\ link[r] # Nobody => link[r] \in posted /\ ReceiptOf[link[r]] = r

(* A receipt has its image and, when confirmed, its transaction: the three  *)
(* stores of an upload and its confirmation agree, whatever fails between. *)
ReceiptsHold == EveryReceiptHasItsImage /\ ConfirmedByItsTransaction

(* What a person has settled is not taken back by a machine, and what was *)
(* handed to it does not wait for ever: a recognition that ends late,      *)
(* twice or in failure leaves a confirmed receipt and one under review as  *)
(* they are, and a receipt with a recognition job is put to review, failed *)
(* or confirmed by hand in the end.                                        *)
RecognitionSettles ==
  /\ [][\A r \in Receipts :
          /\ receipt[r] = "confirmed" => receipt'[r] = "confirmed" /\ link'[r] = link[r]
          /\ receipt[r] \in {"awaiting_review", "failed"}
               => receipt'[r] \in {receipt[r], "confirmed"}]_receiptVars
  /\ \A r \in Receipts :
       (receipt[r] = "uploaded" /\ ocrJob[r] = "open") ~> receipt[r] # "uploaded"
=============================================================================
