--------------------------- MODULE DeliveryLease ---------------------------
(***************************************************************************)
(* The time of a delivery.  A claimed message is hidden for the visibility *)
(* timeout and then delivered again.  The delivery that holds it gives     *)
(* itself less: a safety margin, for the time the claim took to be         *)
(* answered and for what the server still does after a timer fired here,   *)
(* and a reserve, so that after its work it can still settle the message.  *)
(* Each operation gets the least of its cap and of what is left; a cap is  *)
(* a timer here, and the worker configuration refuses budgets that do not  *)
(* fit in the visibility timeout.                                          *)
(*                                                                         *)
(* The delivery is that of a receipt to recognise, which has the most      *)
(* operations.  Where one of them fails, what is left goes to ending the   *)
(* job and settling the message.  Time is in ticks; between two operations *)
(* time may pass.                                                          *)
(***************************************************************************)
EXTENDS Naturals

CONSTANTS
  Visibility, LeaseSafety, TerminalReserve, MinOperation,
  TransitionTimeout, OcrComputeTimeout, StorageDownloadTimeout, OcrTimeout,
  StageCleanupTimeout, PersistTimeout, QueueTimeout,
  ClaimLatency,      \* from the claim at the server to its answer here, at most
  ServerLag,         \* from a timer here to the end of its query at the server
  LastMoment         \* bound: how far time goes

\* What the constructor of WorkerConfig requires of these budgets.
WorkerConfig ==
  /\ QueueTimeout < TerminalReserve
  /\ LeaseSafety + TerminalReserve + 3 * MinOperation < Visibility
  /\ TransitionTimeout + OcrComputeTimeout + StorageDownloadTimeout + OcrTimeout
     + StageCleanupTimeout + PersistTimeout
     + LeaseSafety + TerminalReserve + 5 * MinOperation < Visibility

\* What the margin is for is no more than the margin, and a stage's cap is no
\* less than the least operation; the constructor requires neither.
DeliveryLeaseAssumption ==
  /\ {Visibility, LeaseSafety, TerminalReserve, MinOperation, TransitionTimeout,
      OcrComputeTimeout, StorageDownloadTimeout, OcrTimeout, StageCleanupTimeout,
      PersistTimeout, QueueTimeout} \subseteq Nat \ {0}
  /\ {ClaimLatency, ServerLag, LastMoment} \subseteq Nat
  /\ WorkerConfig
  /\ ClaimLatency + ServerLag <= LeaseSafety
  /\ MinOperation <= StorageDownloadTimeout /\ MinOperation <= OcrTimeout
ASSUME DeliveryLeaseAssumption

VARIABLES
  moment,     \* the time
  visibleAt,  \* when the message can be claimed again, by the server's clock
  expiresAt,  \* when the delivery believes its time is over
  leg,        \* which operation comes next, or how the delivery has ended
  op,         \* the operation under way: until when its timer lets it go on
  idled       \* ticks that passed between operations

leaseVars == <<moment, visibleAt, expiresAt, leg, op, idled>>

\* The operations of a delivery (T1, compute, download, ocr, T2, and the
\* acknowledgement), their caps and their order; and where one has failed, the
\* write that ends the job, or the read after one that was refused, and what is
\* asked of the queue (a deferral, an archive, an acknowledgement).
Caps == [transition |-> TransitionTimeout, compute |-> OcrComputeTimeout,
         download |-> StorageDownloadTimeout, ocr |-> OcrTimeout,
         persist |-> PersistTimeout, ack |-> QueueTimeout,
         writeoff |-> TransitionTimeout, settle |-> QueueTimeout]

Legs == {"transition", "compute", "download", "ocr", "persist", "ack"}
Endings == {"writeoff", "settle"}
BoundedStageLegs == {"download", "ocr"}

Following == [transition |-> "compute", compute |-> "download", download |-> "ocr",
              ocr |-> "persist", persist |-> "ack", ack |-> "settled",
              writeoff |-> "settle", settle |-> "settled"]

\* Where one fails, or runs into its timer, or finds the job over: an orphan is
\* failed before it is acknowledged, both by the queue.
Afterwards(l) ==
  IF l = "ack" THEN {"failed"}
  ELSE IF l = "settle" THEN {"settle", "failed"} ELSE Endings \cup {"failed"}

Quiet == 0

LeaseTypeOK ==
  /\ moment \in 0..LastMoment
  /\ visibleAt \in Nat /\ expiresAt \in Nat
  /\ leg \in Legs \cup Endings \cup {"queued", "claiming", "settled", "failed", "exhausted"}
  /\ op \in Nat
  /\ idled \in Nat

LeaseInit ==
  /\ moment = 0 /\ visibleAt = 0 /\ expiresAt = 0
  /\ leg = "queued" /\ op = Quiet /\ idled = 0

\* claim_jobs hides the message; nothing is known of it here yet.
ClaimMessage ==
  /\ leg = "queued"
  /\ visibleAt' = moment + Visibility
  /\ leg' = "claiming"
  /\ UNCHANGED <<moment, expiresAt, op, idled>>

\* Faulty variant: the margin is left out.
ClaimAnsweredWhole ==
  /\ leg = "claiming"
  /\ expiresAt' = moment + Visibility
  /\ leg' = "transition"
  /\ UNCHANGED <<moment, visibleAt, op, idled>>

\* claimedAt is the time of the answer.
ClaimAnswered ==
  /\ leg = "claiming"
  /\ expiresAt' = moment + Visibility - LeaseSafety
  /\ leg' = "transition"
  /\ UNCHANGED <<moment, visibleAt, op, idled>>

Least(a, b) == IF a < b THEN a ELSE b
Left == IF expiresAt > moment THEN expiresAt - moment ELSE 0

\* What is left of the time for work, and of the time to settle.
Available(l) ==
  IF l \in {"ack", "settle"} THEN Left
  ELSE IF Left > TerminalReserve THEN Left - TerminalReserve ELSE 0

\* forWork and forTerminal: what an operation is given.
Given(l) == Least(Caps[l], Available(l))

\* isWorkExhausted, isTerminalExhausted, and the same of a stage's own time:
\* with less than the least operation nothing is begun, and the message is
\* left to another delivery.  An ending has no budget of its own.
Exhausted(l) ==
  Available(l) < MinOperation \/ (l \in BoundedStageLegs /\ Given(l) < MinOperation)

Operating(l) == leg = l /\ op = Quiet

BeginOperation(l) ==
  /\ Operating(l)
  /\ IF Exhausted(l)
       THEN leg' = (IF l \in Endings THEN "failed" ELSE "exhausted") /\ UNCHANGED op
       ELSE op' = moment + Given(l) /\ UNCHANGED leg
  /\ UNCHANGED <<moment, visibleAt, expiresAt, idled>>

\* How long the effects of an operation may outlast its timer: the server's
\* lag, or the cleanup of a stage.
Outlasts(l) == IF l \in BoundedStageLegs THEN StageCleanupTimeout ELSE ServerLag

\* It ends in time, and the next one is due; or it fails, or runs into its
\* timer, and the delivery ends the job or is over for this message.
EndOperation(l) ==
  /\ leg = l /\ op # Quiet
  /\ op' = Quiet
  /\ leg' \in Afterwards(l) \cup IF moment <= op THEN {Following[l]} ELSE {}
  /\ UNCHANGED <<moment, visibleAt, expiresAt, idled>>

\* Time passes, not beyond what an operation, or a claim, can last.
Elapse ==
  /\ moment < LastMoment
  /\ leg = "claiming" => moment < visibleAt - Visibility + ClaimLatency
  /\ op # Quiet => moment < op + Outlasts(leg)
  /\ moment' = moment + 1
  /\ idled' = IF leg \in Legs \cup Endings /\ op = Quiet THEN idled + 1 ELSE idled
  /\ UNCHANGED <<visibleAt, expiresAt, leg, op>>

LeaseNext ==
  \/ ClaimMessage \/ ClaimAnswered \/ Elapse
  \/ \E l \in Legs \cup Endings : BeginOperation(l) \/ EndOperation(l)

LeaseSpec == LeaseInit /\ [][LeaseNext]_leaseVars

-----------------------------------------------------------------------------
(* No write of a delivery is under way when the message is visible again:  *)
(* what the next delivery finds is what this one has left, although the    *)
(* two clocks are not the same and a server goes on after a timer fired.   *)
NoWriteOutlastsTheLease ==
  op # Quiet /\ leg \notin BoundedStageLegs => moment <= visibleAt

(* A delivery that spends every operation's cap is never short of time for *)
(* the next one, nor for its acknowledgement: a configuration that starts  *)
(* is one under which a slow delivery can still end, if no more than four  *)
(* least operations pass in between.                                       *)
EveryOperationFits ==
  leg = "exhausted" => idled > 4 * MinOperation
=============================================================================
