------------------------------ MODULE JobQueue ------------------------------
(***************************************************************************)
(* The asynchronous job subsystem: request services enqueue a job row and  *)
(* a pgmq message in one transaction, worker processes claim messages      *)
(* under a visibility timeout, run the handler in separate transactions    *)
(* and finally delete, archive or defer the message.                       *)
(*                                                                         *)
(* Each write transaction of the code takes the advisory lock of the job's *)
(* creator (PgTransaction.run), and each SQL wrapper locks the job row, so *)
(* a transaction is one action here.  Everything between two transactions  *)
(* (claim, compute, recheck, acknowledgement) is a separate action, and    *)
(* any number of deliveries of one message may be in flight at once: the   *)
(* lease of a delivery may run out while its worker is still busy.         *)
(***************************************************************************)
EXTENDS Naturals

CONSTANTS
  Jobs,         \* job identities; each has one row and one message
  Workers,      \* concurrent deliveries: one per slot of a claimed batch
  Actors,       \* subjects that create jobs
  Creator,      \* jobs.created_by, also actor_id of the envelope
  Kind,         \* "run": a report or export row is bound to the job;
                \* "insert": persist inserts a fresh row (forecast)
  MaxAttempts,  \* WorkerConfig.maxAttempts
  ReadCtCap,    \* bound: read_ct stops counting here
  MaxFaults     \* bound: crashes, lost replies and expired leases

ASSUME ConstantsAssumption ==
  /\ Creator \in [Jobs -> Actors]
  /\ Kind \in [Jobs -> {"run", "insert"}]
  /\ MaxAttempts \in Nat \ {0}
  /\ ReadCtCap \in Nat
  /\ ReadCtCap > MaxAttempts
  /\ MaxFaults \in Nat

VARIABLES
  status,     \* jobs.status, "none" before the row exists
  attempt,    \* jobs.attempt_count
  run,        \* status of the report_runs or export_jobs row bound to a job
  results,    \* how many times handler.persist has committed for a job
  msg,        \* place and read_ct of the job's pgmq message
  delivery,   \* what each slot is doing: pc, job and the read_ct it claimed
  role,       \* workspace_actor_active_role of each actor
  faults      \* how much of MaxFaults is spent

vars == <<status, attempt, run, results, msg, delivery, role, faults>>

Live     == {"queued", "processing"}
Terminal == {"completed", "failed", "dead_letter"}
InQueue  == {"visible", "leased"}
Roles    == {"editor", "viewer", "none"}

PCs == {"idle", "t1", "compute", "t2", "t2_recheck", "recheck", "orphan",
        "fail", "dead_letter", "ack", "archive", "defer"}

Idle == [pc |-> "idle"]
Delivery == {Idle} \cup
            [pc : PCs \ {"idle"}, job : Jobs, readCt : 1..ReadCtCap]

TypeOK ==
  /\ status \in [Jobs -> {"none"} \cup Live \cup Terminal]
  /\ attempt \in [Jobs -> 0..ReadCtCap]
  /\ run \in [Jobs -> {"none", "queued", "completed", "failed"}]
  /\ results \in [Jobs -> Nat]
  /\ msg \in [Jobs -> [at : {"none", "acked", "archived"} \cup InQueue,
                       readCt : 0..ReadCtCap]]
  /\ delivery \in [Workers -> Delivery]
  /\ role \in [Actors -> Roles]
  /\ faults \in 0..MaxFaults

Init ==
  /\ status = [j \in Jobs |-> "none"]
  /\ attempt = [j \in Jobs |-> 0]
  /\ run = [j \in Jobs |-> "none"]
  /\ results = [j \in Jobs |-> 0]
  /\ msg = [j \in Jobs |-> [at |-> "none", readCt |-> 0]]
  /\ delivery = [w \in Workers |-> Idle]
  /\ role = [a \in Actors |-> "editor"]
  /\ faults = 0

-----------------------------------------------------------------------------
(* Helpers *)

At(w, pc)   == delivery[w].pc = pc
JobOf(w)    == delivery[w].job
Goto(w, pc) == delivery' = [delivery EXCEPT ![w].pc = pc]
Release(w)  == delivery' = [delivery EXCEPT ![w] = Idle]

\* Role re-check of PgTransaction.run and of T1: owner, administrator, editor.
MayWrite(j) == role[Creator[j]] = "editor"

Busy(j) == \E w \in Workers : ~At(w, "idle") /\ JobOf(w) = j

Charge == faults < MaxFaults /\ faults' = faults + 1

\* Faulty variant: no trigger on the table of the bound row.
NoProjection(j) == UNCHANGED run

\* A failed or dead-lettered job drags its still open run row to failed:
\* triggers project_report_run_job_failure and the export one.
ProjectFailure(j) ==
  run' = [run EXCEPT ![j] = IF @ = "queued" THEN "failed" ELSE @]

\* Faulty variant: one attempt too few.
AfterTransientEarly(w) ==
  Goto(w, IF delivery[w].readCt + 1 >= MaxAttempts THEN "dead_letter"
                                                    ELSE "defer")

\* Retry policy: the last attempt that fails transiently is dead-lettered.
AfterTransient(w) ==
  Goto(w, IF delivery[w].readCt >= MaxAttempts THEN "dead_letter" ELSE "defer")

JobVars == <<status, attempt, run, results>>

-----------------------------------------------------------------------------
(* Request side and environment *)

\* createReportRun, createExportJob, createBalanceForecast: the job row, its
\* message and the bound row are written in one transaction.
Enqueue(j) ==
  /\ status[j] = "none"
  /\ MayWrite(j)
  /\ status' = [status EXCEPT ![j] = "queued"]
  /\ msg' = [msg EXCEPT ![j].at = "visible"]
  /\ run' = [run EXCEPT ![j] = IF Kind[j] = "run" THEN "queued" ELSE "none"]
  /\ UNCHANGED <<attempt, results, delivery, role, faults>>

\* A membership is changed by somebody else, at any moment.
SetRole(a, r) ==
  /\ role[a] # r
  /\ role' = [role EXCEPT ![a] = r]
  /\ UNCHANGED <<status, attempt, run, results, msg, delivery, faults>>

\* pgmq.read makes the message invisible and counts the read.
Lease(j) ==
  /\ msg[j].at = "visible"
  /\ msg' = [msg EXCEPT
       ![j] = [at |-> "leased",
               readCt |-> IF @.readCt < ReadCtCap THEN @.readCt + 1
                                                  ELSE ReadCtCap]]

Claim(w, j) ==
  /\ At(w, "idle")
  /\ Lease(j)
  /\ delivery' = [delivery EXCEPT
       ![w] = [pc |-> "t1", job |-> j, readCt |-> msg'[j].readCt]]
  /\ UNCHANGED <<JobVars, role, faults>>

\* The claim committed but nobody processes it: the reply was lost, or the
\* runner was stopping and left the batch unacknowledged.
ClaimLost(j) ==
  /\ Lease(j)
  /\ Charge
  /\ UNCHANGED <<JobVars, delivery, role>>

\* The visibility timeout or the backoff delay of a defer runs out.
LeaseExpires(j) ==
  /\ msg[j].at = "leased"
  /\ ~Busy(j)
  /\ msg' = [msg EXCEPT ![j].at = "visible"]
  /\ UNCHANGED <<JobVars, delivery, role, faults>>

\* It runs out under a busy worker: two deliveries now overlap.
LeaseExpiresEarly(j) ==
  /\ msg[j].at = "leased"
  /\ Busy(j)
  /\ Charge
  /\ msg' = [msg EXCEPT ![j].at = "visible"]
  /\ UNCHANGED <<JobVars, delivery, role>>

\* Crash of the worker, an exhausted delivery deadline, or an error of the
\* queue that leaves processMessage: the message stays where it is.  After a
\* transaction this is also a commit whose acknowledgement got lost.
Abandon(w) ==
  /\ ~At(w, "idle")
  /\ Charge
  /\ Release(w)
  /\ UNCHANGED <<JobVars, msg, role>>

-----------------------------------------------------------------------------
(* T1: re-check the actor and move the job to processing *)

\* ActorVerificationError.
T1ActorRefused(w) ==
  /\ At(w, "t1")
  /\ ~MayWrite(JobOf(w))
  /\ Goto(w, "orphan")
  /\ UNCHANGED <<JobVars, msg, role, faults>>

\* Faulty variant: a redelivered finished job is left to its lease.
T1TerminalIgnored(w) ==
  /\ At(w, "t1")
  /\ MayWrite(JobOf(w))
  /\ status[JobOf(w)] \in Terminal
  /\ Release(w)
  /\ UNCHANGED <<JobVars, msg, role, faults>>

T1Terminal(w) ==
  /\ At(w, "t1")
  /\ MayWrite(JobOf(w))
  /\ status[JobOf(w)] \in Terminal
  /\ Goto(w, "ack")
  /\ UNCHANGED <<JobVars, msg, role, faults>>

DeadLetterJob(j) ==
  /\ status[j] \in Live
  /\ status' = [status EXCEPT ![j] = "dead_letter"]
  /\ ProjectFailure(j)
  /\ UNCHANGED <<attempt, results>>

T1Exhausted(w) ==
  /\ At(w, "t1")
  /\ MayWrite(JobOf(w))
  /\ delivery[w].readCt > MaxAttempts
  /\ DeadLetterJob(JobOf(w))
  /\ Goto(w, "archive")
  /\ UNCHANGED <<msg, role, faults>>

\* Faulty variant: start_job without its status check.
RestartJob(j, n) ==
  /\ status' = [status EXCEPT ![j] = "processing"]
  /\ attempt' = [attempt EXCEPT ![j] = n]
  /\ UNCHANGED <<run, results>>

StartJob(j, n) ==
  /\ status[j] \in Live
  /\ status' = [status EXCEPT ![j] = "processing"]
  /\ attempt' = [attempt EXCEPT ![j] = n]
  /\ UNCHANGED <<run, results>>

T1Start(w) ==
  /\ At(w, "t1")
  /\ MayWrite(JobOf(w))
  /\ delivery[w].readCt <= MaxAttempts
  /\ StartJob(JobOf(w), delivery[w].readCt)
  /\ Goto(w, "compute")
  /\ UNCHANGED <<msg, role, faults>>

\* The row was live when T1 read it, and fail_orphaned_job, which takes no
\* advisory lock, ended it before the wrapper locked the row: P0001.
T1Refused(w) ==
  /\ At(w, "t1")
  /\ MayWrite(JobOf(w))
  /\ status[JobOf(w)] \in Terminal
  /\ Goto(w, "recheck")
  /\ UNCHANGED <<JobVars, msg, role, faults>>

-----------------------------------------------------------------------------
(* Compute, render and store: no change to the job *)

ComputeOk(w) ==
  /\ At(w, "compute")
  /\ Kind[JobOf(w)] = "run" => run[JobOf(w)] = "queued"
  /\ Goto(w, "t2")
  /\ UNCHANGED <<JobVars, msg, role, faults>>

ComputeTransient(w) ==
  /\ At(w, "compute")
  /\ AfterTransient(w)
  /\ UNCHANGED <<JobVars, msg, role, faults>>

\* Also an invalid payload, and a run row that is no longer open.
ComputePermanent(w) ==
  /\ At(w, "compute")
  /\ Goto(w, "fail")
  /\ UNCHANGED <<JobVars, msg, role, faults>>

-----------------------------------------------------------------------------
(* T2: handler.persist and complete_job in one transaction *)

\* Faulty variant: complete_job without its status check.
CompleteAnyJob(j) == status' = [status EXCEPT ![j] = "completed"]

CompleteJob(j) ==
  /\ status[j] = "processing"
  /\ status' = [status EXCEPT ![j] = "completed"]

Persist(j) ==
  /\ Kind[j] = "run" => run[j] = "queued"
  /\ run' = [run EXCEPT ![j] = IF Kind[j] = "run" THEN "completed" ELSE @]
  /\ results' = [results EXCEPT ![j] = @ + 1]

T2Commit(w) ==
  /\ At(w, "t2")
  /\ MayWrite(JobOf(w))
  /\ Persist(JobOf(w))
  /\ CompleteJob(JobOf(w))
  /\ UNCHANGED <<attempt, msg, role>>

T2Ok(w) ==
  /\ T2Commit(w)
  /\ Goto(w, "ack")
  /\ UNCHANGED faults

\* CommitOutcomeUnknownError: committed, but reported as a transient failure.
T2CommitUnknown(w) ==
  /\ T2Commit(w)
  /\ AfterTransient(w)
  /\ Charge

T2ActorRefused(w) ==
  /\ At(w, "t2")
  /\ ~MayWrite(JobOf(w))
  /\ Goto(w, "orphan")
  /\ UNCHANGED <<JobVars, msg, role, faults>>

\* complete_job raises P0001; the rows persist wrote are rolled back with it.
T2Refused(w) ==
  /\ At(w, "t2")
  /\ MayWrite(JobOf(w))
  /\ Kind[JobOf(w)] = "insert"
  /\ status[JobOf(w)] # "processing"
  /\ Goto(w, "t2_recheck")
  /\ UNCHANGED <<JobVars, msg, role, faults>>

\* Rolled back: a transient database error, or a run row no longer open.
T2Transient(w) ==
  /\ At(w, "t2")
  /\ AfterTransient(w)
  /\ UNCHANGED <<JobVars, msg, role, faults>>

\* Rolled back: a constraint refused the rows.
T2Permanent(w) ==
  /\ At(w, "t2")
  /\ Goto(w, "fail")
  /\ UNCHANGED <<JobVars, msg, role, faults>>

-----------------------------------------------------------------------------
(* Failure transactions *)

FailJob(w) ==
  /\ At(w, "fail")
  /\ MayWrite(JobOf(w))
  /\ status[JobOf(w)] = "processing"
  /\ status' = [status EXCEPT ![JobOf(w)] = "failed"]
  /\ ProjectFailure(JobOf(w))
  /\ Goto(w, "ack")
  /\ UNCHANGED <<attempt, results, msg, role, faults>>

DeadLetter(w) ==
  /\ At(w, "dead_letter")
  /\ MayWrite(JobOf(w))
  /\ DeadLetterJob(JobOf(w))
  /\ Goto(w, "archive")
  /\ UNCHANGED <<msg, role, faults>>

\* P0001 from fail_job or dead_letter_job: the job has left the live states.
WriteRefused(w) ==
  /\ \/ At(w, "fail") /\ status[JobOf(w)] # "processing"
     \/ At(w, "dead_letter") /\ status[JobOf(w)] \notin Live
  /\ MayWrite(JobOf(w))
  /\ Goto(w, "recheck")
  /\ UNCHANGED <<JobVars, msg, role, faults>>

\* Faulty variant: the refusal is acknowledged like the one of T1.
WriteActorRefusedAcked(w) ==
  /\ At(w, "fail") \/ At(w, "dead_letter")
  /\ ~MayWrite(JobOf(w))
  /\ Goto(w, "ack")
  /\ UNCHANGED <<JobVars, msg, role, faults>>

\* ActorVerificationError inside a failure write: processMessage returns
\* false and the message waits for its next delivery.
WriteActorRefused(w) ==
  /\ At(w, "fail") \/ At(w, "dead_letter")
  /\ ~MayWrite(JobOf(w))
  /\ Release(w)
  /\ UNCHANGED <<JobVars, msg, role, faults>>

\* The job row is visible to any member of the workspace.
SeesTerminal(j) == role[Creator[j]] # "none" /\ status[j] \in Terminal

\* resolveP0001WriteRefusal.
Recheck(w) ==
  /\ At(w, "recheck") \/ At(w, "t2_recheck")
  /\ \/ SeesTerminal(JobOf(w)) /\ Goto(w, "ack")
     \/ ~SeesTerminal(JobOf(w)) /\ At(w, "t2_recheck") /\ Goto(w, "fail")
     \/ ~SeesTerminal(JobOf(w)) /\ At(w, "recheck") /\ Release(w)
  /\ UNCHANGED <<JobVars, msg, role, faults>>

\* The recheck itself failed: RECHECK_FAILED carries its error into the
\* classification of T2, which finds it transient.
RecheckFails(w) ==
  /\ At(w, "t2_recheck")
  /\ AfterTransient(w)
  /\ UNCHANGED <<JobVars, msg, role, faults>>

\* fail_orphaned_job: no role check, no lock of the subject.
FailOrphaned(w) ==
  /\ At(w, "orphan")
  /\ status[JobOf(w)] \in Live
  /\ status' = [status EXCEPT ![JobOf(w)] = "failed"]
  /\ ProjectFailure(JobOf(w))
  /\ Goto(w, "ack")
  /\ UNCHANGED <<attempt, results, msg, role, faults>>

\* It updated no row: the message is not acknowledged.
FailOrphanedNoRow(w) ==
  /\ At(w, "orphan")
  /\ status[JobOf(w)] \notin Live
  /\ Release(w)
  /\ UNCHANGED <<JobVars, msg, role, faults>>

-----------------------------------------------------------------------------
(* Settling the message *)

Remove(j, place) ==
  msg' = [msg EXCEPT ![j].at = IF @ \in InQueue THEN place ELSE @]

Ack(w) ==
  /\ At(w, "ack")
  /\ Remove(JobOf(w), "acked")
  /\ Release(w)
  /\ UNCHANGED <<JobVars, role, faults>>

Archive(w) ==
  /\ At(w, "archive")
  /\ Remove(JobOf(w), "archived")
  /\ Release(w)
  /\ UNCHANGED <<JobVars, role, faults>>

\* pgmq.set_vt: invisible for the backoff delay, whoever holds it now.
Defer(w) ==
  /\ At(w, "defer")
  /\ msg' = [msg EXCEPT ![JobOf(w)].at = IF @ \in InQueue THEN "leased" ELSE @]
  /\ Release(w)
  /\ UNCHANGED <<JobVars, role, faults>>

-----------------------------------------------------------------------------
(* Every way a delivery goes on without a fault of its surroundings *)
Proceed(w) ==
  \/ T1ActorRefused(w) \/ T1Terminal(w) \/ T1Exhausted(w) \/ T1Start(w)
  \/ T1Refused(w)
  \/ ComputeOk(w) \/ ComputeTransient(w) \/ ComputePermanent(w)
  \/ T2Ok(w) \/ T2ActorRefused(w) \/ T2Refused(w) \/ T2Transient(w)
  \/ T2Permanent(w)
  \/ FailJob(w) \/ DeadLetter(w) \/ WriteRefused(w) \/ WriteActorRefused(w)
  \/ Recheck(w) \/ RecheckFails(w) \/ FailOrphaned(w) \/ FailOrphanedNoRow(w)
  \/ Ack(w) \/ Archive(w) \/ Defer(w)

Next ==
  \/ \E j \in Jobs : \/ Enqueue(j) \/ ClaimLost(j)
                     \/ LeaseExpires(j) \/ LeaseExpiresEarly(j)
  \/ \E w \in Workers, j \in Jobs : Claim(w, j)
  \/ \E w \in Workers : Proceed(w) \/ Abandon(w) \/ T2CommitUnknown(w)
  \/ \E a \in Actors, r \in Roles : SetRole(a, r)

Spec == Init /\ [][Next]_vars

\* The poll loop keeps claiming, leases run out by themselves, and a delivery
\* that is not abandoned reaches an end; nobody has to be re-promoted.
Fairness ==
  /\ \A j \in Jobs : WF_vars(LeaseExpires(j))
  /\ \A j \in Jobs : WF_vars(\E w \in Workers : Claim(w, j))
  /\ \A w \in Workers : WF_vars(Proceed(w))

FairSpec == Spec /\ Fairness

-----------------------------------------------------------------------------
(* Refinement: the row, the committed effects and the message implement    *)
(* the contract.                                                           *)
Contract == INSTANCE JobLifecycle WITH
  outcome     <- [j \in Jobs |-> IF status[j] \in Live THEN "pending"
                                                       ELSE status[j]],
  effects     <- results,
  outstanding <- {j \in Jobs : msg[j].at \in InQueue}

(* JobQueue does what JobLifecycle promises: one outcome, one effect, no   *)
(* message dropped early, and an end for every accepted job.               *)
ImplementsContract == Contract!Spec

-----------------------------------------------------------------------------
(* Properties *)

(* A job that is neither completed, failed nor dead-lettered still has its *)
(* message in the queue: no order of acks, archives and crashes of         *)
(* overlapping deliveries loses work.                                      *)
LiveJobHasMessage ==
  \A j \in Jobs : status[j] \in Live => msg[j].at \in InQueue

(* handler.persist takes effect once for a completed job and never for any *)
(* other, although several deliveries may run it and a commit may be       *)
(* reported as a failure.  Forecast rows carry no unique key on the job:   *)
(* only complete_job in the same transaction protects them.                *)
ExactlyOnce ==
  \A j \in Jobs : results[j] = IF status[j] = "completed" THEN 1 ELSE 0

(* The report or export row a client polls agrees with its job: open while *)
(* the job is live, completed with it, failed when it failed or was        *)
(* dead-lettered, by whichever of the five write paths ended it.           *)
RunAgreesWithJob ==
  \A j \in Jobs : Kind[j] = "run" =>
    run[j] = CASE status[j] = "none"      -> "none"
               [] status[j] \in Live      -> "queued"
               [] status[j] = "completed" -> "completed"
               [] OTHER                   -> "failed"

(* Dead-lettering is the end of the retries, not a shortcut: the message   *)
(* was read MaxAttempts times, and only a dead-lettered job's message is   *)
(* moved to the archive.                                                   *)
DeadLetterIsLastResort ==
  \A j \in Jobs :
    /\ status[j] = "dead_letter" => msg[j].readCt >= MaxAttempts
    /\ msg[j].at = "archived" => status[j] = "dead_letter"

(* What a client saw as the end of a job stays: no late delivery, refusal  *)
(* or orphan sweep changes a terminal row, its attempt count or its run.   *)
TerminalIsFinal ==
  [][\A j \in Jobs : status[j] \in Terminal =>
       /\ status'[j] = status[j]
       /\ attempt'[j] = attempt[j]
       /\ run'[j] = run[j]]_vars

(* Every job a client was answered 202 for comes to an end, whatever the   *)
(* handlers do and whether or not its creator keeps the write role.        *)
EveryJobEnds ==
  \A j \in Jobs : status[j] = "queued" ~> status[j] \in Terminal

(* The message of a job leaves the queue, so that workers are not busy for *)
(* ever with finished jobs: whatever happened before, if its creator has   *)
(* the write role from some time on.  Without that it may not leave, see   *)
(* DemotedCreatorIsAcked.                                                  *)
EveryMessageSettles ==
  \A j \in Jobs :
    <>[]MayWrite(j) =>
      (msg[j].at = "visible" ~> msg[j].at \in {"acked", "archived"})

(* test/platform/job-runner.spec.ts:643 "calls fail_orphaned_job and acks  *)
(* message when actor is invisible or demoted": the message of a creator   *)
(* who has lost the write role for good is acknowledged.                   *)
DemotedCreatorIsAcked ==
  \A j \in Jobs :
    <>[](msg[j].at # "none" /\ ~MayWrite(j))
      => <>(msg[j].at \in {"acked", "archived"})
=============================================================================
