--------------------------- MODULE JobQueueProofs ---------------------------
(***************************************************************************)
(* Theorems about JobQueue, for every set of jobs, slots and actors, every *)
(* MaxAttempts and any number of faults.                                   *)
(***************************************************************************)
EXTENDS JobQueue, TLAPS

(* What a delivery knows about the job it is working on.                   *)
DeliveryKnows ==
  \A w \in Workers : ~At(w, "idle") =>
    /\ status[JobOf(w)] # "none"
    /\ delivery[w].readCt <= msg[JobOf(w)].readCt
    /\ At(w, "ack")         => status[JobOf(w)] \in Terminal
    /\ At(w, "archive")     => status[JobOf(w)] = "dead_letter"
    /\ At(w, "dead_letter") => delivery[w].readCt >= MaxAttempts

MessageExistsWithRow ==
  \A j \in Jobs : status[j] = "none" <=> msg[j].at = "none"

(* The inductive invariant. *)
IInv ==
  /\ TypeOK
  /\ DeliveryKnows
  /\ MessageExistsWithRow
  /\ LiveJobHasMessage
  /\ ExactlyOnce
  /\ RunAgreesWithJob
  /\ DeadLetterIsLastResort

-----------------------------------------------------------------------------
(* A slot that is not idle holds a job and a read count, and keeps them    *)
(* when it moves to another step.                                          *)
LEMMA GotoKeeps ==
  ASSUME TypeOK, NEW w \in Workers, ~At(w, "idle"),
         NEW pc \in PCs \ {"idle"}, Goto(w, pc)
  PROVE  /\ JobOf(w) \in Jobs
         /\ delivery[w].readCt \in 1..ReadCtCap
         /\ delivery' \in [Workers -> Delivery]
         /\ delivery'[w].pc = pc
         /\ delivery'[w].job = delivery[w].job
         /\ delivery'[w].readCt = delivery[w].readCt
         /\ \A v \in Workers \ {w} : delivery'[v] = delivery[v]
  <1>1. delivery[w] \in [pc : PCs \ {"idle"}, job : Jobs, readCt : 1..ReadCtCap]
    BY DEF TypeOK, Delivery, At, Idle
  <1>2. delivery' = [delivery EXCEPT ![w] = [delivery[w] EXCEPT !.pc = pc]]
    BY DEF Goto
  <1>3. [delivery[w] EXCEPT !.pc = pc] \in
          [pc : PCs \ {"idle"}, job : Jobs, readCt : 1..ReadCtCap]
    BY <1>1
  <1>4. delivery \in [Workers -> Delivery]
    BY DEF TypeOK
  <1>5. delivery'[w] = [delivery[w] EXCEPT !.pc = pc]
    BY <1>2, <1>4
  <1>6. delivery' \in [Workers -> Delivery]
    BY <1>2, <1>3, <1>4 DEF Delivery
  <1>7. QED
    BY <1>1, <1>2, <1>4, <1>5, <1>6 DEF JobOf

LEMMA BusyHoldsJob ==
  ASSUME TypeOK, NEW w \in Workers, ~At(w, "idle")
  PROVE  JobOf(w) \in Jobs /\ delivery[w].readCt \in 1..ReadCtCap
  BY DEF TypeOK, Delivery, At, Idle, JobOf

LEMMA ReleaseFrees ==
  ASSUME TypeOK, NEW w \in Workers, Release(w)
  PROVE  /\ delivery' \in [Workers -> Delivery]
         /\ delivery'[w] = Idle
         /\ \A v \in Workers \ {w} : delivery'[v] = delivery[v]
  BY DEF TypeOK, Release, Delivery

(* A step of one slot that leaves the jobs and the messages alone keeps    *)
(* the invariant, when what the next step of the slot relies on is true.   *)
LEMMA MovePreserves ==
  ASSUME IInv, NEW w \in Workers, ~At(w, "idle"),
         NEW pc \in PCs \ {"idle"}, Goto(w, pc),
         UNCHANGED <<status, attempt, run, results, msg>>,
         role' \in [Actors -> Roles], faults' \in 0..MaxFaults,
         pc = "ack" => status[JobOf(w)] \in Terminal,
         pc = "archive" => status[JobOf(w)] = "dead_letter",
         pc = "dead_letter" => delivery[w].readCt >= MaxAttempts
  PROVE  IInv'
  <1>1. TypeOK
    BY DEF IInv
  <1>2. /\ delivery' \in [Workers -> Delivery]
        /\ delivery'[w].pc = pc
        /\ delivery'[w].job = delivery[w].job
        /\ delivery'[w].readCt = delivery[w].readCt
        /\ \A v \in Workers \ {w} : delivery'[v] = delivery[v]
    BY <1>1, GotoKeeps
  <1>3. TypeOK'
    BY <1>1, <1>2 DEF TypeOK
  <1>4. DeliveryKnows'
    BY <1>2 DEF IInv, DeliveryKnows, At, JobOf
  <1>5. /\ MessageExistsWithRow' /\ LiveJobHasMessage' /\ ExactlyOnce'
        /\ RunAgreesWithJob' /\ DeadLetterIsLastResort'
    BY DEF IInv, MessageExistsWithRow, LiveJobHasMessage, ExactlyOnce,
           RunAgreesWithJob, DeadLetterIsLastResort
  <1>6. QED
    BY <1>3, <1>4, <1>5 DEF IInv

LEMMA ReleasePreserves ==
  ASSUME IInv, NEW w \in Workers, Release(w),
         UNCHANGED <<status, attempt, run, results, msg>>,
         role' \in [Actors -> Roles], faults' \in 0..MaxFaults
  PROVE  IInv'
  <1>1. TypeOK
    BY DEF IInv
  <1>2. /\ delivery' \in [Workers -> Delivery]
        /\ delivery'[w] = Idle
        /\ \A v \in Workers \ {w} : delivery'[v] = delivery[v]
    BY <1>1, ReleaseFrees
  <1>3. TypeOK'
    BY <1>1, <1>2 DEF TypeOK
  <1>4. DeliveryKnows'
    BY <1>2 DEF IInv, DeliveryKnows, At, JobOf, Idle
  <1>5. /\ MessageExistsWithRow' /\ LiveJobHasMessage' /\ ExactlyOnce'
        /\ RunAgreesWithJob' /\ DeadLetterIsLastResort'
    BY DEF IInv, MessageExistsWithRow, LiveJobHasMessage, ExactlyOnce,
           RunAgreesWithJob, DeadLetterIsLastResort
  <1>6. QED
    BY <1>3, <1>4, <1>5 DEF IInv

(* fail_job, dead_letter_job and fail_orphaned_job end a live job with an  *)
(* error and drag its run row along.                                       *)
LEMMA EndingPreserves ==
  ASSUME IInv, NEW w \in Workers, ~At(w, "idle"),
         NEW e \in {"failed", "dead_letter"},
         status[JobOf(w)] \in Live,
         status' = [status EXCEPT ![JobOf(w)] = e],
         ProjectFailure(JobOf(w)),
         Goto(w, IF e = "failed" THEN "ack" ELSE "archive"),
         e = "dead_letter" => delivery[w].readCt >= MaxAttempts,
         UNCHANGED <<attempt, results, msg, role, faults>>
  PROVE  IInv'
  <1> DEFINE j == JobOf(w)
             pc == IF e = "failed" THEN "ack" ELSE "archive"
  <1>1. TypeOK
    BY DEF IInv
  <1>2. pc \in PCs \ {"idle"}
    BY DEF PCs
  <1>3. /\ j \in Jobs
        /\ delivery' \in [Workers -> Delivery]
        /\ delivery'[w].pc = pc
        /\ delivery'[w].job = delivery[w].job
        /\ delivery'[w].readCt = delivery[w].readCt
        /\ \A v \in Workers \ {w} : delivery'[v] = delivery[v]
    BY <1>1, <1>2, GotoKeeps
  <1>4. /\ status'[j] = e
        /\ \A k \in Jobs \ {j} : status'[k] = status[k]
    BY <1>1, <1>3 DEF TypeOK
  <1>5. /\ run'[j] = (IF run[j] = "queued" THEN "failed" ELSE run[j])
        /\ \A k \in Jobs \ {j} : run'[k] = run[k]
    BY <1>1, <1>3 DEF TypeOK, ProjectFailure
  <1>6. TypeOK'
    <2>1. status' \in [Jobs -> {"none"} \cup Live \cup Terminal]
      BY <1>1, <1>3 DEF TypeOK, Terminal
    <2>2. run' \in [Jobs -> {"none", "queued", "completed", "failed"}]
      BY <1>1, <1>3 DEF TypeOK, ProjectFailure
    <2>3. QED
      BY <1>1, <1>3, <2>1, <2>2 DEF TypeOK
  <1>7. DeliveryKnows'
    <2> SUFFICES ASSUME NEW v \in Workers, ~At(v, "idle")'
                 PROVE  /\ status'[JobOf(v)'] # "none"
                        /\ delivery'[v].readCt <= msg[JobOf(v)'].readCt
                        /\ At(v, "ack")' => status'[JobOf(v)'] \in Terminal
                        /\ At(v, "archive")'
                             => status'[JobOf(v)'] = "dead_letter"
                        /\ At(v, "dead_letter")'
                             => delivery'[v].readCt >= MaxAttempts
      BY DEF DeliveryKnows
    <2>1. CASE v = w
      BY <2>1, <1>3, <1>4 DEF IInv, DeliveryKnows, At, JobOf, Terminal
    <2>2. CASE v # w
      <3>1. ~At(v, "idle") /\ delivery'[v] = delivery[v]
        BY <2>2, <1>3 DEF At
      <3>2. JobOf(v) \in Jobs
        BY <1>1, <3>1, BusyHoldsJob
      <3>3. status[j] \notin Terminal /\ status[j] # "dead_letter"
        BY DEF Live, Terminal
      <3>4. QED
        BY <3>1, <3>2, <3>3, <1>3, <1>4
           DEF IInv, DeliveryKnows, At, JobOf, Terminal
    <2>3. QED
      BY <2>1, <2>2
  <1>8. MessageExistsWithRow' /\ LiveJobHasMessage'
    BY <1>3, <1>4 DEF IInv, MessageExistsWithRow, LiveJobHasMessage, Live
  <1>9. ExactlyOnce'
    BY <1>3, <1>4 DEF IInv, ExactlyOnce, Live
  <1>10. RunAgreesWithJob'
    <2> SUFFICES ASSUME NEW k \in Jobs, Kind[k] = "run"
                 PROVE  run'[k] = CASE status'[k] = "none"      -> "none"
                                    [] status'[k] \in Live      -> "queued"
                                    [] status'[k] = "completed" -> "completed"
                                    [] OTHER                    -> "failed"
      BY DEF RunAgreesWithJob
    <2>1. CASE k = j
      BY <2>1, <1>4, <1>5 DEF IInv, RunAgreesWithJob, Live
    <2>2. CASE k # j
      BY <2>2, <1>4, <1>5 DEF IInv, RunAgreesWithJob
    <2>3. QED
      BY <2>1, <2>2
  <1>11. DeadLetterIsLastResort'
    <2>1. delivery[w].readCt <= msg[j].readCt
      BY DEF IInv, DeliveryKnows
    <2>2. delivery[w].readCt \in Nat /\ msg[j].readCt \in Nat
      BY <1>1, <1>3, BusyHoldsJob DEF TypeOK
    <2>3. \A k \in Jobs : msg[k].at = "archived" => status'[k] = "dead_letter"
      BY <1>4 DEF IInv, DeadLetterIsLastResort, LiveJobHasMessage, InQueue
    <2>4. \A k \in Jobs : status'[k] = "dead_letter"
                            => msg[k].readCt >= MaxAttempts
      BY <1>4, <2>1, <2>2, ConstantsAssumption
         DEF IInv, DeadLetterIsLastResort
    <2>5. QED
      BY <2>3, <2>4 DEF DeadLetterIsLastResort
  <1>12. QED
    BY <1>6, <1>7, <1>8, <1>9, <1>10, <1>11 DEF IInv

(* start_job: the job stays live, only its attempt count is set.           *)
LEMMA StartPreserves ==
  ASSUME IInv, NEW w \in Workers, T1Start(w)
  PROVE  IInv'
  <1> DEFINE j == JobOf(w)
  <1>1. TypeOK /\ ~At(w, "idle")
    BY DEF IInv, T1Start, At
  <1>2. /\ j \in Jobs
        /\ delivery[w].readCt \in 1..ReadCtCap
        /\ delivery' \in [Workers -> Delivery]
        /\ delivery'[w].pc = "compute"
        /\ delivery'[w].job = delivery[w].job
        /\ delivery'[w].readCt = delivery[w].readCt
        /\ \A v \in Workers \ {w} : delivery'[v] = delivery[v]
    BY <1>1, GotoKeeps DEF T1Start, PCs
  <1>3. /\ status[j] \in Live
        /\ status'[j] = "processing"
        /\ \A k \in Jobs \ {j} : status'[k] = status[k]
        /\ UNCHANGED <<run, results, msg, role, faults>>
    BY <1>1, <1>2 DEF TypeOK, T1Start, StartJob
  <1>4. TypeOK'
    <2>1. status' \in [Jobs -> {"none"} \cup Live \cup Terminal]
      BY <1>1, <1>2 DEF TypeOK, T1Start, StartJob, Live
    <2>2. attempt' \in [Jobs -> 0..ReadCtCap]
      BY <1>1, <1>2, ConstantsAssumption DEF TypeOK, T1Start, StartJob
    <2>3. QED
      BY <1>1, <1>2, <1>3, <2>1, <2>2 DEF TypeOK
  <1>5. DeliveryKnows'
    <2> SUFFICES ASSUME NEW v \in Workers, ~At(v, "idle")'
                 PROVE  /\ status'[JobOf(v)'] # "none"
                        /\ delivery'[v].readCt <= msg'[JobOf(v)'].readCt
                        /\ At(v, "ack")' => status'[JobOf(v)'] \in Terminal
                        /\ At(v, "archive")'
                             => status'[JobOf(v)'] = "dead_letter"
                        /\ At(v, "dead_letter")'
                             => delivery'[v].readCt >= MaxAttempts
      BY DEF DeliveryKnows
    <2>1. CASE v = w
      BY <2>1, <1>1, <1>2, <1>3 DEF IInv, DeliveryKnows, At, JobOf
    <2>2. CASE v # w
      <3>1. ~At(v, "idle") /\ delivery'[v] = delivery[v]
        BY <2>2, <1>2 DEF At
      <3>2. JobOf(v) \in Jobs
        BY <1>1, <3>1, BusyHoldsJob
      <3>3. status[j] \notin Terminal /\ status[j] # "dead_letter"
        BY <1>3 DEF Live, Terminal
      <3>4. QED
        BY <3>1, <3>2, <3>3, <1>2, <1>3
           DEF IInv, DeliveryKnows, At, JobOf
    <2>3. QED
      BY <2>1, <2>2
  <1>6. /\ MessageExistsWithRow' /\ LiveJobHasMessage' /\ ExactlyOnce'
        /\ DeadLetterIsLastResort'
    BY <1>2, <1>3 DEF IInv, MessageExistsWithRow, LiveJobHasMessage,
                      ExactlyOnce, DeadLetterIsLastResort, Live
  <1>7. RunAgreesWithJob'
    <2> SUFFICES ASSUME NEW k \in Jobs, Kind[k] = "run"
                 PROVE  run[k] = CASE status'[k] = "none"      -> "none"
                                   [] status'[k] \in Live      -> "queued"
                                   [] status'[k] = "completed" -> "completed"
                                   [] OTHER                    -> "failed"
      BY <1>3 DEF RunAgreesWithJob
    <2>1. CASE k = j
      BY <2>1, <1>3 DEF IInv, RunAgreesWithJob, Live
    <2>2. CASE k # j
      BY <2>2, <1>3 DEF IInv, RunAgreesWithJob
    <2>3. QED
      BY <2>1, <2>2
  <1>8. QED
    BY <1>4, <1>5, <1>6, <1>7 DEF IInv

(* T2: the effect and the end of the job commit together, however the      *)
(* commit is reported to the worker.                                       *)
LEMMA PersistPreserves ==
  ASSUME IInv, NEW w \in Workers, T2Commit(w),
         NEW pc \in {"ack", "defer", "dead_letter"}, Goto(w, pc),
         pc = "dead_letter" => delivery[w].readCt >= MaxAttempts,
         faults' \in 0..MaxFaults
  PROVE  IInv'
  <1> DEFINE j == JobOf(w)
  <1>1. TypeOK /\ ~At(w, "idle") /\ pc \in PCs \ {"idle"}
    BY DEF IInv, T2Commit, At, PCs
  <1>2. /\ j \in Jobs
        /\ delivery' \in [Workers -> Delivery]
        /\ delivery'[w].pc = pc
        /\ delivery'[w].job = delivery[w].job
        /\ delivery'[w].readCt = delivery[w].readCt
        /\ \A v \in Workers \ {w} : delivery'[v] = delivery[v]
    BY <1>1, GotoKeeps
  <1>3. /\ status[j] = "processing"
        /\ status'[j] = "completed"
        /\ \A k \in Jobs \ {j} : status'[k] = status[k]
        /\ UNCHANGED <<attempt, msg, role>>
    BY <1>1, <1>2 DEF TypeOK, T2Commit, CompleteJob
  <1>4. /\ Kind[j] = "run" => run'[j] = "completed"
        /\ \A k \in Jobs \ {j} : run'[k] = run[k]
        /\ results'[j] = results[j] + 1
        /\ \A k \in Jobs \ {j} : results'[k] = results[k]
    BY <1>1, <1>2 DEF TypeOK, T2Commit, Persist
  <1>5. TypeOK'
    <2>1. status' \in [Jobs -> {"none"} \cup Live \cup Terminal]
      BY <1>1, <1>2 DEF TypeOK, T2Commit, CompleteJob, Terminal
    <2>2. run' \in [Jobs -> {"none", "queued", "completed", "failed"}]
      BY <1>1, <1>2 DEF TypeOK, T2Commit, Persist
    <2>3. results' \in [Jobs -> Nat]
      BY <1>1, <1>2 DEF TypeOK, T2Commit, Persist
    <2>4. QED
      BY <1>1, <1>2, <1>3, <2>1, <2>2, <2>3 DEF TypeOK
  <1>6. DeliveryKnows'
    <2> SUFFICES ASSUME NEW v \in Workers, ~At(v, "idle")'
                 PROVE  /\ status'[JobOf(v)'] # "none"
                        /\ delivery'[v].readCt <= msg'[JobOf(v)'].readCt
                        /\ At(v, "ack")' => status'[JobOf(v)'] \in Terminal
                        /\ At(v, "archive")'
                             => status'[JobOf(v)'] = "dead_letter"
                        /\ At(v, "dead_letter")'
                             => delivery'[v].readCt >= MaxAttempts
      BY DEF DeliveryKnows
    <2>1. CASE v = w
      BY <2>1, <1>1, <1>2, <1>3 DEF IInv, DeliveryKnows, At, JobOf, Terminal
    <2>2. CASE v # w
      <3>1. ~At(v, "idle") /\ delivery'[v] = delivery[v]
        BY <2>2, <1>2 DEF At
      <3>2. JobOf(v) \in Jobs
        BY <1>1, <3>1, BusyHoldsJob
      <3>3. QED
        BY <3>1, <3>2, <1>2, <1>3 DEF IInv, DeliveryKnows, At, JobOf, Terminal
    <2>3. QED
      BY <2>1, <2>2
  <1>7. /\ MessageExistsWithRow' /\ LiveJobHasMessage'
        /\ DeadLetterIsLastResort'
    BY <1>2, <1>3 DEF IInv, MessageExistsWithRow, LiveJobHasMessage,
                      DeadLetterIsLastResort, Live
  <1>8. ExactlyOnce'
    BY <1>2, <1>3, <1>4 DEF IInv, ExactlyOnce
  <1>9. RunAgreesWithJob'
    <2> SUFFICES ASSUME NEW k \in Jobs, Kind[k] = "run"
                 PROVE  run'[k] = CASE status'[k] = "none"      -> "none"
                                    [] status'[k] \in Live      -> "queued"
                                    [] status'[k] = "completed" -> "completed"
                                    [] OTHER                    -> "failed"
      BY DEF RunAgreesWithJob
    <2>1. CASE k = j
      BY <2>1, <1>3, <1>4 DEF Live
    <2>2. CASE k # j
      BY <2>2, <1>3, <1>4 DEF IInv, RunAgreesWithJob
    <2>3. QED
      BY <2>1, <2>2
  <1>10. QED
    BY <1>5, <1>6, <1>7, <1>8, <1>9 DEF IInv

LEMMA EnqueuePreserves ==
  ASSUME IInv, NEW j \in Jobs, Enqueue(j)
  PROVE  IInv'
  <1>1. TypeOK
    BY DEF IInv
  <1>2. /\ status[j] = "none" /\ status'[j] = "queued"
        /\ \A k \in Jobs \ {j} : status'[k] = status[k]
        /\ msg'[j].at = "visible" /\ msg'[j].readCt = msg[j].readCt
        /\ \A k \in Jobs \ {j} : msg'[k] = msg[k]
        /\ run'[j] = (IF Kind[j] = "run" THEN "queued" ELSE "none")
        /\ \A k \in Jobs \ {j} : run'[k] = run[k]
        /\ UNCHANGED <<attempt, results, delivery, role, faults>>
    BY <1>1 DEF TypeOK, Enqueue
  <1>3. TypeOK'
    <2>1. status' \in [Jobs -> {"none"} \cup Live \cup Terminal]
      BY <1>1 DEF TypeOK, Enqueue, Live
    <2>2. run' \in [Jobs -> {"none", "queued", "completed", "failed"}]
      BY <1>1 DEF TypeOK, Enqueue
    <2>3. msg' \in [Jobs -> [at : {"none", "acked", "archived"} \cup InQueue,
                             readCt : 0..ReadCtCap]]
      BY <1>1 DEF TypeOK, Enqueue, InQueue
    <2>4. QED
      BY <1>1, <1>2, <2>1, <2>2, <2>3 DEF TypeOK
  <1>4. DeliveryKnows'
    <2> SUFFICES ASSUME NEW v \in Workers, ~At(v, "idle")
                 PROVE  /\ status'[JobOf(v)] # "none"
                        /\ delivery[v].readCt <= msg'[JobOf(v)].readCt
                        /\ At(v, "ack") => status'[JobOf(v)] \in Terminal
                        /\ At(v, "archive")
                             => status'[JobOf(v)] = "dead_letter"
                        /\ At(v, "dead_letter")
                             => delivery[v].readCt >= MaxAttempts
      BY <1>2 DEF DeliveryKnows, At, JobOf
    <2>1. JobOf(v) \in Jobs /\ JobOf(v) # j
      BY <1>1, <1>2, BusyHoldsJob DEF IInv, DeliveryKnows
    <2>2. QED
      BY <2>1, <1>2 DEF IInv, DeliveryKnows
  <1>5. /\ MessageExistsWithRow' /\ LiveJobHasMessage' /\ ExactlyOnce'
        /\ DeadLetterIsLastResort'
    BY <1>2 DEF IInv, MessageExistsWithRow, LiveJobHasMessage, ExactlyOnce,
                DeadLetterIsLastResort, InQueue
  <1>6. RunAgreesWithJob'
    <2> SUFFICES ASSUME NEW k \in Jobs, Kind[k] = "run"
                 PROVE  run'[k] = CASE status'[k] = "none"      -> "none"
                                    [] status'[k] \in Live      -> "queued"
                                    [] status'[k] = "completed" -> "completed"
                                    [] OTHER                    -> "failed"
      BY DEF RunAgreesWithJob
    <2>1. CASE k = j
      BY <2>1, <1>2 DEF Live
    <2>2. CASE k # j
      BY <2>2, <1>2 DEF IInv, RunAgreesWithJob
    <2>3. QED
      BY <2>1, <2>2
  <1>7. QED
    BY <1>3, <1>4, <1>5, <1>6 DEF IInv

(* A message moves within the queue, or out of it once its job has ended   *)
(* (to the archive only when it was dead-lettered), its read count never   *)
(* falls, and slots only finish or start at T1 with the count they read.   *)
LEMMA MessagePreserves ==
  ASSUME IInv, NEW j \in Jobs,
         UNCHANGED JobVars,
         role' \in [Actors -> Roles], faults' \in 0..MaxFaults,
         NEW at \in InQueue \cup {"acked", "archived"},
         NEW n \in 0..ReadCtCap, n >= msg[j].readCt,
         msg' = [msg EXCEPT ![j] = [at |-> at, readCt |-> n]],
         msg[j].at # "none",
         at \notin InQueue => status[j] \in Terminal,
         at = "archived" => status[j] = "dead_letter",
         delivery' \in [Workers -> Delivery],
         \A v \in Workers :
           \/ delivery'[v] = delivery[v]
           \/ delivery'[v] = Idle
           \/ delivery'[v] = [pc |-> "t1", job |-> j, readCt |-> n]
  PROVE  IInv'
  <1>1. TypeOK
    BY DEF IInv
  <1>2. /\ msg'[j].at = at /\ msg'[j].readCt = n
        /\ \A k \in Jobs \ {j} : msg'[k] = msg[k]
        /\ UNCHANGED <<status, attempt, run, results>>
    BY <1>1 DEF TypeOK, JobVars
  <1>3. TypeOK'
    <2>1. msg' \in [Jobs -> [at : {"none", "acked", "archived"} \cup InQueue,
                             readCt : 0..ReadCtCap]]
      BY <1>1 DEF TypeOK
    <2>2. QED
      BY <1>1, <1>2, <2>1 DEF TypeOK
  <1>4. \A k \in Jobs : /\ msg[k].readCt \in Nat /\ msg'[k].readCt \in Nat
                        /\ msg'[k].readCt >= msg[k].readCt
    BY <1>1, <1>2, ConstantsAssumption DEF TypeOK
  <1>5. status[j] # "none"
    BY DEF IInv, MessageExistsWithRow
  <1>6. DeliveryKnows'
    <2> SUFFICES ASSUME NEW v \in Workers, ~At(v, "idle")'
                 PROVE  /\ status[JobOf(v)'] # "none"
                        /\ delivery'[v].readCt <= msg'[JobOf(v)'].readCt
                        /\ At(v, "ack")' => status[JobOf(v)'] \in Terminal
                        /\ At(v, "archive")'
                             => status[JobOf(v)'] = "dead_letter"
                        /\ At(v, "dead_letter")'
                             => delivery'[v].readCt >= MaxAttempts
      BY <1>2 DEF DeliveryKnows
    <2>1. CASE delivery'[v] = delivery[v]
      <3>1. ~At(v, "idle")
        BY <2>1 DEF At
      <3>2. JobOf(v) \in Jobs /\ delivery[v].readCt \in Nat
        BY <1>1, <3>1, BusyHoldsJob
      <3>3. delivery[v].readCt <= msg'[JobOf(v)].readCt
        BY <1>4, <3>1, <3>2 DEF IInv, DeliveryKnows
      <3>4. QED
        BY <2>1, <3>1, <3>3 DEF IInv, DeliveryKnows, At, JobOf
    <2>2. CASE delivery'[v] = Idle
      BY <2>2 DEF At, Idle
    <2>3. CASE delivery'[v] = [pc |-> "t1", job |-> j, readCt |-> n]
      BY <2>3, <1>2, <1>5 DEF At, JobOf
    <2>4. QED
      BY <2>1, <2>2, <2>3
  <1>7. MessageExistsWithRow'
    BY <1>2, <1>5 DEF IInv, MessageExistsWithRow, InQueue
  <1>8. LiveJobHasMessage'
    BY <1>2 DEF IInv, LiveJobHasMessage, Live, Terminal
  <1>9. ExactlyOnce' /\ RunAgreesWithJob'
    BY <1>2 DEF IInv, ExactlyOnce, RunAgreesWithJob
  <1>10. DeadLetterIsLastResort'
    BY <1>1, <1>2, <1>4, ConstantsAssumption
       DEF IInv, DeadLetterIsLastResort, InQueue
  <1>11. QED
    BY <1>3, <1>6, <1>7, <1>8, <1>9, <1>10 DEF IInv

(* The three kinds of message steps, each an instance of the lemma above.  *)
LEMMA LeasePreserves ==
  ASSUME IInv, NEW j \in Jobs, Lease(j), UNCHANGED JobVars,
         role' \in [Actors -> Roles], faults' \in 0..MaxFaults,
         \/ UNCHANGED delivery
         \/ \E w \in Workers :
              delivery' = [delivery EXCEPT
                ![w] = [pc |-> "t1", job |-> j, readCt |-> msg'[j].readCt]]
  PROVE  IInv'
  <1> DEFINE n == IF msg[j].readCt < ReadCtCap THEN msg[j].readCt + 1
                                               ELSE ReadCtCap
  <1>1. TypeOK
    BY DEF IInv
  <1>2. n \in 1..ReadCtCap /\ n \in 0..ReadCtCap /\ n >= msg[j].readCt
    BY <1>1, ConstantsAssumption DEF TypeOK
  <1>3. msg' = [msg EXCEPT ![j] = [at |-> "leased", readCt |-> n]]
    BY DEF Lease
  <1>4. msg[j].at # "none" /\ "leased" \in InQueue
    BY DEF Lease, InQueue
  <1>5. msg'[j].readCt = n
    BY <1>1, <1>3 DEF TypeOK
  <1>6. [pc |-> "t1", job |-> j, readCt |-> n] \in Delivery
    BY <1>2 DEF Delivery, PCs
  <1>7. /\ delivery' \in [Workers -> Delivery]
        /\ \A v \in Workers :
             \/ delivery'[v] = delivery[v]
             \/ delivery'[v] = [pc |-> "t1", job |-> j, readCt |-> n]
    BY <1>1, <1>5, <1>6 DEF TypeOK
  <1> DEFINE at == "leased"
  <1>8. /\ at \in InQueue \cup {"acked", "archived"}
        /\ at \notin InQueue => status[j] \in Terminal
        /\ at = "archived" => status[j] = "dead_letter"
        /\ msg' = [msg EXCEPT ![j] = [at |-> at, readCt |-> n]]
        /\ n \in 0..ReadCtCap /\ n >= msg[j].readCt
        /\ msg[j].at # "none"
    BY <1>2, <1>3, <1>4
  <1>9. \A v \in Workers :
          \/ delivery'[v] = delivery[v]
          \/ delivery'[v] = Idle
          \/ delivery'[v] = [pc |-> "t1", job |-> j, readCt |-> n]
    BY <1>7
  <1> HIDE DEF n, at
  <1>10. QED
    BY <1>7, <1>8, <1>9, MessagePreserves

LEMMA PlacePreserves ==
  ASSUME IInv, NEW j \in Jobs, UNCHANGED JobVars,
         role' \in [Actors -> Roles], faults' \in 0..MaxFaults,
         NEW at \in InQueue \cup {"acked", "archived"},
         msg' = [msg EXCEPT ![j].at = at],
         msg[j].at # "none",
         at \notin InQueue => status[j] \in Terminal,
         at = "archived" => status[j] = "dead_letter",
         \/ UNCHANGED delivery
         \/ \E w \in Workers : Release(w)
  PROVE  IInv'
  <1>1. TypeOK
    BY DEF IInv
  <1>2. /\ msg[j].readCt \in 0..ReadCtCap
        /\ msg[j].readCt >= msg[j].readCt
        /\ msg' = [msg EXCEPT ![j] = [at |-> at, readCt |-> msg[j].readCt]]
    <2>1. msg[j] \in [at : {"none", "acked", "archived"} \cup InQueue,
                      readCt : 0..ReadCtCap]
      BY <1>1 DEF TypeOK
    <2>2. msg' = [msg EXCEPT ![j] = [msg[j] EXCEPT !.at = at]]
      OBVIOUS
    <2>3. [msg[j] EXCEPT !.at = at] = [at |-> at, readCt |-> msg[j].readCt]
      BY <2>1
    <2>4. msg[j].readCt \in 0..ReadCtCap /\ msg[j].readCt >= msg[j].readCt
      BY <2>1, ConstantsAssumption
    <2>5. QED
      BY <2>2, <2>3, <2>4
  <1>3. /\ delivery' \in [Workers -> Delivery]
        /\ \A v \in Workers : delivery'[v] = delivery[v] \/ delivery'[v] = Idle
    BY <1>1, ReleaseFrees DEF TypeOK
  <1>4. QED
    BY <1>2, <1>3, MessagePreserves

-----------------------------------------------------------------------------
LEMMA InitIInv == Init => IInv
  <1> SUFFICES ASSUME Init PROVE IInv
    OBVIOUS
  <1>1. TypeOK
    BY ConstantsAssumption
       DEF Init, TypeOK, Delivery, InQueue, Roles, Live, Terminal
  <1>2. QED
    BY <1>1 DEF Init, IInv, DeliveryKnows, MessageExistsWithRow, At, Idle,
                LiveJobHasMessage, ExactlyOnce, RunAgreesWithJob,
                DeadLetterIsLastResort, Live, InQueue

LEMMA ChargeTyped ==
  ASSUME TypeOK, Charge PROVE faults' \in 0..MaxFaults
  BY ConstantsAssumption DEF TypeOK, Charge

(* AfterTransient moves a busy slot to its dead-letter write or to defer.  *)
LEMMA AfterTransientMoves ==
  ASSUME TypeOK, NEW w \in Workers, ~At(w, "idle"), AfterTransient(w)
  PROVE  \E pc \in {"dead_letter", "defer"} :
           /\ Goto(w, pc)
           /\ pc = "dead_letter" => delivery[w].readCt >= MaxAttempts
  BY DEF AfterTransient

(* The steps that a slot takes without touching jobs or messages.          *)
LEMMA QuietPreserves ==
  ASSUME IInv, NEW w \in Workers,
         \/ T1ActorRefused(w) \/ T1Terminal(w) \/ T1Refused(w)
         \/ ComputeOk(w) \/ ComputeTransient(w) \/ ComputePermanent(w)
         \/ T2ActorRefused(w) \/ T2Refused(w) \/ T2Transient(w)
         \/ T2Permanent(w) \/ WriteRefused(w) \/ WriteActorRefused(w)
         \/ Recheck(w) \/ RecheckFails(w) \/ FailOrphanedNoRow(w)
         \/ Abandon(w)
  PROVE  IInv'
  <1>1. TypeOK
    BY DEF IInv
  <1>2. ~At(w, "idle")
    BY DEF T1ActorRefused, T1Terminal, T1Refused, ComputeOk, ComputeTransient,
           ComputePermanent, T2ActorRefused, T2Refused, T2Transient,
           T2Permanent, WriteRefused, WriteActorRefused, Recheck, RecheckFails,
           FailOrphanedNoRow, Abandon, At
  <1>3. /\ UNCHANGED <<status, attempt, run, results, msg>>
        /\ role' \in [Actors -> Roles] /\ faults' \in 0..MaxFaults
    BY <1>1, ChargeTyped
       DEF T1ActorRefused, T1Terminal, T1Refused, ComputeOk, ComputeTransient,
           ComputePermanent, T2ActorRefused, T2Refused, T2Transient,
           T2Permanent, WriteRefused, WriteActorRefused, Recheck, RecheckFails,
           FailOrphanedNoRow, Abandon, JobVars, TypeOK
  <1>4. CASE ComputeTransient(w) \/ T2Transient(w) \/ RecheckFails(w)
    <2>1. PICK pc \in {"dead_letter", "defer"} :
            /\ Goto(w, pc)
            /\ pc = "dead_letter" => delivery[w].readCt >= MaxAttempts
      BY <1>1, <1>2, <1>4, AfterTransientMoves
         DEF ComputeTransient, T2Transient, RecheckFails
    <2>2. pc \in PCs \ {"idle"} /\ pc # "ack" /\ pc # "archive"
      BY DEF PCs
    <2>3. QED
      BY <1>2, <1>3, <2>1, <2>2, MovePreserves
  <1>5. CASE \/ WriteActorRefused(w) \/ FailOrphanedNoRow(w) \/ Abandon(w)
             \/ Recheck(w) /\ Release(w)
    BY <1>3, <1>5, ReleasePreserves
       DEF WriteActorRefused, FailOrphanedNoRow, Abandon
  <1>6. CASE \/ T1Terminal(w)
             \/ Recheck(w) /\ SeesTerminal(JobOf(w)) /\ Goto(w, "ack")
    <2>1. Goto(w, "ack") /\ status[JobOf(w)] \in Terminal
      BY <1>6 DEF T1Terminal, SeesTerminal
    <2>2. "ack" \in PCs \ {"idle"}
      BY DEF PCs
    <2>3. QED
      BY <1>2, <1>3, <2>1, <2>2, MovePreserves
  <1>7. CASE \/ T1ActorRefused(w) \/ T1Refused(w) \/ ComputeOk(w)
             \/ ComputePermanent(w) \/ T2ActorRefused(w) \/ T2Refused(w)
             \/ T2Permanent(w) \/ WriteRefused(w)
             \/ Recheck(w) /\ Goto(w, "fail")
    <2>1. PICK pc \in {"orphan", "recheck", "t2", "fail", "t2_recheck"} :
            Goto(w, pc)
      BY <1>7 DEF T1ActorRefused, T1Refused, ComputeOk, ComputePermanent,
                  T2ActorRefused, T2Refused, T2Permanent, WriteRefused
    <2>2. /\ pc \in PCs \ {"idle"} /\ pc # "ack" /\ pc # "archive"
          /\ pc # "dead_letter"
      BY DEF PCs
    <2>3. QED
      BY <1>2, <1>3, <2>1, <2>2, MovePreserves
  <1>8. QED
    BY <1>4, <1>5, <1>6, <1>7 DEF Recheck

LEMMA EndStepPreserves ==
  ASSUME IInv, NEW w \in Workers,
         \/ T1Exhausted(w) \/ FailJob(w) \/ DeadLetter(w) \/ FailOrphaned(w)
  PROVE  IInv'
  <1>1. TypeOK /\ ~At(w, "idle")
    BY DEF IInv, T1Exhausted, FailJob, DeadLetter, FailOrphaned, At
  <1>2. CASE T1Exhausted(w) \/ DeadLetter(w)
    <2>1. delivery[w].readCt >= MaxAttempts
      BY <1>1, <1>2, BusyHoldsJob, ConstantsAssumption
         DEF T1Exhausted, DeadLetter, IInv, DeliveryKnows
    <2>2. QED
      BY <1>1, <1>2, <2>1, EndingPreserves
         DEF T1Exhausted, DeadLetter, DeadLetterJob
  <1>3. CASE FailJob(w) \/ FailOrphaned(w)
    <2>1. status[JobOf(w)] \in Live
      BY <1>3 DEF FailJob, FailOrphaned, Live
    <2>2. QED
      BY <1>1, <1>3, <2>1, EndingPreserves DEF FailJob, FailOrphaned
  <1>4. QED
    BY <1>2, <1>3

LEMMA PersistStepPreserves ==
  ASSUME IInv, NEW w \in Workers, T2Ok(w) \/ T2CommitUnknown(w)
  PROVE  IInv'
  <1>1. TypeOK /\ ~At(w, "idle")
    BY DEF IInv, T2Ok, T2CommitUnknown, T2Commit, At
  <1>2. CASE T2Ok(w)
    BY <1>1, <1>2, PersistPreserves DEF T2Ok, TypeOK
  <1>3. CASE T2CommitUnknown(w)
    <2>1. PICK pc \in {"dead_letter", "defer"} :
            /\ Goto(w, pc)
            /\ pc = "dead_letter" => delivery[w].readCt >= MaxAttempts
      BY <1>1, <1>3, AfterTransientMoves DEF T2CommitUnknown
    <2>2. QED
      BY <1>1, <1>3, <2>1, ChargeTyped, PersistPreserves DEF T2CommitUnknown
  <1>4. QED
    BY <1>2, <1>3

(* Ack, archive and defer act on the message only while it is in the queue *)
LEMMA SettlePreserves ==
  ASSUME IInv, NEW w \in Workers, Ack(w) \/ Archive(w) \/ Defer(w)
  PROVE  IInv'
  <1> DEFINE j == JobOf(w)
  <1>1. TypeOK /\ ~At(w, "idle")
    BY DEF IInv, Ack, Archive, Defer, At
  <1>2. j \in Jobs
    BY <1>1, BusyHoldsJob
  <1>3. PICK place \in {"acked", "archived", "leased"} :
          /\ msg' = [msg EXCEPT ![j].at = IF @ \in InQueue THEN place ELSE @]
          /\ place # "leased" => status[j] \in Terminal
          /\ place = "archived" => status[j] = "dead_letter"
    BY <1>1 DEF Ack, Archive, Defer, Remove, IInv, DeliveryKnows, Terminal
  <1>4. /\ Release(w) /\ UNCHANGED JobVars
        /\ role' \in [Actors -> Roles] /\ faults' \in 0..MaxFaults
    BY <1>1 DEF Ack, Archive, Defer, TypeOK
  <1>5. CASE msg[j].at \in InQueue
    <2>1. msg' = [msg EXCEPT ![j].at = place]
      BY <1>3, <1>5
    <2>2. /\ place \in InQueue \cup {"acked", "archived"}
          /\ msg[j].at # "none"
          /\ place \notin InQueue => status[j] \in Terminal
      BY <1>3, <1>5 DEF InQueue
    <2>3. QED
      BY <1>2, <1>3, <1>4, <2>1, <2>2, PlacePreserves
  <1>6. CASE msg[j].at \notin InQueue
    <2>1. msg' = msg
      <3>1. msg \in [Jobs -> [at : {"none", "acked", "archived"} \cup InQueue,
                             readCt : 0..ReadCtCap]]
        BY <1>1 DEF TypeOK
      <3>2. msg' = [msg EXCEPT ![j] = [msg[j] EXCEPT !.at = msg[j].at]]
        BY <1>3, <1>6
      <3>3. [msg[j] EXCEPT !.at = msg[j].at] = msg[j]
        BY <1>2, <3>1
      <3>4. QED
        BY <1>2, <3>1, <3>2, <3>3
    <2>2. QED
      BY <1>4, <2>1, ReleasePreserves DEF JobVars
  <1>7. QED
    BY <1>5, <1>6

LEMMA NextIInv == IInv /\ [Next]_vars => IInv'
  <1> SUFFICES ASSUME IInv, [Next]_vars PROVE IInv'
    OBVIOUS
  <1> TypeOK
    BY DEF IInv
  <1>1. ASSUME NEW j \in Jobs, Enqueue(j) PROVE IInv'
    BY <1>1, EnqueuePreserves
  <1>2. ASSUME NEW j \in Jobs, ClaimLost(j) PROVE IInv'
    <2>1. role' \in [Actors -> Roles] /\ faults' \in 0..MaxFaults
      BY <1>2, ChargeTyped DEF ClaimLost, TypeOK
    <2>2. QED
      BY <1>2, <2>1, LeasePreserves DEF ClaimLost
  <1>3. ASSUME NEW j \in Jobs, LeaseExpires(j) \/ LeaseExpiresEarly(j)
        PROVE  IInv'
    <2>1. /\ role' \in [Actors -> Roles] /\ faults' \in 0..MaxFaults
          /\ UNCHANGED JobVars /\ UNCHANGED delivery
          /\ msg' = [msg EXCEPT ![j].at = "visible"]
          /\ msg[j].at # "none"
      BY <1>3, ChargeTyped DEF LeaseExpires, LeaseExpiresEarly, TypeOK
    <2>2. "visible" \in InQueue \cup {"acked", "archived"} /\ "visible" \in InQueue
      BY DEF InQueue
    <2>3. QED
      BY <2>1, <2>2, PlacePreserves
  <1>4. ASSUME NEW w \in Workers, NEW j \in Jobs, Claim(w, j) PROVE IInv'
    <2>1. role' \in [Actors -> Roles] /\ faults' \in 0..MaxFaults
      BY <1>4 DEF Claim, TypeOK
    <2>2. QED
      BY <1>4, <2>1, LeasePreserves DEF Claim
  <1>5. ASSUME NEW w \in Workers, Proceed(w) \/ Abandon(w) PROVE IInv'
    BY <1>5, QuietPreserves, StartPreserves, EndStepPreserves,
       PersistStepPreserves, SettlePreserves DEF Proceed
  <1>6. ASSUME NEW w \in Workers, T2CommitUnknown(w) PROVE IInv'
    BY <1>6, PersistStepPreserves
  <1>7. ASSUME NEW a \in Actors, NEW r \in Roles, SetRole(a, r) PROVE IInv'
    BY <1>7 DEF SetRole, IInv, TypeOK, DeliveryKnows, MessageExistsWithRow,
                LiveJobHasMessage, ExactlyOnce, RunAgreesWithJob,
                DeadLetterIsLastResort, At, JobOf
  <1>8. CASE UNCHANGED vars
    BY <1>8 DEF vars, IInv, TypeOK, DeliveryKnows, MessageExistsWithRow,
                LiveJobHasMessage, ExactlyOnce, RunAgreesWithJob,
                DeadLetterIsLastResort, At, JobOf
  <1>9. QED
    BY <1>1, <1>2, <1>3, <1>4, <1>5, <1>6, <1>7, <1>8 DEF Next

(* The inductive invariant of the queue holds throughout.                  *)
THEOREM Invariance == Spec => []IInv
  BY InitIInv, NextIInv, PTL DEF Spec

(* Every variable keeps its type. *)
THEOREM TypeCorrect == Spec => []TypeOK
  BY Invariance, PTL DEF IInv

(* No interleaving of deliveries, crashes, demotions and expired leases    *)
(* drops the message of a job that has not ended.                          *)
THEOREM NoLostJob == Spec => []LiveJobHasMessage
  BY Invariance, PTL DEF IInv

(* The effect of a job is committed once if it completes, never otherwise. *)
THEOREM EffectOnce == Spec => []ExactlyOnce
  BY Invariance, PTL DEF IInv

(* The polled report or export row never contradicts its job.              *)
THEOREM RunConsistent == Spec => []RunAgreesWithJob
  BY Invariance, PTL DEF IInv

(* Dead letters have used up their attempts.                               *)
THEOREM DeadLetterHonest == Spec => []DeadLetterIsLastResort
  BY Invariance, PTL DEF IInv

-----------------------------------------------------------------------------
(* How one step can change a row: not at all, or one of the five writes.   *)
RowStep(j) ==
  \/ UNCHANGED <<status[j], attempt[j], run[j], results[j]>>
  \/ status[j] \notin Terminal

LEMMA StepsOnRows ==
  ASSUME TypeOK, [Next]_vars, NEW k \in Jobs
  PROVE  RowStep(k)
  <1> USE DEF RowStep
  <1>2. ASSUME NEW j \in Jobs, Enqueue(j) PROVE RowStep(k)
    BY <1>2 DEF Enqueue, TypeOK, Terminal
  <1>3. ASSUME NEW j \in Jobs,
               \/ ClaimLost(j) \/ LeaseExpires(j) \/ LeaseExpiresEarly(j)
               \/ \E w \in Workers : Claim(w, j)
        PROVE  RowStep(k)
    BY <1>3 DEF ClaimLost, LeaseExpires, LeaseExpiresEarly, Claim, JobVars
  <1>4. ASSUME NEW w \in Workers, T1Start(w) PROVE RowStep(k)
    <2>1. JobOf(w) \in Jobs
      BY <1>4, BusyHoldsJob DEF T1Start, At
    <2>2. QED
      BY <1>4, <2>1 DEF T1Start, StartJob, TypeOK, Live, Terminal
  <1>5. ASSUME NEW w \in Workers, T1Exhausted(w) \/ DeadLetter(w)
        PROVE  RowStep(k)
    <2>1. JobOf(w) \in Jobs
      BY <1>5, BusyHoldsJob DEF T1Exhausted, DeadLetter, At
    <2>2. QED
      BY <1>5, <2>1 DEF T1Exhausted, DeadLetter, DeadLetterJob, ProjectFailure,
                        TypeOK, Live, Terminal
  <1>6. ASSUME NEW w \in Workers, FailJob(w) \/ FailOrphaned(w)
        PROVE  RowStep(k)
    <2>1. JobOf(w) \in Jobs
      BY <1>6, BusyHoldsJob DEF FailJob, FailOrphaned, At
    <2>2. QED
      BY <1>6, <2>1 DEF FailJob, FailOrphaned, ProjectFailure, TypeOK, Live,
                        Terminal
  <1>7. ASSUME NEW w \in Workers, T2Ok(w) \/ T2CommitUnknown(w)
        PROVE  RowStep(k)
    <2>1. JobOf(w) \in Jobs
      BY <1>7, BusyHoldsJob DEF T2Ok, T2CommitUnknown, T2Commit, At
    <2>2. QED
      BY <1>7, <2>1 DEF T2Ok, T2CommitUnknown, T2Commit, Persist, CompleteJob,
                        TypeOK, Terminal
  <1>8. ASSUME NEW w \in Workers,
               \/ Ack(w) \/ Archive(w) \/ Defer(w)
               \/ T1ActorRefused(w) \/ T1Terminal(w) \/ T1Refused(w)
               \/ ComputeOk(w) \/ ComputeTransient(w) \/ ComputePermanent(w)
               \/ T2ActorRefused(w) \/ T2Refused(w) \/ T2Transient(w)
               \/ T2Permanent(w) \/ WriteRefused(w) \/ WriteActorRefused(w)
               \/ Recheck(w) \/ RecheckFails(w) \/ FailOrphanedNoRow(w)
               \/ Abandon(w)
        PROVE  RowStep(k)
    BY <1>8 DEF Ack, Archive, Defer, T1ActorRefused, T1Terminal, T1Refused,
           ComputeOk, ComputeTransient, ComputePermanent, T2ActorRefused,
           T2Refused, T2Transient, T2Permanent, WriteRefused,
           WriteActorRefused, Recheck, RecheckFails, FailOrphanedNoRow,
           Abandon, JobVars
  <1>9. ASSUME NEW a \in Actors, NEW r \in Roles, SetRole(a, r)
        PROVE  RowStep(k)
    BY <1>9 DEF SetRole
  <1>10. CASE UNCHANGED vars
    BY <1>10 DEF vars
  <1>11. QED
    BY <1>2, <1>3, <1>4, <1>5, <1>6, <1>7, <1>8, <1>9, <1>10 DEF Next, Proceed

(* A finished job, its attempt count and its run row never change again.   *)
THEOREM TerminalStays == Spec => TerminalIsFinal
  <1>1. TypeOK /\ [Next]_vars
          => [\A j \in Jobs : status[j] \in Terminal =>
                /\ status'[j] = status[j]
                /\ attempt'[j] = attempt[j]
                /\ run'[j] = run[j]]_vars
    BY StepsOnRows DEF RowStep
  <1>2. QED
    BY <1>1, TypeCorrect, PTL DEF Spec, TerminalIsFinal

-----------------------------------------------------------------------------
(* The abstract state of a job, as the refinement mapping computes it.     *)
OutcomeOf    == [j \in Jobs |-> IF status[j] \in Live THEN "pending"
                                                     ELSE status[j]]
Outstanding  == {j \in Jobs : msg[j].at \in InQueue}

LEMMA ContractStutter ==
  ASSUME UNCHANGED <<status, results>>,
         \A j \in Jobs : msg'[j].at \in InQueue <=> msg[j].at \in InQueue
  PROVE  UNCHANGED Contract!vars
  <1>1. OutcomeOf' = OutcomeOf /\ Outstanding' = Outstanding
    BY DEF OutcomeOf, Outstanding
  <1>2. QED
    BY <1>1 DEF Contract!vars, OutcomeOf, Outstanding

LEMMA ContractGiveUp ==
  ASSUME TypeOK, NEW j \in Jobs, NEW e \in {"failed", "dead_letter"},
         status[j] \in Live, status' = [status EXCEPT ![j] = e],
         UNCHANGED <<results, msg>>
  PROVE  Contract!GiveUp(j)
  <1>1. OutcomeOf' = [OutcomeOf EXCEPT ![j] = e] /\ Outstanding' = Outstanding
    BY DEF OutcomeOf, Outstanding, TypeOK, Live
  <1>2. e \in Contract!Ends \ {"completed"} /\ OutcomeOf[j] = "pending"
    BY DEF Contract!Ends, OutcomeOf
  <1>3. QED
    BY <1>1, <1>2 DEF Contract!GiveUp, OutcomeOf, Outstanding

LEMMA ContractSucceed ==
  ASSUME TypeOK, NEW w \in Workers, T2Commit(w)
  PROVE  \E j \in Jobs : Contract!Succeed(j)
  <1> DEFINE j == JobOf(w)
  <1>1. j \in Jobs
    BY BusyHoldsJob DEF T2Commit, At
  <1>2. OutcomeOf' = [OutcomeOf EXCEPT ![j] = "completed"]
    BY <1>1 DEF T2Commit, CompleteJob, OutcomeOf, TypeOK, Live
  <1>3. Outstanding' = Outstanding /\ results' = [results EXCEPT ![j] = @ + 1]
    BY DEF T2Commit, Persist, Outstanding
  <1>4. OutcomeOf[j] = "pending"
    BY <1>1 DEF T2Commit, CompleteJob, OutcomeOf, Live
  <1>5. QED
    BY <1>1, <1>2, <1>3, <1>4 DEF Contract!Succeed, OutcomeOf, Outstanding

LEMMA ContractAccept ==
  ASSUME TypeOK, NEW j \in Jobs, Enqueue(j)
  PROVE  Contract!Accept(j)
  <1>1. OutcomeOf' = [OutcomeOf EXCEPT ![j] = "pending"]
    BY DEF Enqueue, OutcomeOf, TypeOK, Live
  <1>2. Outstanding' = Outstanding \cup {j} /\ UNCHANGED results
    BY DEF Enqueue, Outstanding, TypeOK, InQueue
  <1>3. OutcomeOf[j] = "none"
    BY DEF Enqueue, OutcomeOf, Live
  <1>4. QED
    BY <1>1, <1>2, <1>3 DEF Contract!Accept, OutcomeOf, Outstanding

LEMMA ContractSettle ==
  ASSUME IInv, NEW w \in Workers, Ack(w) \/ Archive(w)
  PROVE  (\E j \in Jobs : Contract!Settle(j)) \/ UNCHANGED Contract!vars
  <1> DEFINE j == JobOf(w)
  <1>1. TypeOK /\ ~At(w, "idle")
    BY DEF IInv, Ack, Archive, At
  <1>2. j \in Jobs /\ status[j] \in Terminal
    BY <1>1, BusyHoldsJob DEF IInv, DeliveryKnows, Ack, Archive, Terminal
  <1>3. UNCHANGED <<status, results>>
    BY DEF Ack, Archive, JobVars
  <1>4. PICK place \in {"acked", "archived"} :
          msg' = [msg EXCEPT ![j].at = IF @ \in InQueue THEN place ELSE @]
    BY DEF Ack, Archive, Remove
  <1>5. /\ msg'[j].at \notin InQueue
        /\ \A k \in Jobs \ {j} : msg'[k] = msg[k]
    BY <1>1, <1>2, <1>4 DEF TypeOK, InQueue
  <1>6. CASE msg[j].at \in InQueue
    <2>1. j \in Outstanding /\ Outstanding' = Outstanding \ {j}
      BY <1>2, <1>5, <1>6 DEF Outstanding
    <2>2. OutcomeOf[j] \in Contract!Ends /\ OutcomeOf' = OutcomeOf
      BY <1>2, <1>3 DEF OutcomeOf, Contract!Ends, Terminal, Live
    <2>3. QED
      BY <1>2, <1>3, <2>1, <2>2 DEF Contract!Settle, OutcomeOf, Outstanding
  <1>7. CASE msg[j].at \notin InQueue
    BY <1>3, <1>5, <1>7, ContractStutter
  <1>8. QED
    BY <1>6, <1>7

LEMMA ContractStep ==
  ASSUME IInv, [Next]_vars
  PROVE  [Contract!Next]_(Contract!vars)
  <1> TypeOK
    BY DEF IInv
  <1>1. ASSUME NEW j \in Jobs, Enqueue(j) PROVE Contract!Next
    BY <1>1, ContractAccept DEF Contract!Next
  <1>2. ASSUME NEW j \in Jobs,
               \/ ClaimLost(j) \/ LeaseExpires(j) \/ LeaseExpiresEarly(j)
               \/ \E w \in Workers : Claim(w, j)
        PROVE  UNCHANGED Contract!vars
    <2>1. UNCHANGED <<status, results>>
      BY <1>2 DEF ClaimLost, LeaseExpires, LeaseExpiresEarly, Claim, JobVars
    <2>2. PICK r \in [at : InQueue, readCt : Nat] :
            msg[j].at \in InQueue /\ msg' = [msg EXCEPT ![j] = r]
      <3>1. msg[j] \in [at : {"none", "acked", "archived"} \cup InQueue,
                       readCt : 0..ReadCtCap]
        BY DEF TypeOK
      <3>2. CASE LeaseExpires(j) \/ LeaseExpiresEarly(j)
        <4>1. msg' = [msg EXCEPT ![j] = [msg[j] EXCEPT !.at = "visible"]]
          BY <3>2 DEF LeaseExpires, LeaseExpiresEarly
        <4>2. [msg[j] EXCEPT !.at = "visible"] \in [at : InQueue, readCt : Nat]
          BY <3>1, ConstantsAssumption DEF InQueue
        <4>3. msg[j].at \in InQueue
          BY <3>2 DEF LeaseExpires, LeaseExpiresEarly, InQueue
        <4>4. QED
          BY <4>1, <4>2, <4>3
      <3>3. CASE Lease(j)
        <4> DEFINE n == IF msg[j].readCt < ReadCtCap THEN msg[j].readCt + 1
                                                     ELSE ReadCtCap
        <4>1. msg' = [msg EXCEPT ![j] = [at |-> "leased", readCt |-> n]]
          BY <3>3 DEF Lease
        <4>2. [at |-> "leased", readCt |-> n] \in [at : InQueue, readCt : Nat]
          BY <3>1, ConstantsAssumption DEF InQueue
        <4>3. msg[j].at \in InQueue
          BY <3>3 DEF Lease, InQueue
        <4>4. QED
          BY <4>1, <4>2, <4>3
      <3>4. QED
        BY <1>2, <3>2, <3>3 DEF ClaimLost, Claim
    <2>3. \A k \in Jobs : msg'[k].at \in InQueue <=> msg[k].at \in InQueue
      BY <2>2 DEF TypeOK
    <2>4. QED
      BY <2>1, <2>3, ContractStutter
  <1>3. ASSUME NEW w \in Workers, T1Start(w) PROVE UNCHANGED Contract!vars
    <2>1. JobOf(w) \in Jobs
      BY <1>3, BusyHoldsJob DEF T1Start, At
    <2>2. OutcomeOf' = OutcomeOf /\ Outstanding' = Outstanding
      BY <1>3, <2>1 DEF T1Start, StartJob, OutcomeOf, Outstanding, TypeOK, Live
    <2>3. UNCHANGED results
      BY <1>3 DEF T1Start, StartJob
    <2>4. QED
      BY <2>2, <2>3 DEF Contract!vars, OutcomeOf, Outstanding
  <1>4. ASSUME NEW w \in Workers,
               T1Exhausted(w) \/ DeadLetter(w) \/ FailJob(w) \/ FailOrphaned(w)
        PROVE  Contract!Next
    <2>1. JobOf(w) \in Jobs
      BY <1>4, BusyHoldsJob
         DEF T1Exhausted, DeadLetter, FailJob, FailOrphaned, At
    <2>2. PICK j \in Jobs, e \in {"failed", "dead_letter"} :
            /\ status[j] \in Live
            /\ status' = [status EXCEPT ![j] = e]
            /\ UNCHANGED <<results, msg>>
      BY <1>4, <2>1
         DEF T1Exhausted, DeadLetter, DeadLetterJob, FailJob, FailOrphaned, Live
    <2>3. Contract!GiveUp(j)
      BY <2>2, ContractGiveUp
    <2>4. QED
      BY <2>3 DEF Contract!Next, Contract!Finish
  <1>5. ASSUME NEW w \in Workers, T2Ok(w) \/ T2CommitUnknown(w)
        PROVE  Contract!Next
    BY <1>5, ContractSucceed
       DEF T2Ok, T2CommitUnknown, Contract!Next, Contract!Finish
  <1>6. ASSUME NEW w \in Workers, Ack(w) \/ Archive(w)
        PROVE  [Contract!Next]_(Contract!vars)
    BY <1>6, ContractSettle DEF Contract!Next
  <1>7. ASSUME NEW w \in Workers, Defer(w) PROVE UNCHANGED Contract!vars
    <2>1. JobOf(w) \in Jobs
      BY <1>7, BusyHoldsJob DEF Defer, At
    <2>2. \A k \in Jobs : msg'[k].at \in InQueue <=> msg[k].at \in InQueue
      BY <1>7, <2>1 DEF Defer, InQueue, TypeOK
    <2>3. QED
      BY <1>7, <2>2, ContractStutter DEF Defer, JobVars
  <1>8. ASSUME NEW w \in Workers,
               \/ T1ActorRefused(w) \/ T1Terminal(w) \/ T1Refused(w)
               \/ ComputeOk(w) \/ ComputeTransient(w) \/ ComputePermanent(w)
               \/ T2ActorRefused(w) \/ T2Refused(w) \/ T2Transient(w)
               \/ T2Permanent(w) \/ WriteRefused(w) \/ WriteActorRefused(w)
               \/ Recheck(w) \/ RecheckFails(w) \/ FailOrphanedNoRow(w)
               \/ Abandon(w)
        PROVE  UNCHANGED Contract!vars
    <2>1. UNCHANGED <<status, results, msg>>
      BY <1>8 DEF T1ActorRefused, T1Terminal, T1Refused,
           ComputeOk, ComputeTransient, ComputePermanent, T2ActorRefused,
           T2Refused, T2Transient, T2Permanent, WriteRefused,
           WriteActorRefused, Recheck, RecheckFails, FailOrphanedNoRow,
           Abandon, JobVars
    <2>2. QED
      BY <2>1, ContractStutter
  <1>9. ASSUME NEW a \in Actors, NEW r \in Roles, SetRole(a, r)
        PROVE  UNCHANGED Contract!vars
    BY <1>9, ContractStutter DEF SetRole
  <1>10. CASE UNCHANGED vars
    BY <1>10, ContractStutter DEF vars
  <1>11. QED
    BY <1>1, <1>2, <1>3, <1>4, <1>5, <1>6, <1>7, <1>8, <1>9, <1>10
       DEF Next, Proceed

(* The queue, the workers and the SQL wrappers together keep the promise   *)
(* of JobLifecycle: one outcome, one effect, no message dropped early.     *)
THEOREM ContractKept == Spec => Contract!Safety
  <1>1. Init => Contract!Init
    BY DEF Init, Contract!Init, InQueue, Live
  <1>2. IInv /\ [Next]_vars => [Contract!Next]_(Contract!vars)
    BY ContractStep
  <1>3. QED
    BY <1>1, <1>2, Invariance, PTL DEF Spec, Contract!Safety
=============================================================================
