---------------------------- MODULE RuntimeProofs ----------------------------
(***************************************************************************)
(* What the worker, the database layer and the renderer rest on, for all   *)
(* constants: that a delivery fits in its lease and its operations in the  *)
(* delivery, that a client of the pool belongs to one call at a time,      *)
(* which is told what has become of its transaction, that no browser is    *)
(* left running, and that the permits of the stages are conserved.         *)
(***************************************************************************)
EXTENDS BoundedStages, DeliveryLease, PgTransaction, PdfRenderer, FiniteSetTheorems,
        TLAPS

-----------------------------------------------------------------------------
(* The lease of a delivery *)

\* The caps of the operations before an operation.
SpentBefore(l) ==
  LET compute  == TransitionTimeout
      download == compute + OcrComputeTimeout
      ocr      == download + StorageDownloadTimeout
      persist  == ocr + OcrTimeout
      ack      == persist + PersistTimeout
  IN CASE l = "transition" -> 0
       [] l = "compute"    -> compute
       [] l = "download"   -> download
       [] l = "ocr"        -> ocr
       [] l = "persist"    -> persist
       [] l = "ack"        -> ack

\* An unanswered claim is not older than the latency of a claim.
ClaimIsFresh ==
  leg = "claiming" => moment + Visibility <= visibleAt + ClaimLatency

\* The delivery believes in less than the lease it has.
BelievesLess ==
  leg \in Legs \cup Endings => expiresAt + LeaseSafety <= visibleAt + ClaimLatency

\* An operation under way ends before the delivery does, but for what outlasts it.
OperationEnds ==
  op # Quiet =>
    leg \in Legs \cup Endings /\ op <= expiresAt /\ moment <= op + Outlasts(leg)

\* The time of a delivery has gone to its operations, or between them.
TimeIsAccounted ==
  leg \in Legs =>
    IF op = Quiet
      THEN moment + Visibility <= expiresAt + LeaseSafety + SpentBefore(leg) + idled
      ELSE op + Visibility <= expiresAt + LeaseSafety + SpentBefore(leg) + Caps[leg] + idled

LeaseInv ==
  /\ LeaseTypeOK
  /\ ClaimIsFresh
  /\ BelievesLess
  /\ OperationEnds
  /\ TimeIsAccounted
  /\ EveryOperationFits

-----------------------------------------------------------------------------
(* The budgets are positive, and so is every cap. *)
LEMMA Budgets ==
  /\ Visibility \in Nat /\ LeaseSafety \in Nat /\ TerminalReserve \in Nat
  /\ MinOperation \in Nat \ {0} /\ TransitionTimeout \in Nat
  /\ OcrComputeTimeout \in Nat /\ StorageDownloadTimeout \in Nat /\ OcrTimeout \in Nat
  /\ StageCleanupTimeout \in Nat /\ PersistTimeout \in Nat /\ QueueTimeout \in Nat
  /\ ClaimLatency \in Nat /\ ServerLag \in Nat /\ LastMoment \in Nat
  /\ LeaseSafety < Visibility
  BY DeliveryLeaseAssumption DEF DeliveryLeaseAssumption, WorkerConfig

(* A cap is a number, and so is what was spent before an operation. *)
LEMMA CapsAreNumbers ==
  ASSUME NEW l \in Legs \cup Endings
  PROVE  /\ Caps[l] \in Nat /\ Outlasts(l) \in Nat
         /\ l \in Legs => SpentBefore(l) \in Nat
  BY Budgets DEF Caps, Legs, Endings, SpentBefore, Outlasts

(* What comes after a failed operation is no operation of the work. *)
LEMMA AfterwardsEnds ==
  ASSUME NEW l \in Legs \cup Endings
  PROVE  Afterwards(l) \subseteq Endings \cup {"failed"}
  BY DEF Afterwards, Endings, Legs

(* An operation has spent its cap when the next one is due. *)
LEMMA NextOperation ==
  ASSUME NEW l \in Legs
  PROVE  /\ Following[l] \in Legs \cup {"settled"}
         /\ Following[l] \in Legs => SpentBefore(Following[l]) = SpentBefore(l) + Caps[l]
  BY Budgets DEF Caps, Legs, SpentBefore, Following

(* An operation that begins is given a part of what is left. *)
LEMMA GivenIsLeft ==
  ASSUME LeaseTypeOK, NEW l \in Legs \cup Endings, ~Exhausted(l)
  PROVE  /\ Given(l) \in Nat
         /\ moment + Given(l) <= expiresAt
         /\ Given(l) <= Caps[l]
  BY Budgets, CapsAreNumbers
     DEF LeaseTypeOK, Exhausted, Given, Least, Available, Left

(* A delivery that is out of time has let more pass between operations than *)
(* the configuration allows for.                                            *)
LEMMA ExhaustedHasIdled ==
  ASSUME LeaseTypeOK, TimeIsAccounted, NEW l \in Legs, Operating(l), Exhausted(l)
  PROVE  idled > 4 * MinOperation
<1>1. Available(l) < MinOperation
  BY Budgets, DeliveryLeaseAssumption, CapsAreNumbers
     DEF Exhausted, Given, Least, BoundedStageLegs, Caps, DeliveryLeaseAssumption,
         Available, Left, LeaseTypeOK
<1>2. moment + Visibility <= expiresAt + LeaseSafety + SpentBefore(l) + idled
  BY DEF TimeIsAccounted, Operating
<1>3. IF l = "ack" THEN expiresAt - moment < MinOperation
                   ELSE expiresAt - moment < TerminalReserve + MinOperation
  BY <1>1, Budgets DEF Available, Left, LeaseTypeOK
<1>4. SpentBefore(l) + LeaseSafety + TerminalReserve + 5 * MinOperation < Visibility
  BY Budgets, DeliveryLeaseAssumption
     DEF SpentBefore, DeliveryLeaseAssumption, WorkerConfig, Legs
<1>. QED
  BY <1>2, <1>3, <1>4, Budgets, CapsAreNumbers DEF LeaseTypeOK

-----------------------------------------------------------------------------
(* The invariant holds of a delivery that is about to be claimed. *)
LEMMA LeaseInitInv == LeaseInit => LeaseInv
  BY Budgets
     DEF LeaseInit, LeaseInv, LeaseTypeOK, ClaimIsFresh, BelievesLess, OperationEnds,
         TimeIsAccounted, EveryOperationFits, Legs, Endings, Quiet

(* Every step of a delivery, and of the clock, keeps the invariant. *)
LEMMA LeaseStepInv == LeaseInv /\ [LeaseNext]_leaseVars => LeaseInv'
<1>. SUFFICES ASSUME LeaseInv, [LeaseNext]_leaseVars PROVE LeaseInv'
  OBVIOUS
<1>. USE DEF Quiet
<1>1. CASE ClaimMessage
  BY <1>1, Budgets
     DEF ClaimMessage, LeaseInv, LeaseTypeOK, ClaimIsFresh, BelievesLess,
         OperationEnds, TimeIsAccounted, EveryOperationFits, Legs, Endings
<1>2. CASE ClaimAnswered
  <2>1. leg' = "transition" /\ op = Quiet /\ op' = Quiet
        /\ UNCHANGED <<moment, visibleAt, idled>>
    BY <1>2 DEF ClaimAnswered, LeaseInv, OperationEnds, Legs, Endings
  <2>2. expiresAt' = moment + Visibility - LeaseSafety /\ leg = "claiming"
    BY <1>2 DEF ClaimAnswered
  <2>3. LeaseTypeOK'
    BY <2>1, <2>2, Budgets DEF LeaseInv, LeaseTypeOK, Legs
  <2>4. BelievesLess'
    BY <2>1, <2>2, Budgets DEF LeaseInv, ClaimIsFresh, BelievesLess, LeaseTypeOK
  <2>5. TimeIsAccounted'
    BY <2>1, <2>2, Budgets DEF TimeIsAccounted, SpentBefore, LeaseInv, LeaseTypeOK
  <2>. QED
    BY <2>1, <2>3, <2>4, <2>5
       DEF LeaseInv, ClaimIsFresh, OperationEnds, EveryOperationFits
<1>3. CASE Elapse
  <2>. USE <1>3 DEF Elapse
  <2>1. LeaseTypeOK'
    BY Budgets DEF LeaseInv, LeaseTypeOK
  <2>2. ClaimIsFresh'
    BY Budgets DEF LeaseInv, LeaseTypeOK, ClaimIsFresh
  <2>3. BelievesLess'
    BY DEF LeaseInv, BelievesLess
  <2>4. OperationEnds'
    <3>1. CASE op = Quiet
      BY <3>1 DEF OperationEnds
    <3>2. CASE op # Quiet
      <4>1. leg \in Legs \cup Endings /\ Outlasts(leg) \in Nat
        BY <3>2, CapsAreNumbers DEF LeaseInv, OperationEnds
      <4>2. Outlasts(leg)' = Outlasts(leg)
        BY DEF Outlasts
      <4>. QED
        BY <3>2, <4>1, <4>2 DEF LeaseInv, OperationEnds, LeaseTypeOK
    <3>. QED
      BY <3>1, <3>2
  <2>5. TimeIsAccounted'
    <3>. SUFFICES ASSUME leg \in Legs
                  PROVE  TimeIsAccounted'
      BY DEF TimeIsAccounted
    <3>1. SpentBefore(leg) \in Nat /\ Caps[leg] \in Nat
      BY CapsAreNumbers
    <3>. DEFINE before == SpentBefore(leg)
                cap    == Caps[leg]
    <3>2. SpentBefore(leg') = before /\ Caps[leg'] = cap
      OBVIOUS
    <3>3. IF op = Quiet
            THEN moment + Visibility <= expiresAt + LeaseSafety + before + idled
            ELSE op + Visibility <= expiresAt + LeaseSafety + before + cap + idled
      BY DEF LeaseInv, TimeIsAccounted
    <3>. HIDE DEF before, cap
    <3>4. IF op' = Quiet
            THEN moment' + Visibility <= expiresAt' + LeaseSafety + before + idled'
            ELSE op' + Visibility <= expiresAt' + LeaseSafety + before + cap + idled'
      BY <3>1, <3>3, Budgets DEF LeaseInv, LeaseTypeOK, before, cap
    <3>. QED
      BY <3>2, <3>4 DEF TimeIsAccounted
  <2>6. EveryOperationFits'
    BY DEF LeaseInv, EveryOperationFits, Legs, Endings
  <2>. QED
    BY <2>1, <2>2, <2>3, <2>4, <2>5, <2>6 DEF LeaseInv
<1>4. ASSUME NEW l \in Legs, BeginOperation(l) PROVE LeaseInv'
  <2>1. leg = l /\ op = Quiet /\ UNCHANGED <<moment, visibleAt, expiresAt, idled>>
    BY <1>4 DEF BeginOperation, Operating
  <2>2. CASE Exhausted(l)
    <3>1. leg' = "exhausted" /\ op' = op
      BY <1>4, <2>2 DEF BeginOperation, Legs, Endings
    <3>2. idled > 4 * MinOperation
      BY <1>4, <2>2, ExhaustedHasIdled DEF BeginOperation, LeaseInv
    <3>. QED
      BY <2>1, <3>1, <3>2
         DEF LeaseInv, LeaseTypeOK, ClaimIsFresh, BelievesLess, OperationEnds,
             TimeIsAccounted, EveryOperationFits, Legs, Endings
  <2>3. CASE ~Exhausted(l)
    <3>1. leg' = leg /\ op' = moment + Given(l)
      BY <1>4, <2>3 DEF BeginOperation
    <3>2. /\ Given(l) \in Nat
          /\ moment + Given(l) <= expiresAt
          /\ Given(l) <= Caps[l]
      BY <2>3, GivenIsLeft DEF LeaseInv
    <3>3. Caps[l] \in Nat /\ SpentBefore(l) \in Nat /\ Outlasts(l) \in Nat
      BY CapsAreNumbers
    <3>4. LeaseTypeOK'
      BY <2>1, <3>1, <3>2 DEF LeaseInv, LeaseTypeOK
    <3>5. OperationEnds'
      BY <2>1, <3>1, <3>2, <3>3 DEF LeaseInv, LeaseTypeOK, OperationEnds, Outlasts
    <3>6. TimeIsAccounted'
      <4>1. moment + Visibility <= expiresAt + LeaseSafety + SpentBefore(l) + idled
        BY <2>1 DEF LeaseInv, TimeIsAccounted
      <4>. DEFINE before == SpentBefore(l)
      <4>2. op' + Visibility <= expiresAt + LeaseSafety + before + Caps[l] + idled
        <5>. HIDE DEF before
        <5>. QED BY <3>1, <3>2, <3>3, <4>1, Budgets DEF LeaseInv, LeaseTypeOK, before
      <4>. QED
        BY <2>1, <3>1, <3>2, <3>3, <4>1, <4>2, Budgets DEF TimeIsAccounted, LeaseInv, LeaseTypeOK
    <3>. QED
      BY <2>1, <3>1, <3>4, <3>5, <3>6
         DEF LeaseInv, ClaimIsFresh, BelievesLess, EveryOperationFits
  <2>. QED
    BY <2>2, <2>3
<1>5. ASSUME NEW l \in Endings, BeginOperation(l) PROVE LeaseInv'
  <2>1. leg = l /\ op = Quiet /\ UNCHANGED <<moment, visibleAt, expiresAt, idled>>
        /\ l \notin Legs
    BY <1>5 DEF BeginOperation, Operating, Legs, Endings
  <2>2. CASE Exhausted(l)
    <3>1. leg' = "failed" /\ op' = op
      BY <1>5, <2>2 DEF BeginOperation
    <3>. QED
      BY <2>1, <3>1
         DEF LeaseInv, LeaseTypeOK, ClaimIsFresh, BelievesLess, OperationEnds,
             TimeIsAccounted, EveryOperationFits, Legs, Endings
  <2>3. CASE ~Exhausted(l)
    <3>1. leg' = leg /\ op' = moment + Given(l)
      BY <1>5, <2>3 DEF BeginOperation
    <3>2. Given(l) \in Nat /\ moment + Given(l) <= expiresAt
      BY <2>3, GivenIsLeft DEF LeaseInv
    <3>3. Outlasts(l) \in Nat
      BY CapsAreNumbers
    <3>4. LeaseTypeOK'
      BY <2>1, <3>1, <3>2 DEF LeaseInv, LeaseTypeOK
    <3>5. OperationEnds'
      BY <2>1, <3>1, <3>2, <3>3 DEF LeaseInv, LeaseTypeOK, OperationEnds, Outlasts
    <3>. QED
      BY <2>1, <3>1, <3>4, <3>5
         DEF LeaseInv, ClaimIsFresh, BelievesLess, TimeIsAccounted, EveryOperationFits
  <2>. QED
    BY <2>2, <2>3
<1>6. ASSUME NEW l \in Legs \cup Endings, op' = Quiet, leg' \in Endings \cup {"failed", "settled"},
             leg = l, op # Quiet, UNCHANGED <<moment, visibleAt, expiresAt, idled>>
      PROVE  LeaseInv'
  BY <1>6
     DEF LeaseInv, LeaseTypeOK, ClaimIsFresh, BelievesLess, OperationEnds,
         TimeIsAccounted, EveryOperationFits, Legs, Endings
<1>7. ASSUME NEW l \in Endings, EndOperation(l) PROVE LeaseInv'
  <2>1. leg = l /\ op # Quiet /\ op' = Quiet
        /\ UNCHANGED <<moment, visibleAt, expiresAt, idled>>
    BY <1>7 DEF EndOperation
  <2>2. leg' \in Endings \cup {"failed", "settled"}
    BY <1>7, AfterwardsEnds DEF EndOperation, Following, Endings
  <2>. QED
    BY <1>6, <2>1, <2>2
<1>8. ASSUME NEW l \in Legs, EndOperation(l) PROVE LeaseInv'
  <2>1. leg = l /\ op # Quiet /\ op' = Quiet
        /\ UNCHANGED <<moment, visibleAt, expiresAt, idled>>
    BY <1>8 DEF EndOperation
  <2>2. CASE leg' \in Afterwards(l)
    BY <1>6, <2>1, <2>2, AfterwardsEnds
  <2>3. CASE leg' = Following[l] /\ moment <= op
    <3>1. Following[l] \in Legs \cup {"settled"}
      BY NextOperation
    <3>2. LeaseTypeOK'
      BY <2>1, <2>3, <3>1 DEF LeaseInv, LeaseTypeOK
    <3>3. TimeIsAccounted'
      <4>. SUFFICES ASSUME Following[l] \in Legs
                    PROVE  TimeIsAccounted'
        BY <2>3 DEF TimeIsAccounted
      <4>1. SpentBefore(Following[l]) = SpentBefore(l) + Caps[l]
        BY NextOperation
      <4>2. op + Visibility <= expiresAt + LeaseSafety + SpentBefore(l) + Caps[l] + idled
        BY <2>1 DEF LeaseInv, TimeIsAccounted
      <4>3. Caps[l] \in Nat /\ SpentBefore(l) \in Nat
        BY CapsAreNumbers
      <4>. DEFINE before == SpentBefore(l)
      <4>4. moment + Visibility <= expiresAt + LeaseSafety + (before + Caps[l]) + idled
        <5>. HIDE DEF before
        <5>. QED BY <2>3, <4>2, <4>3, Budgets DEF LeaseInv, LeaseTypeOK, before
      <4>5. moment' + Visibility <= expiresAt' + LeaseSafety + SpentBefore(leg') + idled'
        BY <2>1, <2>3, <4>1, <4>4
      <4>. QED
        BY <2>1, <4>5 DEF TimeIsAccounted
    <3>. QED
      BY <2>1, <2>3, <3>1, <3>2, <3>3
         DEF LeaseInv, ClaimIsFresh, BelievesLess, OperationEnds, EveryOperationFits,
             Legs, Endings
  <2>. QED
    BY <1>8, <2>2, <2>3 DEF EndOperation
<1>9. CASE UNCHANGED leaseVars
  BY <1>9
     DEF leaseVars, LeaseInv, LeaseTypeOK, ClaimIsFresh, BelievesLess, OperationEnds,
         TimeIsAccounted, EveryOperationFits, Outlasts
<1>. QED
  BY <1>1, <1>2, <1>3, <1>4, <1>5, <1>7, <1>8, <1>9 DEF LeaseNext

-----------------------------------------------------------------------------
(* The inductive invariant of a delivery: what it believes of its lease,   *)
(* when its operation ends, and where its time has gone.                   *)
THEOREM LeaseInvariance == LeaseSpec => []LeaseInv
<1>. QED
  BY LeaseInitInv, LeaseStepInv, PTL DEF LeaseSpec

(* Every variable keeps its type. *)
THEOREM LeaseTypeCorrect == LeaseSpec => []LeaseTypeOK
<1>1. LeaseInv => LeaseTypeOK
  BY DEF LeaseInv
<1>. QED
  BY LeaseInvariance, <1>1, PTL

(* A write of a delivery has ended when its message can be claimed again,  *)
(* if the claim's latency and the server's lag fit in the safety margin:   *)
(* forWork and forTerminal of the delivery's deadline.                     *)
THEOREM DeliveriesDoNotOverlap == LeaseSpec => []NoWriteOutlastsTheLease
<1>1. LeaseInv => NoWriteOutlastsTheLease
  <2>. SUFFICES ASSUME LeaseInv, op # Quiet, leg \notin BoundedStageLegs
                PROVE  moment <= visibleAt
    BY DEF NoWriteOutlastsTheLease
  <2>1. leg \in Legs \cup Endings /\ op <= expiresAt /\ moment <= op + ServerLag
    BY DEF LeaseInv, OperationEnds, Outlasts
  <2>2. expiresAt + LeaseSafety <= visibleAt + ClaimLatency
    BY <2>1 DEF LeaseInv, BelievesLess
  <2>. QED
    BY <2>1, <2>2, Budgets, DeliveryLeaseAssumption
       DEF LeaseInv, LeaseTypeOK, DeliveryLeaseAssumption
<1>. QED
  BY LeaseInvariance, <1>1, PTL

(* A delivery runs out of time only if more than four least operations     *)
(* have passed between its operations: what the constructor of             *)
(* WorkerConfig requires is enough for each of them.                       *)
THEOREM BudgetsSuffice == LeaseSpec => []EveryOperationFits
<1>1. LeaseInv => EveryOperationFits
  BY DEF LeaseInv
<1>. QED
  BY LeaseInvariance, <1>1, PTL

-----------------------------------------------------------------------------
(* Clients of the database *)

\* A call that holds a client has it checked out, alone, and is under way.
HolderIsUnderWay ==
  \A c \in Calls : live[c] =>
    /\ client[c] \in Clients /\ pool[client[c]] = "out"
    /\ pgpc[c] \in {"begin", "callback", "end", "undo", "rollback"} /\ ~expired[c]

HolderIsAlone ==
  \A c, d \in Calls : live[c] /\ live[d] /\ client[c] = client[d] => c = d

\* A client that is checked out is held.
OutIsHeld ==
  \A k \in Clients : pool[k] = "out" => \E c \in Calls : live[c] /\ client[c] = k

\* A session is that of the call that holds its client, or held it at last.
SessionsFollow ==
  \A k \in Clients :
    /\ pool[k] \in {"absent", "idle"} => session[k] = Vacant
    /\ session[k] # Vacant => /\ client[session[k]] = k
                              /\ pool[k] = "out" => live[session[k]]

\* How far a call is tells what it holds, and what is open on it.
CallsGoOn ==
  \A c \in Calls :
    /\ pgpc[c] \in {"new", "connecting"} => client[c] = Vacant
    /\ pgpc[c] \in {"new", "connecting", "begin"} => sending[c] = "nothing"
    /\ pgpc[c] \in {"begin", "callback", "end", "undo", "rollback"} =>
         client[c] \in Clients /\ (live[c] \/ expired[c])
    /\ live[c] /\ (pgpc[c] \in {"callback", "end"} \/ sending[c] = "query") => Open(c)
    /\ active[c] => pgpc[c] = "callback"

\* A call releases a client once, or a second time when the timer has destroyed
\* it: a client that was destroyed stays so.
ReleasesOf(c) ==
  /\ live[c] => releases[c] = 0
  /\ releases[c] > 0 => client[c] \in Clients
  /\ pgpc[c] # "over" => releases[c] <= 1
  /\ pgpc[c] \in {"begin", "callback", "end", "undo", "rollback"} /\ ~live[c] =>
       pool[client[c]] = "gone"
  /\ releases[c] > 1 => expired[c] /\ pool[client[c]] = "gone"

ReleasesFollow == \A c \in Calls : ReleasesOf(c)

\* A query is sent on the session of its call, or fails.
QueriesStay ==
  \A c \in Calls : sending[c] = "query" =>
    client[c] \in Clients /\ (live[c] \/ pool[client[c]] = "gone")

\* When a call can have committed, and when it is told that it has failed.
OutcomesFollow ==
  \A c \in Calls :
    /\ c \in committed =>
         /\ sort[c].kind # "read"
         /\ \/ pgpc[c] \in {"end", "late", "over"}
            \/ pgpc[c] \in {"undo", "rollback"} /\ sort[c].kind = "anonymous"
    /\ answer[c] \in {"result", "error"} => pgpc[c] = "over"

ClientInv ==
  /\ PgTypeOK
  /\ HolderIsUnderWay /\ HolderIsAlone /\ OutIsHeld /\ SessionsFollow
  /\ CallsGoOn /\ ReleasesFollow /\ QueriesStay /\ OutcomesFollow
  /\ ~stray /\ AnswersTellTheOutcome

(* What the provers need of the constants. *)
LEMMA VacantIsNobody == Vacant \notin Calls /\ Vacant \notin Clients
  BY PgTransactionAssumption

(* The invariant holds before the first call. *)
LEMMA ClientInitInv == PgInit => ClientInv
<1>. SUFFICES ASSUME PgInit PROVE ClientInv
  OBVIOUS
<1>0. releases \in [Calls -> 0..2]
  BY DEF PgInit
<1>1. PgTypeOK
  BY <1>0 DEF PgInit, PgTypeOK, PgPCs, PgAnswers
<1>2. HolderIsUnderWay /\ HolderIsAlone /\ OutIsHeld /\ SessionsFollow
  BY DEF PgInit, HolderIsUnderWay, HolderIsAlone, OutIsHeld, SessionsFollow
<1>3. CallsGoOn /\ ReleasesFollow /\ QueriesStay /\ OutcomesFollow
  BY DEF PgInit, CallsGoOn, ReleasesFollow, ReleasesOf, QueriesStay, OutcomesFollow
<1>4. ~stray /\ AnswersTellTheOutcome
  BY DEF PgInit, AnswersTellTheOutcome
<1>. QED
  BY <1>1, <1>2, <1>3, <1>4 DEF ClientInv

(* A client is handed over, or none is. *)
LEMMA AcquireKeeps ==
  ASSUME ClientInv, NEW c \in Calls, Connect(c) \/ Acquire(c) \/ AcquireFails(c)
  PROVE  ClientInv'
<1>. USE VacantIsNobody DEF ClientInv
<1>1. CASE Connect(c)
  <2>1. PgTypeOK'
    BY <1>1 DEF Connect, PgGoto, PgTypeOK, PgPCs
  <2>2. (HolderIsUnderWay /\ HolderIsAlone /\ OutIsHeld /\ SessionsFollow)'
    BY <1>1 DEF Connect, PgAt, PgGoto, PgTypeOK, HolderIsUnderWay, HolderIsAlone, OutIsHeld,
                SessionsFollow
  <2>3. (CallsGoOn /\ ReleasesFollow /\ QueriesStay /\ OutcomesFollow)'
    BY <1>1 DEF Connect, PgAt, PgGoto, PgTypeOK, CallsGoOn, ReleasesFollow, ReleasesOf,
                Open, QueriesStay, OutcomesFollow
  <2>4. (~stray /\ AnswersTellTheOutcome)'
    BY <1>1 DEF Connect, AnswersTellTheOutcome
  <2>. QED
    BY <2>1, <2>2, <2>3, <2>4
<1>2. CASE Acquire(c)
  <2>. PICK k \in Clients :
         /\ pool[k] \in {"absent", "idle"}
         /\ client' = [client EXCEPT ![c] = k]
         /\ pool' = [pool EXCEPT ![k] = IF expired[c] THEN "gone" ELSE "out"]
    BY <1>2 DEF Acquire, Spare
  <2>a. /\ PgAt(c, "connecting")
        /\ live' = [live EXCEPT ![c] = ~expired[c]]
        /\ releases' = [releases EXCEPT ![c] = IF expired[c] THEN 1 ELSE 0]
        /\ PgGoto(c, IF expired[c] THEN "over" ELSE "begin")
        /\ UNCHANGED <<sort, active, sending, expired, answer, session, committed, stray>>
    BY <1>2 DEF Acquire
  <2>b. session[k] = Vacant
    BY DEF SessionsFollow
  <2>c. ~live[c] /\ \A d \in Calls : live[d] => client[d] # k
    BY <2>a DEF PgAt, HolderIsUnderWay
  <2>d. \A d \in Calls : sending[d] = "query" => client[d] # k
    BY <2>c DEF QueriesStay
  <2>e. \A q \in Clients : session[q] # c
    BY <2>a DEF PgAt, SessionsFollow, CallsGoOn
  <2>0. /\ PgAt(c, "connecting") /\ session[k] = Vacant /\ ~live[c]
        /\ \A d \in Calls : live[d] => client[d] # k
        /\ \A d \in Calls : sending[d] = "query" => client[d] # k
        /\ \A q \in Clients : session[q] # c
        /\ live' = [live EXCEPT ![c] = ~expired[c]]
        /\ releases' = [releases EXCEPT ![c] = IF expired[c] THEN 1 ELSE 0]
        /\ PgGoto(c, IF expired[c] THEN "over" ELSE "begin")
        /\ UNCHANGED <<sort, active, sending, expired, answer, session, committed, stray>>
    BY <2>a, <2>b, <2>c, <2>d, <2>e
  <2>1. PgTypeOK'
    BY <2>0 DEF PgGoto, PgTypeOK, PgPCs
  <2>2. (HolderIsUnderWay /\ HolderIsAlone)'
    BY <2>0 DEF PgGoto, PgTypeOK, HolderIsUnderWay, HolderIsAlone
  <2>3a. ASSUME expired[c] PROVE (OutIsHeld /\ SessionsFollow)'
    <3>1. OutIsHeld'
      BY <2>0, <2>3a DEF PgTypeOK, OutIsHeld
    <3>2. SessionsFollow'
      BY <2>0, <2>3a DEF PgTypeOK, SessionsFollow
    <3>. QED
      BY <3>1, <3>2
  <2>3b. ASSUME ~expired[c] PROVE (OutIsHeld /\ SessionsFollow)'
    <3>1. live'[c] /\ client'[c] = k /\ \A d \in Calls : live[d] => live'[d] /\ client'[d] = client[d]
      BY <2>0, <2>3b DEF PgTypeOK
    <3>2. \A q \in Clients : pool'[q] = "out" => q = k \/ pool[q] = "out"
      BY <2>0, <2>3b DEF PgTypeOK
    <3>3. OutIsHeld'
      BY <3>1, <3>2 DEF OutIsHeld
    <3>4. SessionsFollow'
      BY <2>0, <2>3b DEF PgTypeOK, SessionsFollow
    <3>. QED
      BY <3>3, <3>4
  <2>3. (OutIsHeld /\ SessionsFollow)'
    BY <2>3a, <2>3b
  <2>4. (CallsGoOn /\ ReleasesFollow /\ QueriesStay /\ OutcomesFollow)'
    <3>0. /\ client'[c] = k /\ sending[c] = "nothing" /\ ~active[c]
          /\ expired[c] => pgpc'[c] = "over" /\ ~live'[c] /\ releases'[c] = 1
          /\ ~expired[c] => pgpc'[c] = "begin" /\ live'[c] /\ releases'[c] = 0
      BY <2>0 DEF PgAt, PgGoto, PgTypeOK, CallsGoOn
    <3>a. \A d \in Calls : d # c =>
            /\ pgpc'[d] = pgpc[d] /\ client'[d] = client[d] /\ live'[d] = live[d]
            /\ releases'[d] = releases[d]
      BY <2>0 DEF PgGoto, PgTypeOK
    <3>b. \A q \in Clients : pool[q] = "gone" => pool'[q] = "gone"
      BY DEF PgTypeOK
    <3>1. CallsGoOn'
      BY <2>0, <3>0, <3>a DEF CallsGoOn, Open
    <3>2. ReleasesFollow'
      <4>. SUFFICES ASSUME NEW d \in Calls PROVE ReleasesOf(d)'
        BY DEF ReleasesFollow
      <4>1. CASE d = c
        BY <2>0, <3>0, <4>1 DEF ReleasesOf
      <4>2. CASE d # c
        <5>1. ReleasesOf(d)
          BY DEF ReleasesFollow
        <5>2. pgpc[d] \in {"begin", "callback", "end", "undo", "rollback"} => client[d] \in Clients
          BY DEF CallsGoOn
        <5>. QED
          BY <2>0, <3>a, <3>b, <4>2, <5>1, <5>2 DEF ReleasesOf
      <4>. QED
        BY <4>1, <4>2
    <3>3. (QueriesStay /\ OutcomesFollow)'
      BY <2>0 DEF PgAt, PgGoto, PgTypeOK, CallsGoOn, QueriesStay, OutcomesFollow
    <3>. QED
      BY <3>1, <3>2, <3>3
  <2>5. (~stray /\ AnswersTellTheOutcome)'
    BY <2>0 DEF AnswersTellTheOutcome
  <2>. QED
    BY <2>1, <2>2, <2>3, <2>4, <2>5
<1>3. CASE AcquireFails(c)
  <2>0. ~live[c] /\ c \notin committed
    BY <1>3 DEF AcquireFails, PgAt, HolderIsUnderWay, OutcomesFollow
  <2>1. PgTypeOK'
    BY <1>3 DEF AcquireFails, PgGoto, Failing, Answering, PgTypeOK, PgPCs, PgAnswers
  <2>2. (HolderIsUnderWay /\ HolderIsAlone /\ OutIsHeld /\ SessionsFollow)'
    BY <1>3, <2>0 DEF AcquireFails, PgAt, PgGoto, PgTypeOK, HolderIsUnderWay, HolderIsAlone,
                OutIsHeld, SessionsFollow
  <2>3. (CallsGoOn /\ ReleasesFollow /\ QueriesStay /\ OutcomesFollow)'
    BY <1>3, <2>0 DEF AcquireFails, PgAt, PgGoto, Failing, Answering, PgTypeOK, CallsGoOn, ReleasesFollow, ReleasesOf, Open,
                      QueriesStay, OutcomesFollow
  <2>4. (~stray /\ AnswersTellTheOutcome)'
    BY <1>3, <2>0 DEF AcquireFails, PgGoto, Failing, Answering, PgTypeOK, AnswersTellTheOutcome
  <2>. QED
    BY <2>1, <2>2, <2>3, <2>4
<1>. QED
  BY <1>1, <1>2, <1>3

(* A transaction is opened on the client, or fails to be. *)
LEMMA BeginKeeps ==
  ASSUME ClientInv, NEW c \in Calls, BeginTransaction(c) \/ BeginFails(c)
  PROVE  ClientInv'
<1>. USE VacantIsNobody DEF ClientInv
<1>0. /\ PgAt(c, "begin") /\ client[c] \in Clients /\ c \notin committed
      /\ ~active[c] /\ answer[c] # "error"
      /\ UNCHANGED <<sort, client, sending, expired, committed, stray>>
  BY DEF BeginTransaction, BeginFails, PgAt, CallsGoOn, OutcomesFollow
<1>1. CASE /\ live[c]
           /\ session' = [session EXCEPT ![client[c]] = c]
           /\ \/ active' = [active EXCEPT ![c] = TRUE] /\ PgGoto(c, "callback")
              \/ active' = active /\ PgGoto(c, "undo")
           /\ UNCHANGED <<live, releases, pool, answer>>
  <2>0. /\ session' \in [Clients -> Calls \cup {Vacant}]
        /\ active' \in [Calls -> BOOLEAN]
        /\ pgpc' \in [Calls -> PgPCs]
    <3>1. session' \in [Clients -> Calls \cup {Vacant}]
      BY <1>0, <1>1 DEF PgTypeOK
    <3>2. CASE active' = [active EXCEPT ![c] = TRUE] /\ PgGoto(c, "callback")
      BY <3>1, <3>2 DEF PgGoto, PgTypeOK, PgPCs
    <3>3. CASE active' = active /\ PgGoto(c, "undo")
      BY <3>1, <3>3 DEF PgGoto, PgTypeOK, PgPCs
    <3>. QED
      BY <1>1, <3>2, <3>3
  <2>1. PgTypeOK'
    BY <1>0, <1>1, <2>0 DEF PgTypeOK
  <2>2. /\ \A d \in Calls : pgpc'[d] = pgpc[d] \/ (d = c /\ pgpc'[d] \in {"callback", "undo"})
        /\ \A q \in Clients : session'[q] = IF q = client[c] THEN c ELSE session[q]
        /\ pool[client[c]] = "out"
    <3>1. \A q \in Clients : session'[q] = IF q = client[c] THEN c ELSE session[q]
      BY <1>0, <1>1 DEF PgTypeOK
    <3>2. \A d \in Calls : pgpc'[d] = pgpc[d] \/ (d = c /\ pgpc'[d] \in {"callback", "undo"})
      BY <1>1 DEF PgGoto, PgTypeOK
    <3>. QED
      BY <1>1, <3>1, <3>2 DEF HolderIsUnderWay
  <2>2a. HolderIsUnderWay'
    BY <1>0, <1>1, <2>2 DEF HolderIsUnderWay
  <2>2b. (HolderIsAlone /\ OutIsHeld)'
    BY <1>0, <1>1 DEF HolderIsAlone, OutIsHeld
  <2>2c. SessionsFollow'
    BY <1>0, <1>1, <2>2 DEF SessionsFollow
  <2>3. (CallsGoOn /\ ReleasesFollow /\ QueriesStay /\ OutcomesFollow)'
    BY <1>0, <1>1 DEF PgAt, PgGoto, PgTypeOK, CallsGoOn, ReleasesFollow, ReleasesOf,
                      Open, QueriesStay, OutcomesFollow,
                      HolderIsAlone
  <2>4. (~stray /\ AnswersTellTheOutcome)'
    BY <1>0, <1>1 DEF AnswersTellTheOutcome
  <2>. QED
    BY <2>1, <2>2a, <2>2b, <2>2c, <2>3, <2>4
<1>2. CASE /\ Destroyed(c) /\ Failing(c) /\ PgGoto(c, "over")
           /\ UNCHANGED <<session, active>>
  <2>0. /\ live' = [live EXCEPT ![c] = FALSE]
        /\ releases' = [releases EXCEPT ![c] = IF live[c] THEN 1 ELSE releases[c]]
        /\ pool' = [pool EXCEPT ![client[c]] = IF live[c] THEN "gone" ELSE pool[client[c]]]
        /\ \E a \in {"error", "deadline"} : Answering(c, a)
    <3>1. /\ live' = [live EXCEPT ![c] = FALSE]
          /\ releases' = [releases EXCEPT ![c] = IF live[c] THEN 1 ELSE releases[c]]
      BY <1>0, <1>2 DEF Released, Destroyed, PgTypeOK, ReleasesFollow, ReleasesOf
    <3>2. pool' = [pool EXCEPT ![client[c]] = IF live[c] THEN "gone" ELSE pool[client[c]]]
      BY <1>0, <1>2 DEF Released, Destroyed, PgTypeOK, HolderIsUnderWay
    <3>3. \E a \in {"error", "deadline"} : Answering(c, a)
      BY <1>2 DEF Failing
    <3>. QED
      BY <3>1, <3>2, <3>3
  <2>1. PgTypeOK'
    BY <1>0, <1>2, <2>0 DEF Answering, PgGoto, PgTypeOK, PgPCs, PgAnswers
  <2>2. (HolderIsUnderWay /\ HolderIsAlone)'
    BY <1>0, <1>2, <2>0 DEF PgGoto, PgTypeOK, HolderIsUnderWay, HolderIsAlone
  <2>3. (OutIsHeld /\ SessionsFollow)'
    BY <1>0, <1>2, <2>0 DEF PgTypeOK, OutIsHeld, SessionsFollow, HolderIsAlone
  <2>4. (CallsGoOn /\ ReleasesFollow /\ QueriesStay /\ OutcomesFollow)'
    BY <1>0, <1>2, <2>0 DEF Answering, PgAt, PgGoto, PgTypeOK, CallsGoOn, ReleasesFollow, ReleasesOf, Open,
                      QueriesStay, OutcomesFollow
  <2>5. (~stray /\ AnswersTellTheOutcome)'
    BY <1>0, <1>2, <2>0 DEF Answering, PgTypeOK, AnswersTellTheOutcome
  <2>. QED
    BY <2>1, <2>2, <2>3, <2>4, <2>5
<1>. QED
  BY <1>1, <1>2 DEF BeginTransaction, BeginFails

(* The callback queries, and a query is sent or not. *)
LEMMA QueryKeeps ==
  ASSUME ClientInv, NEW c \in Calls, Query(c) \/ Send(c) \/ RunQuery(c)
  PROVE  ClientInv'
<1>. USE VacantIsNobody DEF ClientInv
<1>0. UNCHANGED <<sort, pgpc, client, live, releases, active, expired, answer, pool, session, committed>>
  BY DEF Query, Send, RunQuery
<1>1. /\ \E v \in {"nothing", "settings", "query"} : sending' = [sending EXCEPT ![c] = v]
      /\ \A d \in Calls : sending'[d] # "nothing" =>
           sending[d] # "nothing" \/ (d = c /\ pgpc[c] = "callback")
      /\ \A d \in Calls : sending'[d] = "query" =>
           sending[d] = "query" \/ (d = c /\ active[c] /\ ~expired[c])
  BY DEF Query, Send, RunQuery, PgTypeOK, PgAt
<1>2. ~stray'
  <2>1. CASE RunQuery(c)
    <3>1. live[c] /\ pgpc[c] # "begin"
      BY <2>1 DEF RunQuery, QueriesStay, CallsGoOn
    <3>. QED
      BY <2>1, <3>1 DEF RunQuery, CallsGoOn
  <2>. QED
    BY <2>1 DEF Query, Send
<1>3. PgTypeOK'
  <2>1. stray' \in BOOLEAN
    BY DEF Query, Send, RunQuery, PgTypeOK
  <2>2. sending' \in [Calls -> {"nothing", "settings", "query"}]
    BY <1>1 DEF PgTypeOK
  <2>. QED
    BY <1>0, <2>1, <2>2 DEF PgTypeOK
<1>4. (HolderIsUnderWay /\ HolderIsAlone /\ OutIsHeld /\ SessionsFollow)'
  BY <1>0 DEF HolderIsUnderWay, HolderIsAlone, OutIsHeld, SessionsFollow
<1>5. (CallsGoOn /\ ReleasesFollow /\ QueriesStay /\ OutcomesFollow)'
  BY <1>0, <1>1 DEF CallsGoOn, ReleasesFollow, ReleasesOf,
                Open, QueriesStay, OutcomesFollow
<1>6. AnswersTellTheOutcome'
  BY <1>0 DEF AnswersTellTheOutcome
<1>. QED
  BY <1>2, <1>3, <1>4, <1>5, <1>6

(* The callback ends, in whichever way, or what is left of it. *)
LEMMA CallbackKeeps ==
  ASSUME ClientInv, NEW c \in Calls,
         \/ QueryFails(c) \/ CallbackFails(c) \/ CallbackDeadline(c)
         \/ CallbackEnds(c) \/ GoesOn(c)
  PROVE  ClientInv'
<1>. USE VacantIsNobody DEF ClientInv
<1>. DEFINE CallbackGoes(pc) ==
       /\ pgpc' = [pgpc EXCEPT ![c] = pc]
       /\ pc \in {"undo", "end"} => pgpc[c] = "callback"
       /\ pc \in {"over", "late"} => ~live[c] /\ pgpc[c] \in {"begin", "callback", "end"}
       /\ pc = "over" => pgpc[c] # "end"
<1>0. UNCHANGED <<sort, client, live, releases, expired, answer, pool, session, committed, stray>>
  BY DEF QueryFails, CallbackFails, CallbackDeadline, CallbackEnds, GoesOn
<1>1. /\ sending' \in {sending, [sending EXCEPT ![c] = "nothing"]}
      /\ \/ UNCHANGED <<active, pgpc>>
         \/ /\ active' = [active EXCEPT ![c] = FALSE]
            /\ \E pc \in {"undo", "end", "over", "late"} : CallbackGoes(pc)
  BY DEF QueryFails, CallbackFails, CallbackDeadline, CallbackEnds, GoesOn, PgGoto, PgAt
<1>2. sending' \in [Calls -> {"nothing", "settings", "query"}]
      /\ \A d \in Calls : sending'[d] \in {sending[d], "nothing"}
  BY <1>1 DEF PgTypeOK
<1>3. CASE UNCHANGED <<active, pgpc>>
  <2>1. PgTypeOK'
    BY <1>0, <1>2, <1>3 DEF PgTypeOK
  <2>2. (HolderIsUnderWay /\ HolderIsAlone /\ OutIsHeld /\ SessionsFollow)'
    BY <1>0, <1>3 DEF HolderIsUnderWay, HolderIsAlone, OutIsHeld, SessionsFollow
  <2>3. (CallsGoOn /\ ReleasesFollow /\ QueriesStay /\ OutcomesFollow)'
    BY <1>0, <1>2, <1>3 DEF CallsGoOn, ReleasesFollow, ReleasesOf,
                Open, QueriesStay, OutcomesFollow
  <2>4. (~stray /\ AnswersTellTheOutcome)'
    BY <1>0, <1>3 DEF AnswersTellTheOutcome
  <2>. QED
    BY <2>1, <2>2, <2>3, <2>4
<1>4. CASE /\ active' = [active EXCEPT ![c] = FALSE]
           /\ \E pc \in {"undo", "end", "over", "late"} : CallbackGoes(pc)
  <2>. PICK pc \in {"undo", "end", "over", "late"} : CallbackGoes(pc)
    BY <1>4
  <2>1. PgTypeOK'
    <3>1. active' \in [Calls -> BOOLEAN]
      BY <1>4 DEF PgTypeOK
    <3>2. pgpc' \in [Calls -> PgPCs]
      BY DEF PgTypeOK, PgPCs
    <3>. QED
      BY <1>0, <1>2, <3>1, <3>2 DEF PgTypeOK
  <2>2. (HolderIsUnderWay /\ HolderIsAlone /\ OutIsHeld /\ SessionsFollow)'
    BY <1>0 DEF PgTypeOK, HolderIsUnderWay, HolderIsAlone, OutIsHeld, SessionsFollow
  <2>3. CallsGoOn'
    BY <1>0, <1>2, <1>4 DEF PgTypeOK, CallsGoOn, Open
  <2>3a. ReleasesFollow'
    BY <1>0 DEF PgTypeOK, ReleasesFollow, ReleasesOf
  <2>4. (QueriesStay /\ OutcomesFollow)'
    BY <1>0, <1>2 DEF PgTypeOK, QueriesStay, OutcomesFollow
  <2>5. (~stray /\ AnswersTellTheOutcome)'
    BY <1>0 DEF AnswersTellTheOutcome
  <2>. QED
    BY <2>1, <2>2, <2>3, <2>3a, <2>4, <2>5
<1>. QED
  BY <1>1, <1>3, <1>4

(* A call sets out to undo its transaction, or sends the ROLLBACK. *)
LEMMA UndoKeeps ==
  ASSUME ClientInv, NEW c \in Calls, (EndFails(c) /\ ~Doubts(c)) \/ RollBack(c)
  PROVE  ClientInv'
<1>. USE VacantIsNobody DEF ClientInv
<1>0. /\ pgpc[c] \in {"end", "undo"} /\ client[c] \in Clients /\ live[c] /\ ~active[c]
      /\ UNCHANGED <<sort, client, live, releases, active, sending, expired, answer, pool, stray>>
  BY DEF EndFails, RollBack, PgAt, CallsGoOn
<1>1. PICK pc \in {"undo", "rollback"} : pgpc' = [pgpc EXCEPT ![c] = pc]
  BY DEF EndFails, RollBack, PgGoto
<1>2. /\ committed' \in {committed, committed \cup {c}}
      /\ c \in committed' => sort[c].kind = "anonymous"
  BY DEF EndFails, RollBack, Doubts, PgAt, OutcomesFollow, PgTypeOK, CallKinds
<1>3. /\ session' \in [Clients -> Calls \cup {Vacant}]
      /\ \A k \in Clients : session'[k] \in {session[k], Vacant}
      /\ \A k \in Clients : k # client[c] => session'[k] = session[k]
      /\ sending[c] = "query" => session' = session
  BY <1>0 DEF EndFails, RollBack, CallEnds, Close, PgTypeOK
<1>4. PgTypeOK'
  BY <1>0, <1>1, <1>2, <1>3 DEF PgTypeOK, PgPCs
<1>5. (HolderIsUnderWay /\ HolderIsAlone /\ OutIsHeld)'
  BY <1>0, <1>1 DEF PgTypeOK, HolderIsUnderWay, HolderIsAlone, OutIsHeld
<1>6. SessionsFollow'
  BY <1>0, <1>3 DEF PgTypeOK, SessionsFollow
<1>7. CallsGoOn'
  BY <1>0, <1>1, <1>3 DEF PgTypeOK, CallsGoOn, Open, HolderIsAlone
<1>8. (ReleasesFollow /\ QueriesStay /\ OutcomesFollow)'
  BY <1>0, <1>1, <1>2 DEF PgTypeOK, ReleasesFollow, ReleasesOf, QueriesStay, OutcomesFollow
<1>9. (~stray /\ AnswersTellTheOutcome)'
  BY <1>0, <1>2 DEF AnswersTellTheOutcome, OutcomesFollow
<1>. QED
  BY <1>4, <1>5, <1>6, <1>7, <1>8, <1>9

(* The call ends: its client is returned, or destroyed, or was before. *)
LEMMA EndKeeps ==
  ASSUME ClientInv, NEW c \in Calls,
         EndOk(c) \/ (EndFails(c) /\ Doubts(c)) \/ UndoAtDeadline(c) \/ RolledBack(c)
  PROVE  ClientInv'
<1>. USE VacantIsNobody DEF ClientInv
<1>0. /\ pgpc[c] \in {"end", "undo", "rollback"} /\ client[c] \in Clients /\ ~active[c]
      /\ answer[c] \notin {"result", "error"}
      /\ pgpc' = [pgpc EXCEPT ![c] = "over"]
      /\ UNCHANGED <<sort, client, active, sending, expired, stray>>
  BY DEF EndOk, EndFails, UndoAtDeadline, RolledBack, PgAt, PgGoto, CallsGoOn, OutcomesFollow
<1>a. live[c] => pool[client[c]] = "out"
  BY DEF HolderIsUnderWay
<1>1. PICK sound \in BOOLEAN : 
        /\ Released(c, sound) \/ (Destroyed(c) /\ ~sound)
        /\ sound => /\ pool[client[c]] # "gone" /\ sending[c] # "query"
                    /\ session'[client[c]] \in {session[client[c]], Vacant} \ {c}
  <2>1. CASE EndOk(c)
    <3>1. Released(c, TRUE) /\ live[c] /\ sending[c] # "query" /\ Close(c)
      BY <2>1 DEF EndOk, CallEnds
    <3>2. session'[client[c]] = Vacant
      BY <1>0, <3>1 DEF Close, PgTypeOK
    <3>. QED
      BY <1>a, <3>1, <3>2
  <2>2. CASE EndFails(c) /\ Doubts(c)
    BY <2>2 DEF EndFails
  <2>3. CASE UndoAtDeadline(c)
    BY <2>3 DEF UndoAtDeadline
  <2>4. CASE RolledBack(c)
    <3>1. CASE Released(c, FALSE)
      BY <3>1
    <3>2. CASE /\ sending[c] # "query" /\ pool[client[c]] # "gone"
               /\ session' = [session EXCEPT ![client[c]] = IF @ = c THEN Vacant ELSE @]
               /\ Released(c, TRUE)
      <4>1. session'[client[c]] = IF session[client[c]] = c THEN Vacant ELSE session[client[c]]
        BY <1>0, <3>2 DEF PgTypeOK
      <4>. QED
        BY <3>2, <4>1
    <3>. QED
      BY <2>4, <3>1, <3>2 DEF RolledBack
  <2>. QED
    BY <2>1, <2>2, <2>3, <2>4
<1>2. live[c] \/ (pool[client[c]] = "gone" /\ expired[c])
  BY <1>0 DEF ReleasesFollow, ReleasesOf, CallsGoOn
<1>3. PICK a \in PgAnswers :
        /\ Answering(c, a)
        /\ answer[c] = "none" /\ a = "result" /\ sort[c].kind # "read" => c \in committed'
        /\ answer[c] = "none" /\ a = "error" /\ sort[c].kind # "anonymous" => c \notin committed'
  BY DEF EndOk, EndFails, UndoAtDeadline, RolledBack, PgAnswers, OutcomesFollow, PgAt
<1>4. /\ committed' \in {committed, committed \cup {c}}
      /\ c \in committed' => sort[c].kind # "read"
  BY DEF EndOk, EndFails, UndoAtDeadline, RolledBack, OutcomesFollow
<1>5. /\ live' = [live EXCEPT ![c] = FALSE]
      /\ pool' \in [Clients -> {"absent", "idle", "out", "gone"}]
      /\ \A k \in Clients : k # client[c] \/ ~live[c] => pool'[k] = pool[k]
      /\ live[c] => pool'[client[c]] = IF sound THEN "idle" ELSE "gone"
  <2>1. CASE Released(c, sound)
    BY <1>0, <1>a, <1>2, <2>1 DEF Released, PgTypeOK
  <2>2. CASE Destroyed(c) /\ ~sound /\ live[c]
    BY <1>0, <1>a, <2>2 DEF Destroyed, Released, PgTypeOK
  <2>3. CASE Destroyed(c) /\ ~live[c]
    BY <1>0, <2>3 DEF Destroyed, PgTypeOK
  <2>. QED
    BY <1>1, <2>1, <2>2, <2>3
<1>5a. /\ releases' \in [Calls -> 0..2]
       /\ \A d \in Calls : d # c => releases'[d] = releases[d]
       /\ releases'[c] > 1 => ~live[c]
  <2>1. live[c] => releases[c] = 0
    BY DEF ReleasesFollow, ReleasesOf
  <2>2. releases[c] \in {0, 1}
    BY <1>0 DEF ReleasesFollow, ReleasesOf, PgTypeOK
  <2>3. CASE releases' = [releases EXCEPT ![c] = @ + 1]
    <3>1. releases'[c] = releases[c] + 1 /\ \A d \in Calls : d # c => releases'[d] = releases[d]
      BY <2>3 DEF PgTypeOK
    <3>2. releases' \in [Calls -> 0..2]
      BY <2>2, <2>3 DEF PgTypeOK
    <3>. QED
      BY <2>1, <3>1, <3>2
  <2>4. CASE releases' = releases /\ ~live[c]
    BY <2>4 DEF PgTypeOK
  <2>. QED
    BY <1>1, <2>3, <2>4 DEF Released, Destroyed
<1>6. /\ session' \in [Clients -> Calls \cup {Vacant}]
      /\ \A k \in Clients : session'[k] \in {session[k], Vacant}
      /\ \A k \in Clients : session[k] # c => session'[k] = session[k]
  <2>1. CASE session' = session
    BY <2>1 DEF PgTypeOK
  <2>2. CASE session' = [session EXCEPT ![client[c]] = Vacant] /\ session[client[c]] = c
    BY <1>0, <2>2 DEF PgTypeOK
  <2>. QED
    BY <1>0, <2>1, <2>2 DEF EndOk, EndFails, UndoAtDeadline, RolledBack, CallEnds, Open, Close,
       PgTypeOK
<1>6a. sound => live[c] /\ session'[client[c]] = Vacant
  BY <1>0, <1>1, <1>2, <1>6 DEF SessionsFollow, HolderIsUnderWay, HolderIsAlone, PgTypeOK
<1>7. PgTypeOK'
  BY <1>0, <1>3, <1>4, <1>5, <1>5a, <1>6 DEF Answering, PgTypeOK, PgPCs, PgAnswers
<1>8. (HolderIsUnderWay /\ HolderIsAlone)'
  BY <1>0, <1>5 DEF PgTypeOK, HolderIsUnderWay, HolderIsAlone
<1>9. OutIsHeld'
  BY <1>0, <1>5 DEF PgTypeOK, OutIsHeld
<1>10. SessionsFollow'
  BY <1>0, <1>5, <1>6, <1>6a DEF PgTypeOK, SessionsFollow, HolderIsUnderWay
<1>11. CallsGoOn'
  BY <1>0, <1>5, <1>6 DEF PgTypeOK, CallsGoOn, Open, HolderIsAlone, HolderIsUnderWay
<1>11a. ReleasesFollow'
  <2>1. \A k \in Clients : pool[k] = "gone" => pool'[k] = "gone"
    BY <1>0, <1>a, <1>5
  <2>2. \A d \in Calls : d # c => pgpc'[d] = pgpc[d] /\ live'[d] = live[d]
    BY <1>0, <1>5
  <2>3. ~live'[c] /\ pgpc'[c] = "over"
    BY <1>0, <1>5 DEF PgTypeOK
  <2>. QED
    <3>. SUFFICES ASSUME NEW d \in Calls PROVE ReleasesOf(d)'
      BY DEF ReleasesFollow
    <3>1. CASE d = c
      BY <1>0, <1>2, <1>5a, <2>1, <2>3, <3>1 DEF ReleasesOf
    <3>2. CASE d # c
      <4>1. ReleasesOf(d)
        BY DEF ReleasesFollow
      <4>2. pgpc[d] \in {"begin", "callback", "end", "undo", "rollback"} => client[d] \in Clients
        BY DEF CallsGoOn
      <4>. QED
        BY <1>0, <1>5a, <2>1, <2>2, <3>2, <4>1, <4>2 DEF ReleasesOf
    <3>. QED
      BY <3>1, <3>2
<1>12. QueriesStay'
  <2>1. sending[c] = "query" => ~sound
    BY <1>1
  <2>2. \A d \in Calls : d # c => live'[d] = live[d]
    BY <1>5
  <2>. QED
    BY <1>0, <1>2, <1>5, <2>1, <2>2 DEF QueriesStay, HolderIsUnderWay
<1>13. OutcomesFollow'
  BY <1>0, <1>3, <1>4 DEF Answering, PgTypeOK, OutcomesFollow
<1>14. (~stray /\ AnswersTellTheOutcome)'
  BY <1>0, <1>3, <1>4 DEF Answering, PgTypeOK, AnswersTellTheOutcome
<1>. QED
  BY <1>7, <1>8, <1>9, <1>10, <1>11, <1>11a, <1>12, <1>13, <1>14

(* The timer of a lifetime destroys the client of its call. *)
LEMMA TimerKeeps ==
  ASSUME ClientInv, NEW c \in Calls, LifetimePasses(c)
  PROVE  ClientInv'
<1>. USE VacantIsNobody DEF ClientInv
<1>0. /\ pgpc[c] \notin {"new", "over"}
      /\ UNCHANGED <<sort, pgpc, client, active, sending, session, committed, stray>>
      /\ expired' = [expired EXCEPT ![c] = TRUE]
      /\ live' = [live EXCEPT ![c] = FALSE]
      /\ releases' = [releases EXCEPT ![c] = IF live[c] THEN 1 ELSE releases[c]]
      /\ Answering(c, "deadline")
  BY DEF LifetimePasses, Destroyed, Released, PgTypeOK, ReleasesFollow, ReleasesOf
<1>1. /\ pool' \in [Clients -> {"absent", "idle", "out", "gone"}]
      /\ \A k \in Clients : k # client[c] \/ ~live[c] => pool'[k] = pool[k]
      /\ live[c] => client[c] \in Clients /\ pool'[client[c]] = "gone"
  BY DEF LifetimePasses, Destroyed, Released, PgTypeOK, HolderIsUnderWay
<1>2. PgTypeOK'
  BY <1>0, <1>1 DEF Answering, PgTypeOK, PgAnswers
<1>3. (HolderIsUnderWay /\ HolderIsAlone)'
  BY <1>0, <1>1 DEF PgTypeOK, HolderIsUnderWay, HolderIsAlone
<1>4. OutIsHeld'
  BY <1>0, <1>1 DEF PgTypeOK, OutIsHeld
<1>5. SessionsFollow'
  BY <1>0, <1>1 DEF PgTypeOK, SessionsFollow, HolderIsUnderWay
<1>6. CallsGoOn'
  BY <1>0, <1>1 DEF PgTypeOK, CallsGoOn, ReleasesFollow, ReleasesOf, Open
<1>6a. ReleasesFollow'
  BY <1>0, <1>1 DEF PgTypeOK, ReleasesFollow, ReleasesOf, CallsGoOn
<1>7. QueriesStay'
  BY <1>0, <1>1 DEF PgTypeOK, QueriesStay, HolderIsUnderWay
<1>8. (OutcomesFollow /\ AnswersTellTheOutcome)'
  BY <1>0 DEF Answering, PgTypeOK, OutcomesFollow, AnswersTellTheOutcome
<1>. QED
  BY <1>0, <1>2, <1>3, <1>4, <1>5, <1>6, <1>6a, <1>7, <1>8

(* The server ends the session of a client that was destroyed. *)
LEMMA ServerKeeps ==
  ASSUME ClientInv, NEW k \in Clients, ServerNotices(k)
  PROVE  ClientInv'
<1>. USE VacantIsNobody DEF ClientInv
<1>0. /\ pool[k] = "gone"
      /\ \A c \in Calls : live[c] => client[c] # k
      /\ UNCHANGED <<sort, pgpc, client, live, releases, active, sending, expired, answer, pool,
                     stray>>
  BY DEF ServerNotices, HolderIsUnderWay
<1>1. /\ session[k] \in Calls
      /\ session' = [session EXCEPT ![k] = Vacant]
      /\ \/ committed' = committed
         \/ /\ committed' = committed \cup {session[k]}
            /\ pgpc[session[k]] \in {"end", "late"} /\ sort[session[k]].kind # "read"
  BY DEF ServerNotices, PgTypeOK
<1>2. PgTypeOK'
  BY <1>0, <1>1 DEF PgTypeOK
<1>3. (HolderIsUnderWay /\ HolderIsAlone /\ OutIsHeld)'
  BY <1>0, <1>1 DEF HolderIsUnderWay, HolderIsAlone, OutIsHeld
<1>4. SessionsFollow'
  BY <1>0, <1>1 DEF PgTypeOK, SessionsFollow
<1>5. (CallsGoOn /\ ReleasesFollow /\ QueriesStay)'
  BY <1>0, <1>1 DEF PgTypeOK, CallsGoOn, ReleasesFollow, ReleasesOf, Open, QueriesStay, HolderIsUnderWay
<1>6. OutcomesFollow'
  BY <1>0, <1>1 DEF OutcomesFollow
<1>7. (~stray /\ AnswersTellTheOutcome)'
  BY <1>0, <1>1 DEF AnswersTellTheOutcome, OutcomesFollow
<1>. QED
  BY <1>2, <1>3, <1>4, <1>5, <1>6, <1>7

(* Every step keeps the invariant. *)
LEMMA ClientStepInv == ClientInv /\ [PgNext]_pgVars => ClientInv'
<1>. SUFFICES ASSUME ClientInv, [PgNext]_pgVars PROVE ClientInv'
  OBVIOUS
<1>1. CASE PgNext
  BY <1>1, AcquireKeeps, BeginKeeps, QueryKeeps, CallbackKeeps, UndoKeeps, EndKeeps,
     TimerKeeps, ServerKeeps DEF PgNext, PgStep
<1>2. CASE UNCHANGED pgVars
  BY <1>2 DEF pgVars, ClientInv, PgTypeOK, HolderIsUnderWay, HolderIsAlone, OutIsHeld,
     SessionsFollow, CallsGoOn, ReleasesFollow, ReleasesOf,
                      Open, QueriesStay, OutcomesFollow,
     AnswersTellTheOutcome
<1>. QED
  BY <1>1, <1>2

(* The invariant of the calls, the pool and the sessions holds in every    *)
(* behaviour of pg-transaction.ts, for any calls and any pool.       *)
THEOREM ClientInvariance == PgSpec => []ClientInv
<1>. QED
  BY ClientInitInv, ClientStepInv, PTL DEF PgSpec

(* The calls of the database layer keep to the types of their state. *)
THEOREM PgTypeCorrect == PgSpec => []PgTypeOK
<1>1. ClientInv => PgTypeOK
  BY DEF ClientInv
<1>. QED
  BY <1>1, ClientInvariance, PTL

(* A client that is checked out belongs to one call, a second release of   *)
(* one, by a call whose lifetime ended during its ROLLBACK, meets a client *)
(* that was destroyed, and no transaction or query of a call reaches the   *)
(* next: with timers that fire at any point and any number of clients.     *)
THEOREM ClientsAreHandedOnClean == PgSpec => []ClientsChangeHandsClean
<1>1. ASSUME ClientInv, NEW k \in Clients PROVE Cardinality(Holding(k)) <= 1
  <2>1. CASE Holding(k) = {}
    BY <2>1, FS_EmptySet
  <2>2. CASE Holding(k) # {}
    <3>1. PICK c \in Calls : c \in Holding(k)
      BY <2>2 DEF Holding
    <3>2. Holding(k) = {c}
      BY <1>1, <3>1 DEF Holding, ClientInv, HolderIsAlone
    <3>3. Cardinality({c}) = 1
      BY FS_Singleton, Zenon
    <3>. QED
      BY <3>2, <3>3
  <2>. QED
    BY <2>1, <2>2
<1>2. ASSUME ClientInv, NEW k \in Clients PROVE (pool[k] = "out") = (Holding(k) # {})
  BY <1>2 DEF ClientInv, Holding, OutIsHeld, HolderIsUnderWay
<1>3. ClientInv => ClientsChangeHandsClean
  BY <1>1, <1>2 DEF ClientInv, ClientsChangeHandsClean, SessionsFollow, ReleasesFollow, ReleasesOf,
     HolderIsUnderWay, PgAt
<1>. QED
  BY <1>3, ClientInvariance, PTL

(* What a caller of run, runAsQueueConsumer or runRead is told of its      *)
(* transaction is true, and where a COMMIT may have been carried out after *)
(* all it is told that; of runAnonymous, only a result is true for sure.   *)
THEOREM OutcomesAreTold == PgSpec => []AnswersTellTheOutcome
<1>1. ClientInv => AnswersTellTheOutcome
  BY DEF ClientInv
<1>. QED
  BY <1>1, ClientInvariance, PTL

-----------------------------------------------------------------------------
(* Browsers *)

RenderRecord == [pc : RenderPCs, gen : Nat, attempts : Nat]

GenRecord ==
  [browser : {"none", "launching", "up", "gone"}, contexts : Nat,
   unhealthy : BOOLEAN, drain : BOOLEAN, closed : BOOLEAN, listed : BOOLEAN,
   ending : BOOLEAN, asked : BOOLEAN, drained : BOOLEAN]

\* The renders in a generation, those it counts.
InsidePCs == {"opening", "preparing", "rendering", "closing"}
Inside(g) == {r \in Renders : render[r].gen = g /\ render[r].pc \in InsidePCs}

\* What the flags of a generation say of each other: one whose browser has not
\* come up has seen nothing yet; only a quarantined one has a drain timer or is
\* told to close before the renderer stops.
Flags(x) ==
  /\ x.browser \in {"none", "launching"} =>
       /\ x.contexts = 0 /\ ~x.unhealthy /\ ~x.drain /\ ~x.ending /\ ~x.asked
       /\ ~x.listed
  /\ x.ending \/ x.closed => x.asked
  /\ x.drain => x.unhealthy
  /\ x.asked /\ stop = "no" => x.unhealthy
  /\ x.asked /\ x.contexts > 0 => x.drained \/ stop # "no"

\* A browser that is up is the current one, or something will close it.
AccountedFor(g) ==
  gen[g].browser = "up" =>
    \/ g = current \/ gen[g].asked \/ gen[g].drain
    \/ (stop = "launch" /\ gen[g].listed)

\* The current generation serves: it is up, on the list, and no other is on
\* its way.
Serves(g) ==
  /\ gen[g].browser = "up" /\ gen[g].listed /\ ~gen[g].unhealthy
  /\ stop = "no" /\ launch = NoGeneration

GenerationOK(g) ==
  /\ Flags(gen[g])
  /\ AccountedFor(g)
  /\ g = current => Serves(g)
  /\ g > sequence => gen[g].browser = "none"

RendererInv ==
  /\ render \in [Renders -> RenderRecord]
  /\ gen \in [Generations -> GenRecord]
  /\ current \in Generations \cup {NoGeneration}
  /\ launch \in Nat /\ sequence \in Nat
  /\ stop \in {"no", "launch", "browsers"}
  /\ \A g \in Generations : GenerationOK(g)
  /\ \A g \in Generations : gen[g].contexts = Cardinality(Inside(g))

LEMMA GenerationsAreNumbers ==
  Generations \subseteq Nat /\ NoGeneration \notin Generations
  BY DEF Generations, NoGeneration

(* The renders in a generation are finitely many.                          *)
LEMMA InsideIsFinite ==
  ASSUME NEW g
  PROVE  /\ IsFiniteSet(Inside(g)) /\ Cardinality(Inside(g)) \in Nat
         /\ Cardinality(Inside(g)) = 0 <=> Inside(g) = {}
<1>1. Inside(g) \in SUBSET Renders
  BY DEF Inside
<1>2. IsFiniteSet(Inside(g))
  BY <1>1, RendererAssumption, FS_Subset
<1>. QED
  BY <1>2, FS_CardinalityType, FS_EmptySet

(* A render that goes on outside, or inside its generation.                *)
LEMMA RenderStays ==
  ASSUME render \in [Renders -> RenderRecord], NEW r \in Renders,
         NEW x \in RenderRecord, render' = [render EXCEPT ![r] = x],
         x.pc \in InsidePCs <=> render[r].pc \in InsidePCs,
         x.pc \in InsidePCs => x.gen = render[r].gen
  PROVE  /\ render' \in [Renders -> RenderRecord]
         /\ \A g : Inside(g)' = Inside(g)
<1>1. /\ render' \in [Renders -> RenderRecord] /\ render'[r] = x
      /\ \A q \in Renders \ {r} : render'[q] = render[q]
  OBVIOUS
<1>2. ASSUME NEW g PROVE Inside(g)' = Inside(g)
  <2>1. ASSUME NEW q \in Renders PROVE q \in Inside(g)' <=> q \in Inside(g)
    <3>1. CASE q = r
      BY <3>1, <1>1 DEF Inside
    <3>2. CASE q # r
      BY <3>2, <1>1 DEF Inside
    <3>. QED
      BY <3>1, <3>2
  <2>. QED
    BY <2>1 DEF Inside
<1>. QED
  BY <1>1, <1>2

(* One that is admitted to a generation, and one that leaves it.           *)
LEMMA RenderEnters ==
  ASSUME render \in [Renders -> RenderRecord], NEW r \in Renders,
         NEW x \in RenderRecord, render' = [render EXCEPT ![r] = x],
         x.pc \in InsidePCs, render[r].pc \notin InsidePCs
  PROVE  /\ render' \in [Renders -> RenderRecord]
         /\ \A g : g # x.gen => Inside(g)' = Inside(g)
         /\ Cardinality(Inside(x.gen)') = Cardinality(Inside(x.gen)) + 1
<1>1. /\ render' \in [Renders -> RenderRecord] /\ render'[r] = x
      /\ \A q \in Renders \ {r} : render'[q] = render[q]
  OBVIOUS
<1>2. ASSUME NEW g PROVE Inside(g)' = IF g = x.gen THEN Inside(g) \cup {r} ELSE Inside(g)
  <2>1. ASSUME NEW q \in Renders
        PROVE q \in Inside(g)' <=> q \in Inside(g) \/ (q = r /\ g = x.gen)
    <3>1. CASE q = r
      BY <3>1, <1>1 DEF Inside
    <3>2. CASE q # r
      BY <3>2, <1>1 DEF Inside
    <3>. QED
      BY <3>1, <3>2
  <2>. QED
    BY <2>1 DEF Inside
<1>3. r \notin Inside(x.gen)
  BY DEF Inside
<1>4. Cardinality(Inside(x.gen) \cup {r}) = Cardinality(Inside(x.gen)) + 1
  BY <1>3, InsideIsFinite, FS_AddElement
<1>. QED
  BY <1>1, <1>2, <1>4

LEMMA RenderLeaves ==
  ASSUME render \in [Renders -> RenderRecord], NEW r \in Renders,
         NEW g, g = render[r].gen,
         render' = [render EXCEPT ![r].pc = "done"], render[r].pc \in InsidePCs
  PROVE  /\ render' \in [Renders -> RenderRecord]
         /\ \A h : h # g => Inside(h)' = Inside(h)
         /\ Cardinality(Inside(g)) # 0
         /\ Cardinality(Inside(g)') = Cardinality(Inside(g)) - 1
<1>1. /\ render' = [render EXCEPT ![r] = [render[r] EXCEPT !.pc = "done"]]
      /\ [render[r] EXCEPT !.pc = "done"] \in RenderRecord
  BY DEF RenderRecord, RenderPCs
<1>2. /\ render' \in [Renders -> RenderRecord]
      /\ render'[r].pc = "done"
      /\ \A q \in Renders \ {r} : render'[q] = render[q]
  BY <1>1 DEF RenderRecord
<1>3. ASSUME NEW h
      PROVE Inside(h)' = IF h = g THEN Inside(h) \ {r} ELSE Inside(h)
  <2>1. ASSUME NEW q \in Renders
        PROVE q \in Inside(h)' <=> q \in Inside(h) /\ q # r
    <3>1. CASE q = r
      BY <3>1, <1>2 DEF Inside, InsidePCs
    <3>2. CASE q # r
      BY <3>2, <1>2 DEF Inside
    <3>. QED
      BY <3>1, <3>2
  <2>2. h # g => r \notin Inside(h)
    BY DEF Inside
  <2>. QED
    BY <2>1, <2>2 DEF Inside
<1>4. r \in Inside(g)
  BY DEF Inside
<1>5. Cardinality(Inside(g) \ {r}) = Cardinality(Inside(g)) - 1
  BY <1>4, InsideIsFinite, FS_RemoveElement
<1>6. Cardinality(Inside(g)) # 0
  BY <1>4, InsideIsFinite
<1>. QED
  BY <1>2, <1>3, <1>5, <1>6

(* triggerGenerationClose keeps what the flags say, and answers for the    *)
(* browser.                                                                *)
LEMMA TriggerCloseFacts ==
  ASSUME NEW x \in GenRecord, x.closed => x.asked
  PROVE  LET y == TriggerClose(x) IN
         /\ y \in GenRecord /\ y.asked
         /\ y.browser = x.browser /\ y.contexts = x.contexts /\ y.listed = x.listed
         /\ y.unhealthy = x.unhealthy /\ y.drained = x.drained
         /\ y.drain => x.drain
  BY DEF TriggerClose, CloseBrowser, GenRecord

LEMMA LeaveFacts ==
  ASSUME NEW x \in GenRecord, x.contexts > 0, x.closed => x.asked
  PROVE  LET y == Leave(x) IN
         /\ y \in GenRecord /\ y.contexts = x.contexts - 1
         /\ y.browser = x.browser /\ y.listed = x.listed
         /\ y.unhealthy = x.unhealthy /\ y.drained = x.drained
         /\ x.asked => y.asked
         /\ x.drain => y.drain \/ y.asked
         /\ y.drain => x.drain
         /\ y.ending => x.ending \/ y.asked
         /\ y.closed => y.asked
         /\ y.asked /\ ~x.asked => y.contexts = 0 /\ y.unhealthy
<1>. DEFINE z == [x EXCEPT !.contexts = IF @ = 0 THEN 0 ELSE @ - 1]
<1>1. /\ z \in GenRecord /\ z.contexts = x.contexts - 1
      /\ z.browser = x.browser /\ z.listed = x.listed
      /\ z.unhealthy = x.unhealthy /\ z.drained = x.drained
      /\ z.asked = x.asked /\ z.drain = x.drain /\ z.ending = x.ending
      /\ z.closed = x.closed
  BY DEF GenRecord
<1>2. Leave(x) = IF z.unhealthy /\ z.contexts = 0 THEN TriggerClose(z) ELSE z
  BY DEF Leave
<1>. HIDE DEF z
<1>. QED
  BY <1>1, <1>2, TriggerCloseFacts

(* A render that leaves, after quarantineGeneration where its context      *)
(* could not be closed.                                                    *)
LEMMA LeavingFacts ==
  ASSUME NEW x \in GenRecord, Flags(x), x.contexts > 0, NEW failed \in BOOLEAN
  PROVE  LET y == Leave(IF failed THEN Quarantine(x) ELSE x) IN
         /\ y \in GenRecord /\ Flags(y)
         /\ y.browser = x.browser /\ y.listed = x.listed
         /\ y.contexts = x.contexts - 1
         /\ failed => y.asked \/ y.drain
         /\ x.asked => y.asked
         /\ x.drain => y.drain \/ y.asked
         /\ ~failed => y.unhealthy = x.unhealthy
<1>. DEFINE z == IF failed THEN Quarantine(x) ELSE x
<1>0. ASSUME failed
      PROVE  z = [x EXCEPT !.unhealthy = TRUE, !.drain = @ \/ ~x.closed]
  <2>1. [x EXCEPT !.unhealthy = TRUE].contexts # 0
    BY DEF GenRecord
  <2>2. z = [[x EXCEPT !.unhealthy = TRUE] EXCEPT
               !.drain = @ \/ ~[x EXCEPT !.unhealthy = TRUE].closed]
    BY <1>0, <2>1 DEF Quarantine
  <2>. QED
    BY <2>2 DEF GenRecord
<1>1. /\ z \in GenRecord /\ z.contexts = x.contexts
      /\ z.browser = x.browser /\ z.listed = x.listed /\ z.drained = x.drained
      /\ z.asked = x.asked /\ z.closed = x.closed /\ z.ending = x.ending
      /\ z.unhealthy <=> failed \/ x.unhealthy
      /\ z.drain <=> x.drain \/ (failed /\ ~x.closed)
  <2>1. CASE failed
    <3>1. x.closed \in BOOLEAN /\ x.drain \in BOOLEAN
      BY DEF GenRecord
    <3>. QED
      BY <2>1, <1>0, <3>1 DEF GenRecord
  <2>2. CASE ~failed
    BY <2>2
  <2>. QED
    BY <2>1, <2>2
<1>8. ~failed => z = x
  OBVIOUS
<1>. HIDE DEF z
<1>2. z.closed => z.asked
  BY <1>1 DEF Flags
<1>3. x.browser \in {"up", "gone"}
  BY DEF Flags, GenRecord
<1>4. /\ Leave(z) \in GenRecord
      /\ Leave(z).browser = x.browser /\ Leave(z).listed = x.listed
      /\ Leave(z).contexts = x.contexts - 1
      /\ x.asked => Leave(z).asked
      /\ x.drain => Leave(z).drain \/ Leave(z).asked
      /\ Leave(z).unhealthy <=> failed \/ x.unhealthy
      /\ Leave(z).drain => x.drain \/ failed
      /\ Leave(z).ending => x.ending \/ Leave(z).asked
      /\ Leave(z).closed => Leave(z).asked
      /\ Leave(z).asked /\ ~x.asked => Leave(z).contexts = 0 /\ Leave(z).unhealthy
      /\ Leave(z).drained = x.drained
  <2>1. z.contexts > 0
    BY <1>1
  <2>2. /\ Leave(z) \in GenRecord /\ Leave(z).contexts = z.contexts - 1
        /\ Leave(z).browser = z.browser /\ Leave(z).listed = z.listed
        /\ Leave(z).unhealthy = z.unhealthy /\ Leave(z).drained = z.drained
        /\ z.asked => Leave(z).asked
        /\ z.drain => Leave(z).drain \/ Leave(z).asked
        /\ Leave(z).drain => z.drain
        /\ Leave(z).ending => z.ending \/ Leave(z).asked
        /\ Leave(z).closed => Leave(z).asked
        /\ Leave(z).asked /\ ~z.asked => Leave(z).contexts = 0 /\ Leave(z).unhealthy
    BY <1>1, <1>2, <2>1, LeaveFacts
  <2>. QED
    BY <1>1, <2>2
<1>5. failed => Leave(z).asked \/ Leave(z).drain
  BY <1>1, <1>2, LeaveFacts DEF Flags
<1>6. ~failed => Leave(z).unhealthy = x.unhealthy
  BY <1>1, <1>2, <1>8, LeaveFacts
<1>7. Flags(Leave(z))
  BY <1>3, <1>4 DEF Flags, GenRecord
<1>. QED
  BY <1>4, <1>5, <1>6, <1>7 DEF z

(* Renders move between pcs, and no generation does.                       *)
LEMMA RenderMoves ==
  ASSUME RendererInv, render' \in [Renders -> RenderRecord],
         \A g : Inside(g)' = Inside(g),
         UNCHANGED <<gen, current, launch, sequence, stop>>
  PROVE  RendererInv'
<1>1. \A g \in Generations : GenerationOK(g)'
  BY DEF RendererInv, GenerationOK, Flags, AccountedFor, Serves
<1>. QED
  BY <1>1 DEF RendererInv

LEMMA RenderAcquireKeeps ==
  ASSUME RendererInv, NEW r \in Renders, NEW attempts \in Nat,
         render[r].pc \in {"new", "acquired"},
         AcquireGeneration(r, attempts), UNCHANGED <<current, stop>>
  PROVE  RendererInv'
<1>1. render \in [Renders -> RenderRecord] /\ render[r].pc \notin InsidePCs
  BY DEF RendererInv, InsidePCs
<1>2. \A pc \in {"acquired", "waiting"}, g \in Nat :
        [pc |-> pc, gen |-> g, attempts |-> attempts] \in RenderRecord
  BY DEF RenderRecord, RenderPCs
<1>3. current \in Nat /\ launch \in Nat /\ sequence + 1 \in Nat
  BY GenerationsAreNumbers DEF RendererInv, NoGeneration
<1>4. ASSUME NEW pc \in {"acquired", "waiting"}, NEW g \in Nat,
             render' = [render EXCEPT ![r] = [pc |-> pc, gen |-> g, attempts |-> attempts]]
      PROVE  render' \in [Renders -> RenderRecord] /\ \A h : Inside(h)' = Inside(h)
  <2>. DEFINE x == [pc |-> pc, gen |-> g, attempts |-> attempts]
  <2>1. x \in RenderRecord /\ x.pc \notin InsidePCs
    BY <1>2 DEF InsidePCs
  <2>. HIDE DEF x
  <2>2. render' = [render EXCEPT ![r] = x]
    BY <1>4 DEF x
  <2>. QED
    BY <1>1, <2>1, <2>2, RenderStays
<1>5. /\ render' \in [Renders -> RenderRecord]
      /\ \A h : Inside(h)' = Inside(h)
  BY <1>3, <1>4 DEF AcquireGeneration
<1>6. CASE UNCHANGED <<gen, launch, sequence>>
  BY <1>5, <1>6, RenderMoves
<1>7. CASE ~UNCHANGED <<gen, launch, sequence>>
  <2>1. /\ ~Serving /\ launch = NoGeneration
        /\ sequence' = sequence + 1 /\ launch' = sequence + 1
        /\ gen' = [gen EXCEPT ![sequence + 1].browser = "launching"]
    BY <1>7 DEF AcquireGeneration
  <2>2. current = NoGeneration
    BY <2>1 DEF Serving, RendererInv, GenerationOK, Serves
  <2>3. /\ gen' \in [Generations -> GenRecord]
        /\ \A h \in Generations : h # sequence + 1 => gen'[h] = gen[h]
        /\ \A h \in Generations : h = sequence + 1 =>
             gen'[h] = [gen[h] EXCEPT !.browser = "launching"]
    BY <2>1, ZenonT(60) DEF RendererInv, GenRecord
  <2>4. ASSUME NEW h \in Generations
        PROVE  GenerationOK(h)' /\ gen'[h].contexts = gen[h].contexts
    <3>1. h \in Nat /\ h # NoGeneration /\ gen[h] \in GenRecord
      BY GenerationsAreNumbers DEF RendererInv
    <3>2. GenerationOK(h)
      BY DEF RendererInv
    <3>3. CASE h # sequence + 1
      <4>1. gen'[h] = gen[h]
        BY <2>3, <3>3
      <4>2. h > sequence' => h > sequence
        BY <2>1, <3>1 DEF RendererInv
      <4>. QED
        BY <2>1, <2>2, <3>1, <3>2, <4>1, <4>2
           DEF GenerationOK, Flags, AccountedFor, Serves
    <3>4. CASE h = sequence + 1
      <4>1. gen[h].browser = "none"
        BY <3>1, <3>2, <3>4 DEF GenerationOK, RendererInv
      <4>2. gen'[h] = [gen[h] EXCEPT !.browser = "launching"]
        BY <2>3, <3>4
      <4>3. /\ gen'[h].browser = "launching" /\ gen'[h].contexts = gen[h].contexts
            /\ gen'[h].unhealthy = gen[h].unhealthy /\ gen'[h].drain = gen[h].drain
            /\ gen'[h].ending = gen[h].ending /\ gen'[h].asked = gen[h].asked
            /\ gen'[h].closed = gen[h].closed /\ gen'[h].drained = gen[h].drained
            /\ gen'[h].listed = gen[h].listed
        BY <3>1, <4>2 DEF GenRecord
      <4>4. ~(h > sequence')
        BY <2>1, <3>4 DEF RendererInv
      <4>5. Flags(gen[h])'
        BY <3>2, <4>1, <4>3 DEF GenerationOK, Flags
      <4>. QED
        BY <2>2, <3>1, <4>3, <4>4, <4>5 DEF GenerationOK, AccountedFor
    <3>. QED
      BY <3>3, <3>4
  <2>. QED
    BY <1>3, <1>5, <2>1, <2>2, <2>3, <2>4 DEF RendererInv
<1>. QED
  BY <1>6, <1>7

(* A render outside that ends.                                             *)
LEMMA EndingOutside ==
  ASSUME RendererInv, NEW r \in Renders, render[r].pc \notin InsidePCs,
         EndsRender(r), UNCHANGED <<gen, current, launch, sequence, stop>>
  PROVE  RendererInv'
<1>. DEFINE x == [render[r] EXCEPT !.pc = "done"]
<1>1. /\ render \in [Renders -> RenderRecord]
      /\ x \in RenderRecord /\ x.pc = "done"
      /\ render' = [render EXCEPT ![r] = x]
  BY DEF RendererInv, RenderRecord, RenderPCs, EndsRender
<1>. HIDE DEF x
<1>2. x.pc \notin InsidePCs
  BY <1>1 DEF InsidePCs
<1>. QED
  BY <1>1, <1>2, RenderStays, RenderMoves

(* A render inside that goes on.                                           *)
LEMMA GoingOnInside ==
  ASSUME RendererInv, NEW r \in Renders, render[r].pc \in InsidePCs,
         NEW pc \in InsidePCs, RenderGoes(r, pc)
  PROVE  RendererInv'
<1>. DEFINE x == [render[r] EXCEPT !.pc = pc]
<1>1. /\ render \in [Renders -> RenderRecord]
      /\ x \in RenderRecord /\ x.pc = pc /\ x.gen = render[r].gen
      /\ render' = [render EXCEPT ![r] = x]
  BY DEF RendererInv, RenderRecord, RenderPCs, RenderGoes, InsidePCs
<1>. HIDE DEF x
<1>2. /\ render' \in [Renders -> RenderRecord]
      /\ \A g : Inside(g)' = Inside(g)
  BY <1>1, RenderStays
<1>. QED
  BY <1>2, RenderMoves DEF RenderGoes

LEMMA StartKeeps ==
  ASSUME RendererInv, NEW r \in Renders, StartRender(r)
  PROVE  RendererInv'
<1>1. CASE RefuseRender(r)
  BY <1>1, EndingOutside DEF StartRender, RenderAt, InsidePCs, RefuseRender
<1>2. CASE AcquireGeneration(r, 0)
  BY <1>2, RenderAcquireKeeps DEF StartRender, RenderAt
<1>. QED
  BY <1>1, <1>2 DEF StartRender

(* A render is admitted to the current generation, which is healthy and    *)
(* was not told to close.                                                  *)
LEMMA AdmitKeeps ==
  ASSUME RendererInv, NEW r \in Renders, Admit(r)
  PROVE  RendererInv'
<1>0. PICK g : g = render[r].gen
  OBVIOUS
<1>1. /\ render \in [Renders -> RenderRecord] /\ render[r] \in RenderRecord
      /\ render[r].pc = "acquired" /\ render[r].pc \notin InsidePCs
  BY DEF RendererInv, Admit, RenderAt, InsidePCs
<1>2. CASE RefuseRender(r)
  BY <1>1, <1>2, EndingOutside DEF Admit, RefuseRender
<1>3. CASE AcquireGeneration(r, render[r].attempts + 1)
  <2>1. render[r].attempts + 1 \in Nat
    BY <1>1 DEF RenderRecord
  <2>. QED
    BY <1>1, <1>3, <2>1, RenderAcquireKeeps DEF Admit
<1>4. CASE /\ stop = "no" /\ ~gen[g].unhealthy /\ g = current
           /\ gen' = [gen EXCEPT ![g].contexts = @ + 1]
           /\ render' = [render EXCEPT ![r].pc = "opening"]
           /\ UNCHANGED <<launch, sequence>>
  <2>. DEFINE x == [render[r] EXCEPT !.pc = "opening"]
  <2>1. /\ x \in RenderRecord /\ x.pc \in InsidePCs /\ x.gen = g
        /\ render' = [render EXCEPT ![r] = x]
    BY <1>0, <1>1, <1>4 DEF RenderRecord, RenderPCs, InsidePCs
  <2>. HIDE DEF x
  <2>2. /\ render' \in [Renders -> RenderRecord]
        /\ \A h : h # g => Inside(h)' = Inside(h)
        /\ Cardinality(Inside(g)') = Cardinality(Inside(g)) + 1
    BY <1>1, <2>1, RenderEnters
  <2>3. /\ gen' \in [Generations -> GenRecord]
        /\ \A h \in Generations \ {g} : gen'[h] = gen[h]
        /\ g \in Generations =>
             gen'[g] = [gen[g] EXCEPT !.contexts = gen[g].contexts + 1]
    <3>. DEFINE y == [gen[g] EXCEPT !.contexts = gen[g].contexts + 1]
    <3>1. gen \in [Generations -> GenRecord] /\ gen' = [gen EXCEPT ![g] = y]
      BY <1>4 DEF RendererInv
    <3>2. g \in Generations => y \in GenRecord
      BY <3>1 DEF GenRecord
    <3>. HIDE DEF y
    <3>3. /\ gen' \in [Generations -> GenRecord]
          /\ \A h \in Generations \ {g} : gen'[h] = gen[h]
          /\ g \in Generations => gen'[g] = y
      BY <3>1, <3>2
    <3>. QED
      BY <3>3 DEF y
  <2>4. current' = current /\ stop' = stop
    BY DEF Admit
  <2>5. ASSUME NEW h \in Generations
        PROVE  GenerationOK(h)' /\ gen'[h].contexts = Cardinality(Inside(h)')
    <3>1. GenerationOK(h) /\ gen[h] \in GenRecord
          /\ gen[h].contexts = Cardinality(Inside(h))
      BY DEF RendererInv
    <3>2. CASE h # g
      BY <1>4, <2>2, <2>3, <2>4, <3>1, <3>2
         DEF GenerationOK, Flags, AccountedFor, Serves
    <3>3. CASE h = g
      <4>1. gen'[h] = [gen[h] EXCEPT !.contexts = gen[h].contexts + 1]
        BY <2>3, <3>3
      <4>2. /\ gen'[h].browser = gen[h].browser /\ gen'[h].listed = gen[h].listed
            /\ gen'[h].unhealthy = gen[h].unhealthy /\ gen'[h].drain = gen[h].drain
            /\ gen'[h].ending = gen[h].ending /\ gen'[h].asked = gen[h].asked
            /\ gen'[h].closed = gen[h].closed /\ gen'[h].drained = gen[h].drained
            /\ gen'[h].contexts = gen[h].contexts + 1
        BY <3>1, <4>1 DEF GenRecord
      <4>3. gen[h].browser = "up" /\ ~gen[h].asked
        BY <1>4, <3>1, <3>3 DEF GenerationOK, Flags, Serves
      <4>4. Flags(gen[h])'
        BY <2>4, <3>1, <4>2, <4>3 DEF GenerationOK, Flags
      <4>5. AccountedFor(h)' /\ (h = current' => Serves(h)')
            /\ (h > sequence' => gen'[h].browser = "none")
        BY <1>4, <2>4, <3>1, <4>2 DEF GenerationOK, AccountedFor, Serves
      <4>. QED
        BY <2>2, <3>1, <3>3, <4>2, <4>4, <4>5 DEF GenerationOK
    <3>. QED
      BY <3>2, <3>3
  <2>. QED
    BY <1>4, <2>2, <2>3, <2>4, <2>5 DEF RendererInv
<1>. QED
  BY <1>0, <1>2, <1>3, <1>4 DEF Admit

(* A render leaves its generation: whatever it does to it, the browser is  *)
(* still the current one, or was told to close, or has its drain timer.    *)
LEMMA LeavingKeeps ==
  ASSUME RendererInv, NEW r \in Renders, render[r].pc \in InsidePCs,
         NEW failed \in BOOLEAN, NEW g, g = render[r].gen,
         gen' = [gen EXCEPT ![g] = Leave(IF failed THEN Quarantine(@) ELSE @)],
         current' = IF failed /\ current = g THEN NoGeneration ELSE current,
         EndsRender(r), UNCHANGED <<launch, sequence, stop>>
  PROVE  RendererInv'
<1>. DEFINE y == Leave(IF failed THEN Quarantine(gen[g]) ELSE gen[g])
<1>1. /\ render' \in [Renders -> RenderRecord]
      /\ \A h : h # g => Inside(h)' = Inside(h)
      /\ Cardinality(Inside(g)) # 0
      /\ Cardinality(Inside(g)') = Cardinality(Inside(g)) - 1
  BY RenderLeaves DEF RendererInv, EndsRender
<1>2. /\ gen \in [Generations -> GenRecord] /\ gen' = [gen EXCEPT ![g] = y]
  BY DEF RendererInv
<1>3. ASSUME g \in Generations
      PROVE  /\ y \in GenRecord /\ Flags(y)
             /\ y.browser = gen[g].browser /\ y.listed = gen[g].listed
             /\ y.contexts = gen[g].contexts - 1
             /\ failed => y.asked \/ y.drain
             /\ gen[g].asked => y.asked
             /\ gen[g].drain => y.drain \/ y.asked
             /\ ~failed => y.unhealthy = gen[g].unhealthy
  <2>1. gen[g] \in GenRecord /\ Flags(gen[g]) /\ gen[g].contexts = Cardinality(Inside(g))
    BY <1>3 DEF RendererInv, GenerationOK
  <2>2. gen[g].contexts > 0
    BY <1>1, <2>1 DEF GenRecord
  <2>. QED
    BY <2>1, <2>2, LeavingFacts
<1>. HIDE DEF y
<1>4. /\ gen' \in [Generations -> GenRecord]
      /\ \A h \in Generations \ {g} : gen'[h] = gen[h]
      /\ g \in Generations => gen'[g] = y
  BY <1>2, <1>3, ZenonT(60)
<1>5. current' \in Generations \cup {NoGeneration}
  BY DEF RendererInv
<1>6. ASSUME NEW h \in Generations
      PROVE  GenerationOK(h)' /\ gen'[h].contexts = Cardinality(Inside(h)')
  <2>1. /\ GenerationOK(h) /\ gen[h] \in GenRecord /\ h # NoGeneration
        /\ gen[h].contexts = Cardinality(Inside(h))
    BY GenerationsAreNumbers DEF RendererInv
  <2>2. CASE h # g
    BY <1>1, <1>4, <2>1, <2>2 DEF GenerationOK, Flags, AccountedFor, Serves
  <2>3. CASE h = g
    <3>1. gen'[h] = y
      BY <1>4, <2>3
    <3>2. gen'[h].contexts = Cardinality(Inside(h)')
      BY <1>1, <1>3, <2>1, <2>3, <3>1
    <3>3. Flags(gen[h])'
      BY <1>3, <2>3, <3>1 DEF Flags
    <3>4. AccountedFor(h)'
      BY <1>3, <2>1, <2>3, <3>1 DEF GenerationOK, AccountedFor
    <3>5. h = current' => Serves(h)'
      BY <1>3, <2>1, <2>3, <3>1 DEF GenerationOK, Serves
    <3>6. h > sequence' => gen'[h].browser = "none"
      BY <1>3, <2>1, <2>3, <3>1 DEF GenerationOK
    <3>. QED
      BY <3>2, <3>3, <3>4, <3>5, <3>6 DEF GenerationOK
  <2>. QED
    BY <2>2, <2>3
<1>. QED
  BY <1>1, <1>4, <1>5, <1>6 DEF RendererInv

(* What a render does by itself.                                           *)
LEMMA RenderKeeps ==
  ASSUME RendererInv, NEW r \in Renders,
         \/ StartRender(r) \/ StopWaiting(r) \/ Admit(r) \/ Setup(r) \/ SettleRender(r)
         \/ ContextCloses(r) \/ CloseTimesOut(r)
  PROVE  RendererInv'
<1>1. CASE StartRender(r)
  BY <1>1, StartKeeps
<1>2. CASE StopWaiting(r)
  BY <1>2, EndingOutside DEF StopWaiting, RenderAt, InsidePCs
<1>3. CASE Admit(r)
  BY <1>3, AdmitKeeps
<1>4. CASE ContextOpens(r) \/ PageOpens(r) \/ SettleRender(r)
  BY <1>4, GoingOnInside DEF ContextOpens, PageOpens, SettleRender, RenderAt, InsidePCs
<1>5. CASE ContextFails(r)
  <2>1. PICK g : g = render[r].gen
    OBVIOUS
  <2>2. /\ render[r].pc \in InsidePCs
        /\ gen' = [gen EXCEPT ![g] = Leave(IF FALSE THEN Quarantine(@) ELSE @)]
        /\ current' = IF FALSE /\ current = g THEN NoGeneration ELSE current
        /\ EndsRender(r) /\ UNCHANGED <<launch, sequence, stop>>
    BY <1>5, <2>1 DEF ContextFails, RenderAt, InsidePCs
  <2>. QED
    BY <2>1, <2>2, LeavingKeeps
<1>6. ASSUME NEW failed \in BOOLEAN, EndRender(r, failed) PROVE RendererInv'
  <2>1. PICK g : g = render[r].gen
    OBVIOUS
  <2>2. /\ render[r].pc \in InsidePCs
        /\ gen' = [gen EXCEPT ![g] = Leave(IF failed THEN Quarantine(@) ELSE @)]
        /\ current' = IF failed /\ current = g THEN NoGeneration ELSE current
        /\ EndsRender(r) /\ UNCHANGED <<launch, sequence, stop>>
    BY <1>6, <2>1 DEF EndRender, RenderAt, InsidePCs
  <2>. QED
    BY <2>1, <2>2, LeavingKeeps
<1>. QED
  BY <1>1, <1>2, <1>3, <1>4, <1>5, <1>6 DEF Setup, ContextCloses, CloseTimesOut

(* Those who wait for a launch are outside, and stay so.                   *)
LEMMA TellingKeeps ==
  ASSUME render \in [Renders -> RenderRecord], NEW g, NEW pc \in {"acquired", "done"},
         TellWaiting(g, pc)
  PROVE  /\ render' \in [Renders -> RenderRecord]
         /\ \A h : Inside(h)' = Inside(h)
<1>1. ASSUME NEW q \in Renders
      PROVE  /\ render'[q] \in RenderRecord /\ render'[q].gen = render[q].gen
             /\ render'[q].pc \in InsidePCs <=> render[q].pc \in InsidePCs
             /\ render'[q].pc \in InsidePCs => render'[q].pc = render[q].pc
  BY DEF TellWaiting, RenderAt, RenderRecord, RenderPCs, InsidePCs
<1>2. render' \in [Renders -> RenderRecord]
  BY <1>1 DEF TellWaiting
<1>3. ASSUME NEW h PROVE Inside(h)' = Inside(h)
  BY <1>1 DEF Inside
<1>. QED
  BY <1>2, <1>3

(* One generation changes, and no render enters or leaves.                 *)
LEMMA GenerationChanges ==
  ASSUME RendererInv, NEW g \in Generations, NEW y \in GenRecord,
         gen' = [gen EXCEPT ![g] = y],
         render' \in [Renders -> RenderRecord], \A h : Inside(h)' = Inside(h),
         launch' \in Nat, UNCHANGED <<sequence, stop>>,
         Flags(y), y.contexts = gen[g].contexts,
         gen[g].browser # "none",
         y.browser = "up" =>
           g = current' \/ y.asked \/ y.drain \/ (stop = "launch" /\ y.listed),
         g = current' => /\ y.browser = "up" /\ y.listed /\ ~y.unhealthy
                         /\ stop = "no" /\ launch' = NoGeneration,
         current' \in {current, g, NoGeneration},
         current # current' => current \in {g, NoGeneration},
         current' \notin {g, NoGeneration} => launch' = NoGeneration
  PROVE  RendererInv'
<1>1. /\ gen' \in [Generations -> GenRecord] /\ gen'[g] = y
      /\ \A h \in Generations \ {g} : gen'[h] = gen[h]
  BY DEF RendererInv
<1>2. current' \in Generations \cup {NoGeneration}
  BY DEF RendererInv
<1>3. ASSUME NEW h \in Generations
      PROVE  GenerationOK(h)' /\ gen'[h].contexts = Cardinality(Inside(h)')
  <2>1. /\ GenerationOK(h) /\ gen[h] \in GenRecord /\ h # NoGeneration
        /\ gen[h].contexts = Cardinality(Inside(h))
    BY GenerationsAreNumbers DEF RendererInv
  <2>2. CASE h # g
    <3>1. gen'[h] = gen[h] /\ Inside(h)' = Inside(h)
      BY <1>1, <2>2
    <3>2. h = current => h = current'
      BY <2>1, <2>2
    <3>3. h = current' => h = current /\ launch' = NoGeneration
      BY <2>1, <2>2
    <3>. QED
      BY <2>1, <3>1, <3>2, <3>3 DEF GenerationOK, Flags, AccountedFor, Serves
  <2>3. CASE h = g
    <3>1. gen'[h] = y /\ Inside(h)' = Inside(h)
      BY <1>1, <2>3
    <3>2. Flags(gen[h])' /\ AccountedFor(h)' /\ (h = current' => Serves(h)')
      BY <2>3, <3>1 DEF Flags, AccountedFor, Serves
    <3>3. ~(h > sequence')
      BY <2>1, <2>3 DEF GenerationOK
    <3>. QED
      BY <2>1, <2>3, <3>1, <3>2, <3>3 DEF GenerationOK
  <2>. QED
    BY <2>2, <2>3
<1>. QED
  BY <1>1, <1>2, <1>3 DEF RendererInv

(* An answer of a browser, or the timer of its generation.                 *)
LEMMA BrowserKeeps ==
  ASSUME RendererInv, NEW g \in Generations,
         \/ Launched(g) \/ LaunchFails(g) \/ Disconnected(g)
         \/ BrowserEnds(g) \/ DrainTimer(g)
  PROVE  RendererInv'
<1>0. /\ gen \in [Generations -> GenRecord] /\ gen[g] \in GenRecord
      /\ GenerationOK(g) /\ Flags(gen[g]) /\ g \in Nat /\ g # NoGeneration
      /\ render \in [Renders -> RenderRecord] /\ launch \in Nat
      /\ NoGeneration \in Nat
      /\ launch # NoGeneration => current = NoGeneration
  <2>1. launch # NoGeneration => current = NoGeneration
    BY DEF RendererInv, GenerationOK, Serves
  <2>. QED
    BY <2>1, GenerationsAreNumbers DEF RendererInv, GenerationOK, NoGeneration
<1>1. CASE Launched(g)
  <2>1. launch = g /\ current = NoGeneration /\ gen[g].browser = "launching"
    BY <1>0, <1>1 DEF Launched
  <2>2. CASE stop = "no"
    <3>. DEFINE y == [gen[g] EXCEPT !.browser = "up", !.listed = TRUE]
    <3>1. /\ y \in GenRecord /\ y.browser = "up" /\ y.listed
          /\ y.contexts = gen[g].contexts /\ y.unhealthy = gen[g].unhealthy
          /\ y.drain = gen[g].drain /\ y.ending = gen[g].ending
          /\ y.asked = gen[g].asked /\ y.closed = gen[g].closed
      BY <1>0 DEF GenRecord
    <3>2. gen' = [gen EXCEPT ![g] = y] /\ current' = g /\ launch' = NoGeneration
          /\ TellWaiting(g, "acquired") /\ UNCHANGED <<sequence, stop>>
      BY <1>0, <1>1, <2>2 DEF Launched
    <3>. HIDE DEF y
    <3>3. Flags(y) /\ ~y.unhealthy
      BY <1>0, <2>1, <3>1 DEF Flags
    <3>4. render' \in [Renders -> RenderRecord] /\ \A h : Inside(h)' = Inside(h)
      BY <1>0, <3>2, TellingKeeps
    <3>. QED
      BY <1>0, <2>1, <2>2, <3>1, <3>2, <3>3, <3>4, GenerationChanges
  <2>3. CASE stop # "no"
    <3>. DEFINE y == CloseBrowser([gen[g] EXCEPT !.browser = "up"])
    <3>1. /\ y \in GenRecord /\ y.browser = "up" /\ y.asked
          /\ y.contexts = gen[g].contexts /\ y.drain = gen[g].drain
          /\ y.unhealthy = gen[g].unhealthy
      BY <1>0 DEF GenRecord, CloseBrowser
    <3>2. gen' = [gen EXCEPT ![g] = y]
          /\ UNCHANGED <<current, launch, render, sequence, stop>>
      BY <1>0, <1>1, <2>3 DEF Launched
    <3>. HIDE DEF y
    <3>3. Flags(y)
      BY <1>0, <2>1, <2>3, <3>1 DEF Flags
    <3>4. render' \in [Renders -> RenderRecord] /\ \A h : Inside(h)' = Inside(h)
      BY <1>0, <3>2 DEF Inside
    <3>. QED
      BY <1>0, <2>1, <2>3, <3>1, <3>2, <3>3, <3>4, GenerationChanges
  <2>. QED
    BY <2>2, <2>3
<1>2. CASE LaunchFails(g)
  <2>. DEFINE y == [gen[g] EXCEPT !.browser = "gone"]
  <2>1. launch = g /\ current = NoGeneration /\ gen[g].browser = "launching"
    BY <1>0, <1>2 DEF LaunchFails
  <2>2. /\ y \in GenRecord /\ y.browser = "gone"
        /\ y.contexts = gen[g].contexts /\ y.unhealthy = gen[g].unhealthy
        /\ y.drain = gen[g].drain /\ y.ending = gen[g].ending
        /\ y.asked = gen[g].asked /\ y.closed = gen[g].closed
        /\ y.drained = gen[g].drained
    BY <1>0 DEF GenRecord
  <2>3. gen' = [gen EXCEPT ![g] = y] /\ launch' = NoGeneration
        /\ TellWaiting(g, "done") /\ UNCHANGED <<current, sequence, stop>>
    BY <1>0, <1>2 DEF LaunchFails
  <2>. HIDE DEF y
  <2>4. Flags(y)
    BY <1>0, <2>1, <2>2 DEF Flags
  <2>5. render' \in [Renders -> RenderRecord] /\ \A h : Inside(h)' = Inside(h)
    BY <1>0, <2>3, TellingKeeps
  <2>. QED
    BY <1>0, <2>1, <2>2, <2>3, <2>4, <2>5, GenerationChanges
<1>3. CASE Disconnected(g)
  <2>. DEFINE y == [gen[g] EXCEPT !.browser = "gone", !.listed = FALSE]
  <2>1. gen[g].browser = "up"
    BY <1>3 DEF Disconnected
  <2>2. /\ y \in GenRecord /\ y.browser = "gone"
        /\ y.contexts = gen[g].contexts /\ y.unhealthy = gen[g].unhealthy
        /\ y.drain = gen[g].drain /\ y.ending = gen[g].ending
        /\ y.asked = gen[g].asked /\ y.closed = gen[g].closed
        /\ y.drained = gen[g].drained
    BY <1>0 DEF GenRecord
  <2>3. gen' = [gen EXCEPT ![g] = y]
        /\ current' = (IF current = g THEN NoGeneration ELSE current)
        /\ UNCHANGED <<render, launch, sequence, stop>>
    BY <1>0, <1>3 DEF Disconnected
  <2>. HIDE DEF y
  <2>4. Flags(y)
    BY <1>0, <2>1, <2>2 DEF Flags
  <2>5. render' \in [Renders -> RenderRecord] /\ \A h : Inside(h)' = Inside(h)
    BY <1>0, <2>3 DEF Inside
  <2>. QED
    BY <1>0, <2>1, <2>2, <2>3, <2>4, <2>5, GenerationChanges
<1>4. CASE BrowserEnds(g)
  <2>1. PICK b \in {gen[g].browser, "gone"} :
          /\ gen' = [gen EXCEPT ![g].ending = FALSE, ![g].listed = FALSE, ![g].browser = b]
          /\ current' = IF b = "gone" /\ current = g THEN NoGeneration ELSE current
    BY <1>4 DEF BrowserEnds
  <2>. DEFINE y == [gen[g] EXCEPT !.ending = FALSE, !.listed = FALSE, !.browser = b]
  <2>2. /\ y \in GenRecord /\ y.browser = b /\ ~y.ending
        /\ y.contexts = gen[g].contexts /\ y.unhealthy = gen[g].unhealthy
        /\ y.drain = gen[g].drain /\ y.asked = gen[g].asked
        /\ y.closed = gen[g].closed /\ y.drained = gen[g].drained
    BY <1>0 DEF GenRecord
  <2>3. gen' = [gen EXCEPT ![g] = y] /\ UNCHANGED <<sequence, stop>>
    BY <1>0, <1>4, <2>1 DEF BrowserEnds
  <2>4. gen[g].ending /\ gen[g].asked /\ gen[g].browser \in {"up", "gone"}
    BY <1>0, <1>4 DEF BrowserEnds, Flags, GenRecord
  <2>. HIDE DEF y
  <2>5. Flags(y)
    BY <1>0, <2>2, <2>4 DEF Flags
  <2>6. current # g
    BY <1>0, <2>4 DEF GenerationOK, Serves, Flags
  <2>7. /\ render' \in [Renders -> RenderRecord] /\ \A h : Inside(h)' = Inside(h)
        /\ launch' \in {launch, NoGeneration}
    <3>1. CASE launch = g
      BY <1>0, <1>4, <3>1, TellingKeeps DEF BrowserEnds
    <3>2. CASE launch # g
      BY <1>0, <1>4, <3>2 DEF BrowserEnds, Inside
    <3>. QED
      BY <3>1, <3>2
  <2>8. current' = current
    BY <2>1, <2>6
  <2>. QED
    BY <1>0, <2>2, <2>3, <2>4, <2>5, <2>6, <2>7, <2>8, GenerationChanges
<1>5. CASE DrainTimer(g)
  <2>. DEFINE z == TriggerClose(gen[g])
              y == [z EXCEPT !.drained = TRUE, !.drain = FALSE]
  <2>1. gen[g].drain /\ gen[g].unhealthy /\ gen[g].browser \in {"up", "gone"}
    BY <1>0, <1>5 DEF DrainTimer, Flags, GenRecord
  <2>2. /\ z \in GenRecord /\ z.asked
        /\ z.browser = gen[g].browser /\ z.contexts = gen[g].contexts
        /\ z.unhealthy = gen[g].unhealthy
    BY <1>0, TriggerCloseFacts DEF Flags
  <2>3. gen' = [gen EXCEPT ![g] = y] /\ UNCHANGED <<render, current, launch, sequence, stop>>
    BY <1>0, <1>5 DEF DrainTimer
  <2>4. /\ y \in GenRecord /\ y.asked /\ y.drained /\ ~y.drain
        /\ y.browser = gen[g].browser /\ y.contexts = gen[g].contexts
        /\ y.unhealthy = gen[g].unhealthy
    <3>. HIDE DEF z
    <3>. QED
      BY <2>2 DEF GenRecord
  <2>. HIDE DEF y, z
  <2>5. Flags(y)
    BY <2>1, <2>4 DEF Flags
  <2>6. current # g
    BY <1>0, <2>1 DEF GenerationOK, Serves
  <2>7. render' \in [Renders -> RenderRecord] /\ \A h : Inside(h)' = Inside(h)
    BY <1>0, <2>3 DEF Inside
  <2>. QED
    BY <1>0, <2>1, <2>3, <2>4, <2>5, <2>6, <2>7, GenerationChanges
<1>. QED
  BY <1>1, <1>2, <1>3, <1>4, <1>5

(* The worker stops: what is on the list is told to close now, or once the *)
(* launch has ended.                                                       *)
LEMMA StoppingKeeps ==
  ASSUME RendererInv, Destroy \/ DestroyGoesOn
  PROVE  RendererInv'
<1>1. /\ current' = NoGeneration /\ UNCHANGED <<render, launch, sequence>>
      /\ stop' \in {"launch", "browsers"}
      /\ \/ CloseListed /\ stop' = "browsers"
         \/ /\ stop' = "launch" /\ stop = "no"
            /\ gen' = [g \in Generations |->
                 IF gen[g].listed THEN [gen[g] EXCEPT !.drain = FALSE] ELSE gen[g]]
  <2>1. CASE Destroy
    BY <2>1 DEF Destroy
  <2>2. CASE DestroyGoesOn
    <3>1. current = NoGeneration
      BY <2>2 DEF DestroyGoesOn, RendererInv, GenerationOK, Serves
    <3>. QED
      BY <2>2, <3>1 DEF DestroyGoesOn
  <2>. QED
    BY <2>1, <2>2
<1>2. \A h : Inside(h)' = Inside(h)
  BY <1>1 DEF Inside
<1>3. ASSUME NEW h \in Generations
      PROVE  /\ gen'[h] \in GenRecord /\ GenerationOK(h)'
             /\ gen'[h].contexts = Cardinality(Inside(h)')
  <2>1. /\ GenerationOK(h) /\ gen[h] \in GenRecord /\ h # NoGeneration
        /\ gen[h].contexts = Cardinality(Inside(h))
    BY GenerationsAreNumbers DEF RendererInv
  <2>2. /\ gen'[h] \in GenRecord
        /\ gen'[h].browser = gen[h].browser /\ gen'[h].contexts = gen[h].contexts
        /\ gen'[h].unhealthy = gen[h].unhealthy /\ gen'[h].closed = gen[h].closed
        /\ gen[h].asked => gen'[h].asked
        /\ gen'[h].drain => gen[h].drain
        /\ gen'[h].ending => gen[h].ending \/ gen'[h].asked
        /\ gen'[h].asked => gen[h].asked \/ gen[h].listed
        /\ ~gen[h].listed => gen'[h] = gen[h]
        /\ gen[h].listed => gen'[h].asked \/ (stop' = "launch" /\ gen'[h].listed)
    <3>1. CASE ~gen[h].listed
      BY <1>1, <2>1, <3>1 DEF CloseListed
    <3>2. CASE gen[h].listed /\ stop' = "browsers"
      <4>1. gen'[h] = [[gen[h] EXCEPT !.asked = TRUE, !.ending = TRUE]
                          EXCEPT !.listed = FALSE, !.drain = FALSE]
        BY <1>1, <3>2 DEF CloseListed, CloseBrowser
      <4>. QED
        BY <2>1, <3>2, <4>1, ZenonT(60) DEF GenRecord
    <3>3. CASE gen[h].listed /\ stop' = "launch"
      <4>1. gen'[h] = [gen[h] EXCEPT !.drain = FALSE]
        BY <1>1, <3>3
      <4>. QED
        BY <2>1, <3>3, <4>1 DEF GenRecord
    <3>. QED
      BY <1>1, <3>1, <3>2, <3>3
  <2>3. gen[h].listed => gen[h].browser \notin {"none", "launching"}
    BY <2>1 DEF GenerationOK, Flags
  <2>4. stop' # "no"
    BY <1>1
  <2>5. Flags(gen[h])'
    BY <2>1, <2>2, <2>3, <2>4 DEF GenerationOK, Flags
  <2>6. AccountedFor(h)'
    BY <1>1, <2>1, <2>2 DEF GenerationOK, AccountedFor, Serves
  <2>7. h # current' /\ (h > sequence' => gen'[h].browser = "none")
    BY <1>1, <2>1, <2>2 DEF GenerationOK
  <2>. QED
    BY <1>2, <2>1, <2>2, <2>5, <2>6, <2>7 DEF GenerationOK
<1>4. gen' \in [Generations -> GenRecord]
  BY <1>1, <1>3 DEF CloseListed
<1>. QED
  BY <1>1, <1>2, <1>3, <1>4 DEF RendererInv

(* The invariant holds of a renderer nobody has asked anything.            *)
LEMMA RendererInitInv == RendererInit => RendererInv
<1>. SUFFICES ASSUME RendererInit PROVE RendererInv
  OBVIOUS
<1>1. \A g : Inside(g) = {}
  BY DEF RendererInit, Inside, InsidePCs
<1>2. Cardinality({}) = 0
  BY FS_EmptySet
<1>3. \A g \in Generations : g # NoGeneration
  BY GenerationsAreNumbers
<1>4. /\ render \in [Renders -> RenderRecord]
      /\ gen \in [Generations -> GenRecord]
  BY DEF RendererInit, RenderRecord, RenderPCs, GenRecord, NoGeneration
<1>5. \A g \in Generations : GenerationOK(g)
  BY <1>3 DEF RendererInit, GenerationOK, Flags, AccountedFor
<1>. QED
  BY <1>1, <1>2, <1>4, <1>5 DEF RendererInit, RendererInv, NoGeneration

LEMMA RendererNextInv == RendererInv /\ [RendererNext]_renderVars => RendererInv'
<1>. SUFFICES ASSUME RendererInv, [RendererNext]_renderVars PROVE RendererInv'
  OBVIOUS
<1>1. CASE Destroy \/ DestroyGoesOn
  BY <1>1, StoppingKeeps
<1>2. ASSUME NEW g \in Generations,
             \/ Launched(g) \/ LaunchFails(g) \/ Disconnected(g)
             \/ BrowserEnds(g) \/ DrainTimer(g)
      PROVE  RendererInv'
  BY <1>2, BrowserKeeps
<1>3. ASSUME NEW r \in Renders,
             \/ StartRender(r) \/ StopWaiting(r) \/ Admit(r) \/ Setup(r)
             \/ SettleRender(r) \/ ContextCloses(r) \/ CloseTimesOut(r)
      PROVE  RendererInv'
  BY <1>3, RenderKeeps
<1>4. CASE UNCHANGED renderVars
  <2>1. UNCHANGED <<render, gen, current, launch, sequence, stop>>
    BY <1>4 DEF renderVars
  <2>2. render' \in [Renders -> RenderRecord] /\ \A h : Inside(h)' = Inside(h)
    BY <2>1 DEF RendererInv, Inside
  <2>. QED
    BY <2>1, <2>2, RenderMoves
<1>. QED
  BY <1>1, <1>2, <1>3, <1>4 DEF RendererNext

(* However many renders share it and whatever becomes of their contexts,   *)
(* no browser is left running that nothing will close, the renders in one  *)
(* are counted, and none is closed under a render before its drain timer   *)
(* or the stop: getHealthyGeneration, quarantineGeneration and             *)
(* decrementActiveContexts of the renderer.                                *)
THEOREM BrowsersStayAccountedFor == RendererSpec => []BrowsersAreAccountedFor
<1>1. RendererInv => BrowsersAreAccountedFor
  BY DEF RendererInv, GenerationOK, Flags, AccountedFor, BrowsersAreAccountedFor,
         Inside, InsidePCs
<1>. QED
  BY <1>1, RendererInitInv, RendererNextInv, PTL DEF RendererSpec

(* The attempts that have begun: each launches one browser at most.        *)
Admissions == Renders \X (0..(MaxAdmissions - 1))
Begun == {x \in Admissions : ~RenderAt(x[1], "new") /\ x[2] <= render[x[1]].attempts}

\* A generation that is awaited or entered is one of those the model has.
GenerationsSuffice ==
  /\ \A r \in Renders : /\ render[r].gen \in Generations \cup {NoGeneration}
                        /\ render[r].attempts < MaxAdmissions
  /\ launch \in Generations \cup {NoGeneration}
  /\ sequence <= Cardinality(Begun)

(* The attempts are as many as the generations.                            *)
LEMMA AdmissionsAreCounted ==
  ASSUME NEW S \in SUBSET Admissions
  PROVE  /\ IsFiniteSet(S) /\ Cardinality(S) \in Nat
         /\ Cardinality(S) <= Cardinality(Renders) * MaxAdmissions
         /\ Cardinality(Renders) * MaxAdmissions \in Nat
<1>1. MaxAdmissions \in Nat \ {0} /\ IsFiniteSet(Renders) /\ Cardinality(Renders) \in Nat
  BY RendererAssumption, FS_CardinalityType
<1>2. IsFiniteSet(0..(MaxAdmissions - 1)) /\ Cardinality(0..(MaxAdmissions - 1)) = MaxAdmissions
  BY <1>1, FS_Interval
<1>3. /\ IsFiniteSet(Admissions)
      /\ Cardinality(Admissions) = Cardinality(Renders) * MaxAdmissions
  BY <1>1, <1>2, FS_Product DEF Admissions
<1>4. IsFiniteSet(S) /\ Cardinality(S) <= Cardinality(Admissions)
  BY <1>3, FS_Subset
<1>. QED
  BY <1>3, <1>4, FS_CardinalityType

(* A step that begins no attempt.                                          *)
LEMMA NoneBegins ==
  ASSUME RendererInv, GenerationsSuffice,
         \A q \in Renders : /\ render'[q].gen = render[q].gen
                            /\ render'[q].attempts = render[q].attempts
                            /\ render[q].pc # "new" => render'[q].pc # "new",
         launch' \in {launch, NoGeneration}, sequence' = sequence
  PROVE  GenerationsSuffice'
<1>1. Begun \subseteq Begun'
  BY DEF Begun, Admissions, RenderAt
<1>2. IsFiniteSet(Begun') /\ Cardinality(Begun) \in Nat /\ Cardinality(Begun') \in Nat
  BY AdmissionsAreCounted DEF Begun
<1>3. Cardinality(Begun) <= Cardinality(Begun')
  BY <1>1, <1>2, FS_Subset
<1>4. sequence' <= Cardinality(Begun')
  BY <1>2, <1>3 DEF GenerationsSuffice, RendererInv
<1>. QED
  BY <1>4 DEF GenerationsSuffice

(* A render whose pc alone changes.                                        *)
LEMMA OneMoves ==
  ASSUME RendererInv, GenerationsSuffice, NEW r \in Renders, NEW pc, pc # "new",
         render' = [render EXCEPT ![r].pc = pc],
         launch' \in {launch, NoGeneration}, sequence' = sequence
  PROVE  GenerationsSuffice'
<1>1. \A q \in Renders : /\ render'[q].gen = render[q].gen
                         /\ render'[q].attempts = render[q].attempts
                         /\ render[q].pc # "new" => render'[q].pc # "new"
  BY DEF RendererInv, RenderRecord
<1>. QED
  BY <1>1, NoneBegins

(* Those who wait for a launch are told of it.                             *)
LEMMA AllAreTold ==
  ASSUME RendererInv, GenerationsSuffice, NEW g, NEW pc, pc # "new", TellWaiting(g, pc),
         launch' \in {launch, NoGeneration}, sequence' = sequence
  PROVE  GenerationsSuffice'
<1>1. \A q \in Renders : /\ render'[q].gen = render[q].gen
                         /\ render'[q].attempts = render[q].attempts
                         /\ render[q].pc # "new" => render'[q].pc # "new"
  BY DEF RendererInv, RenderRecord, TellWaiting
<1>. QED
  BY <1>1, NoneBegins

(* An attempt begins, which may launch a browser.                          *)
LEMMA OneBegins ==
  ASSUME RendererInv, GenerationsSuffice, NEW r \in Renders,
         NEW attempts \in 0..(MaxAdmissions - 1),
         \/ render[r].pc = "new"
         \/ render[r].pc # "new" /\ attempts = render[r].attempts + 1,
         AcquireGeneration(r, attempts), UNCHANGED <<current, stop>>
  PROVE  GenerationsSuffice'
<1>1. /\ attempts \in Nat /\ attempts < MaxAdmissions /\ MaxAdmissions \in Nat
      /\ render \in [Renders -> RenderRecord] /\ sequence \in Nat
  BY RendererAssumption DEF RendererInv
<1>. DEFINE Kept(g, pc) ==
       /\ render' = [render EXCEPT ![r] = [pc |-> pc, gen |-> g, attempts |-> attempts]]
       /\ \/ g \in {current, launch} /\ launch' = launch /\ sequence' = sequence
          \/ g = sequence + 1 /\ launch' = sequence + 1 /\ sequence' = sequence + 1
<1>2. \E g : \E pc \in {"acquired", "waiting"} : Kept(g, pc)
  <2>1. Kept(current, "acquired") \/ Kept(launch, "waiting") \/ Kept(sequence + 1, "waiting")
    BY DEF AcquireGeneration
  <2>. HIDE DEF Kept
  <2>. QED
    BY <2>1
<1>3. PICK g : \E pc \in {"acquired", "waiting"} : Kept(g, pc)
  BY <1>2
<1>4. PICK pc \in {"acquired", "waiting"} : Kept(g, pc)
  BY <1>3
<1>5. /\ render'[r].gen = g /\ render'[r].attempts = attempts /\ render'[r].pc = pc
      /\ \A q \in Renders \ {r} : render'[q] = render[q]
  BY <1>1, <1>4
<1>6. Begun \cup {<<r, attempts>>} \subseteq Begun'
  <2>1. <<r, attempts>> \in Begun'
    BY <1>1, <1>5 DEF Begun, Admissions, RenderAt
  <2>2. ASSUME NEW x \in Begun PROVE x \in Begun'
    <3>1. /\ x \in Admissions /\ x[1] \in Renders /\ x[2] \in Nat
          /\ render[x[1]].pc # "new" /\ x[2] <= render[x[1]].attempts
      BY <1>1 DEF Begun, Admissions, RenderAt
    <3>2. CASE x[1] = r
      <4>1. render[r].attempts \in Nat
        BY <1>1 DEF RenderRecord
      <4>2. x[2] <= attempts
        BY <1>1, <3>1, <3>2, <4>1
      <4>. QED
        BY <1>5, <3>1, <3>2, <4>2 DEF Begun, RenderAt
    <3>3. CASE x[1] # r
      BY <1>5, <3>1, <3>3 DEF Begun, RenderAt
    <3>. QED
      BY <3>2, <3>3
  <2>. QED
    BY <2>1, <2>2
<1>7. <<r, attempts>> \notin Begun
  <2>1. render[r].attempts \in Nat
    BY <1>1 DEF RenderRecord
  <2>2. render[r].pc # "new" => ~(attempts <= render[r].attempts)
    BY <1>1, <2>1
  <2>. QED
    BY <2>2 DEF Begun, RenderAt
<1>8. /\ IsFiniteSet(Begun) /\ Cardinality(Begun) \in Nat
      /\ IsFiniteSet(Begun') /\ Cardinality(Begun') \in Nat
      /\ Cardinality(Begun') <= Cardinality(Renders) * MaxAdmissions
      /\ Cardinality(Renders) * MaxAdmissions \in Nat
  BY AdmissionsAreCounted DEF Begun
<1>9. Cardinality(Begun) + 1 <= Cardinality(Begun')
  <2>1. Cardinality(Begun \cup {<<r, attempts>>}) = Cardinality(Begun) + 1
    BY <1>7, <1>8, FS_AddElement
  <2>2. Cardinality(Begun \cup {<<r, attempts>>}) <= Cardinality(Begun')
    BY <1>6, <1>8, FS_Subset
  <2>. QED
    BY <2>1, <2>2
<1>10. sequence + 1 <= Cardinality(Begun')
  BY <1>1, <1>8, <1>9 DEF GenerationsSuffice
<1>11. sequence + 1 \in Generations
  <2>. DEFINE n == Cardinality(Renders) * MaxAdmissions
  <2>1. n \in Nat /\ sequence + 1 <= n
    <3>. DEFINE c == Cardinality(Begun')
    <3>1. c \in Nat /\ c <= n /\ n \in Nat /\ sequence + 1 <= c
      BY <1>8, <1>10
    <3>. HIDE DEF c, n
    <3>. QED
      BY <1>1, <3>1
  <2>2. Generations = 1..n
    BY DEF Generations
  <2>. HIDE DEF n
  <2>. QED
    BY <1>1, <2>1, <2>2
<1>12. launch' \in Generations \cup {NoGeneration} /\ g \in Generations \cup {NoGeneration}
  BY <1>4, <1>11 DEF GenerationsSuffice, RendererInv
<1>13. sequence' <= Cardinality(Begun')
  BY <1>1, <1>4, <1>8, <1>10
<1>14. \A q \in Renders : /\ render'[q].gen \in Generations \cup {NoGeneration}
                          /\ render'[q].attempts < MaxAdmissions
  BY <1>1, <1>5, <1>12 DEF GenerationsSuffice
<1>. QED
  BY <1>12, <1>13, <1>14 DEF GenerationsSuffice

LEMMA GenerationsSufficeStep ==
  RendererInv /\ GenerationsSuffice /\ [RendererNext]_renderVars => GenerationsSuffice'
<1>. SUFFICES ASSUME RendererInv, GenerationsSuffice, [RendererNext]_renderVars
              PROVE  GenerationsSuffice'
  OBVIOUS
<1>1. ASSUME UNCHANGED <<render, sequence>>, launch' \in {launch, NoGeneration}
      PROVE  GenerationsSuffice'
  BY <1>1, NoneBegins
<1>2. CASE Destroy \/ DestroyGoesOn \/ UNCHANGED renderVars
  BY <1>1, <1>2 DEF Destroy, DestroyGoesOn, renderVars
<1>3. ASSUME NEW g \in Generations,
             \/ Launched(g) \/ LaunchFails(g) \/ Disconnected(g)
             \/ BrowserEnds(g) \/ DrainTimer(g)
      PROVE  GenerationsSuffice'
  <2>1. CASE UNCHANGED render
    BY <1>1, <1>3, <2>1
       DEF Launched, LaunchFails, Disconnected, BrowserEnds, DrainTimer
  <2>2. CASE ~UNCHANGED render
    <3>1. PICK pc \in {"acquired", "done"} : TellWaiting(g, pc)
      BY <1>3, <2>2 DEF Launched, LaunchFails, Disconnected, BrowserEnds, DrainTimer
    <3>2. launch' \in {launch, NoGeneration} /\ sequence' = sequence
      BY <1>3 DEF Launched, LaunchFails, Disconnected, BrowserEnds, DrainTimer
    <3>. QED
      BY <3>1, <3>2, AllAreTold
  <2>. QED
    BY <2>1, <2>2
<1>4. ASSUME NEW r \in Renders, NEW pc \in RenderPCs \ {"new"},
             render' = [render EXCEPT ![r].pc = pc], UNCHANGED <<launch, sequence>>
      PROVE  GenerationsSuffice'
  BY <1>4, OneMoves
<1>5. ASSUME NEW r \in Renders, StartRender(r) PROVE GenerationsSuffice'
  <2>1. 0 \in 0..(MaxAdmissions - 1)
    BY RendererAssumption
  <2>2. CASE AcquireGeneration(r, 0)
    BY <1>5, <2>1, <2>2, OneBegins DEF StartRender, RenderAt
  <2>. QED
    BY <1>4, <1>5, <2>2 DEF StartRender, RefuseRender, EndsRender, RenderPCs
<1>6. ASSUME NEW r \in Renders, Admit(r) PROVE GenerationsSuffice'
  <2>1. CASE /\ render[r].attempts + 1 < MaxAdmissions
             /\ AcquireGeneration(r, render[r].attempts + 1)
    <3>1. render[r].attempts + 1 \in 0..(MaxAdmissions - 1)
      BY <2>1, RendererAssumption DEF RendererInv, RenderRecord
    <3>2. render[r].pc # "new" /\ UNCHANGED <<current, stop>>
      BY <1>6 DEF Admit, RenderAt
    <3>. QED
      BY <2>1, <3>1, <3>2, OneBegins
  <2>. QED
    BY <1>4, <1>6, <2>1 DEF Admit, RefuseRender, EndsRender, RenderPCs
<1>7. ASSUME NEW r \in Renders,
             \/ StopWaiting(r) \/ Setup(r) \/ SettleRender(r)
             \/ ContextCloses(r) \/ CloseTimesOut(r)
      PROVE  GenerationsSuffice'
  BY <1>4, <1>7
     DEF StopWaiting, Setup, ContextOpens, ContextFails, PageOpens, SettleRender,
         ContextCloses, CloseTimesOut, EndRender, RenderGoes, EndsRender, RenderPCs
<1>. QED
  BY <1>2, <1>3, <1>5, <1>6, <1>7 DEF RendererNext

(* The variables of the renderer have their types; that every launch has a *)
(* generation of the model is so because an attempt launches once, and a   *)
(* render tries MaxAdmissions times.                                       *)
THEOREM RendererTypeCorrect == RendererSpec => []RendererTypeOK
<1>1. RendererInit => GenerationsSuffice
  <2>. SUFFICES ASSUME RendererInit PROVE GenerationsSuffice
    OBVIOUS
  <2>1. \A r \in Renders : render[r].gen = NoGeneration /\ render[r].attempts = 0
    BY DEF RendererInit
  <2>2. 0 <= Cardinality(Begun)
    BY AdmissionsAreCounted DEF Begun
  <2>. QED
    BY <2>1, <2>2, RendererAssumption DEF RendererInit, GenerationsSuffice
<1>2. RendererInv /\ GenerationsSuffice => RendererTypeOK
  <2>. SUFFICES ASSUME RendererInv, GenerationsSuffice PROVE RendererTypeOK
    OBVIOUS
  <2>1. ASSUME NEW r \in Renders
        PROVE  render[r] \in [pc : RenderPCs, gen : Generations \cup {NoGeneration},
                              attempts : 0..MaxAdmissions]
    BY RendererAssumption DEF RendererInv, RenderRecord, GenerationsSuffice
  <2>2. sequence \in 0..Cardinality(Generations)
    <3>. DEFINE n == Cardinality(Renders) * MaxAdmissions
                c == Cardinality(Begun)
    <3>1. c \in Nat /\ c <= n /\ n \in Nat /\ sequence <= c /\ sequence \in Nat
      BY AdmissionsAreCounted DEF Begun, GenerationsSuffice, RendererInv
    <3>2. Generations = 1..n
      BY DEF Generations
    <3>. HIDE DEF n, c
    <3>3. Cardinality(Generations) = n
      BY <3>1, <3>2, FS_Interval
    <3>. QED
      BY <3>1, <3>3
  <2>. QED
    BY <2>1, <2>2 DEF RendererInv, RendererTypeOK, GenRecord, GenerationsSuffice
<1>. QED
  BY <1>1, <1>2, RendererInitInv, RendererNextInv, GenerationsSufficeStep, PTL
     DEF RendererSpec

-----------------------------------------------------------------------------
(* Stages and their permits *)

\* How far a stage has come.
Course(s) ==
  /\ state[s] = "NEW" => engine[s] = "none" /\ result[s] = "none"
  /\ state[s] = "PENDING" =>
       engine[s] \in {"waiting", "running"} /\ result[s] = "none"
  /\ state[s] \in {"SUCCEEDED", "FAILED"} =>
       engine[s] = "settled" /\ result[s] # "none"
  /\ state[s] = "TIMED_OUT" =>
       \/ engine[s] = "running" /\ result[s] = "none"
       \/ engine[s] = "settled" /\ result[s] # "none"
  /\ state[s] = "CLEANUP_OVERRUN" =>
       engine[s] \in {"running", "settled"} /\ result[s] # "none"

StagesInv ==
  /\ StagesTypeOK
  /\ \A s \in Stages : Course(s)
  /\ PermitsAreConserved
  /\ NoIdlePermit
  /\ OverrunsAreVisible

(* The holders are finitely many, as the stages are.                         *)
LEMMA HoldersFinite == IsFiniteSet(Holders) /\ Cardinality(Holders) \in Nat
BY StagesAssumption, FS_Subset, FS_CardinalityType DEF Holders

(* Taking one waiter out of line keeps the others, in order and once each.   *)
LEMMA WithoutOne ==
  ASSUME NEW q \in Seq(Stages), NEW i \in 1..Len(q),
         \A j, k \in 1..Len(q) : q[j] = q[k] => j = k
  PROVE  /\ Without(q, i) \in Seq(Stages)
         /\ Len(Without(q, i)) = Len(q) - 1
         /\ \A j, k \in 1..Len(Without(q, i)) :
              Without(q, i)[j] = Without(q, i)[k] => j = k
         /\ \A s \in Stages :
              (\E j \in 1..Len(Without(q, i)) : Without(q, i)[j] = s)
                <=> (s # q[i] /\ \E j \in 1..Len(q) : q[j] = s)
<1> DEFINE w == Without(q, i)
<1>1. Len(q) \in Nat \ {0} /\ \A j \in 1..Len(q) : q[j] \in Stages
  OBVIOUS
<1>2. w \in Seq(Stages) /\ Len(w) = Len(q) - 1
  BY <1>1 DEF Without
<1>3. \A j \in 1..Len(w) : w[j] = IF j < i THEN q[j] ELSE q[j + 1]
  BY <1>1, <1>2 DEF Without
<1> HIDE DEF w
<1>4. \A j, k \in 1..Len(w) : w[j] = w[k] => j = k
  <2> SUFFICES ASSUME NEW j \in 1..Len(w), NEW k \in 1..Len(w), w[j] = w[k]
               PROVE  j = k
    OBVIOUS
  <2> DEFINE up(n) == IF n < i THEN n ELSE n + 1
  <2>1. up(j) \in 1..Len(q) /\ up(k) \in 1..Len(q)
    BY <1>1, <1>2
  <2>2. q[up(j)] = q[up(k)]
    BY <1>3
  <2>3. up(j) = up(k)
    BY <2>1, <2>2
  <2> QED
    BY <2>3, <1>1, <1>2
<1>5. ASSUME NEW s \in Stages
      PROVE  (\E j \in 1..Len(w) : w[j] = s)
               <=> (s # q[i] /\ \E j \in 1..Len(q) : q[j] = s)
  <2>1. ASSUME NEW j \in 1..Len(w), w[j] = s
        PROVE  s # q[i] /\ \E k \in 1..Len(q) : q[k] = s
    <3>1. CASE j < i
      BY <1>1, <1>2, <1>3, <2>1, <3>1
    <3>2. CASE ~(j < i)
      <4>1. j + 1 \in 1..Len(q) /\ j + 1 # i /\ q[j + 1] = s
        BY <1>1, <1>2, <1>3, <2>1, <3>2
      <4> QED
        BY <4>1
    <3> QED
      BY <3>1, <3>2
  <2>2. ASSUME s # q[i], NEW j \in 1..Len(q), q[j] = s
        PROVE  \E k \in 1..Len(w) : w[k] = s
    <3>1. CASE j < i
      <4>1. j \in 1..Len(w) /\ w[j] = s
        BY <1>1, <1>2, <1>3, <2>2, <3>1
      <4> QED
        BY <4>1
    <3>2. CASE ~(j < i)
      <4>1. j # i
        BY <2>2
      <4>2. j - 1 \in 1..Len(w) /\ w[j - 1] = s
        BY <1>1, <1>2, <1>3, <2>2, <3>2, <4>1
      <4> QED
        BY <4>2
    <3> QED
      BY <3>1, <3>2
  <2> QED
    BY <2>1, <2>2
<1> QED
  BY <1>2, <1>4, <1>5 DEF w

(* The first in line is one stage that waits, and the rest stay in line.     *)
LEMMA FirstInLine ==
  ASSUME StagesInv, queue # <<>>
  PROVE  /\ Head(queue) \in Stages /\ engine[Head(queue)] = "waiting"
         /\ Tail(queue) \in Seq(Stages)
         /\ \A j, k \in 1..Len(Tail(queue)) :
              Tail(queue)[j] = Tail(queue)[k] => j = k
         /\ \A s \in Stages :
              (\E j \in 1..Len(Tail(queue)) : Tail(queue)[j] = s)
                <=> (engine[s] = "waiting" /\ s # Head(queue))
<1>1. queue \in Seq(Stages) /\ Len(queue) \in Nat \ {0}
  BY DEF StagesInv, StagesTypeOK
<1>2. /\ Head(queue) = queue[1] /\ queue[1] \in Stages
      /\ Tail(queue) \in Seq(Stages) /\ Len(Tail(queue)) = Len(queue) - 1
      /\ \A j \in 1..Len(Tail(queue)) : Tail(queue)[j] = queue[j + 1]
  BY <1>1
<1>3. \A j, k \in 1..Len(queue) : queue[j] = queue[k] => j = k
  BY DEF StagesInv, NoIdlePermit
<1>4. \A s \in Stages :
        engine[s] = "waiting" <=> \E j \in 1..Len(queue) : queue[j] = s
  BY DEF StagesInv, NoIdlePermit
<1>5. engine[Head(queue)] = "waiting"
  BY <1>1, <1>2, <1>4
<1>6. \A j, k \in 1..Len(Tail(queue)) :
        Tail(queue)[j] = Tail(queue)[k] => j = k
  <2> SUFFICES ASSUME NEW j \in 1..Len(Tail(queue)), NEW k \in 1..Len(Tail(queue)),
                      Tail(queue)[j] = Tail(queue)[k]
               PROVE  j = k
    OBVIOUS
  <2>1. j + 1 \in 1..Len(queue) /\ k + 1 \in 1..Len(queue)
    BY <1>1, <1>2
  <2> QED
    BY <1>2, <1>3, <2>1
<1>7. ASSUME NEW s \in Stages
      PROVE  (\E j \in 1..Len(Tail(queue)) : Tail(queue)[j] = s)
                <=> (engine[s] = "waiting" /\ s # Head(queue))
  <2>1. ASSUME NEW j \in 1..Len(Tail(queue)), Tail(queue)[j] = s
        PROVE  engine[s] = "waiting" /\ s # Head(queue)
    <3>1. j + 1 \in 1..Len(queue) /\ queue[j + 1] = s /\ j + 1 # 1
      BY <1>1, <1>2, <2>1
    <3> QED
      BY <1>1, <1>2, <1>3, <1>4, <3>1
  <2>2. ASSUME engine[s] = "waiting", s # Head(queue)
        PROVE  \E j \in 1..Len(Tail(queue)) : Tail(queue)[j] = s
    <3>1. PICK j \in 1..Len(queue) : queue[j] = s
      BY <1>4, <2>2
    <3>2. j - 1 \in 1..Len(Tail(queue)) /\ Tail(queue)[j - 1] = s
      BY <1>1, <1>2, <2>2, <3>1
    <3> QED
      BY <3>2
  <2> QED
    BY <2>1, <2>2
<1> QED
  BY <1>2, <1>5, <1>6, <1>7

(* At the start every permit is free and nobody waits.                       *)
LEMMA StagesInitial == StagesInit => StagesInv
<1> SUFFICES ASSUME StagesInit PROVE StagesInv
  OBVIOUS
<1>1. Holders = {} /\ Cardinality(Holders) = 0
  BY FS_EmptySet DEF StagesInit, Holders
<1> QED
  BY <1>1, StagesAssumption
  DEF StagesInit, StagesInv, StagesTypeOK, Course, PermitsAreConserved,
      NoIdlePermit, OverrunsAreVisible, States, Engines, Results

(* AsyncSemaphore.releaseOne: the permit of an engine that settles goes back *)
(* or to the first in line, and its stage keeps whatever it answered.        *)
LEMMA SettleKeeps ==
  ASSUME StagesInv, NEW s \in Stages, engine[s] = "running", Settle(s)
  PROVE  /\ available' \in 0..Capacity /\ queue' \in Seq(Stages)
         /\ engine' \in [Stages -> Engines] /\ permit' \in [Stages -> BOOLEAN]
         /\ PermitsAreConserved' /\ NoIdlePermit'
         /\ engine'[s] = "settled"
         /\ \A t \in Stages \ {s} :
              \/ engine'[t] = engine[t]
              \/ engine[t] = "waiting" /\ engine'[t] = "running"
<1> DEFINE H == Holders
           G == Holders'
<1>1. /\ IsFiniteSet(H) /\ Cardinality(H) \in Nat /\ s \in H
      /\ available + Cardinality(H) = Capacity
  BY HoldersFinite DEF StagesInv, PermitsAreConserved
<1>2. /\ \A t \in Stages : permit[t] <=> engine[t] = "running"
      /\ engine \in [Stages -> Engines] /\ permit \in [Stages -> BOOLEAN]
      /\ available \in 0..Capacity /\ Capacity \in Nat /\ queue \in Seq(Stages)
  BY StagesAssumption
  DEF StagesInv, StagesTypeOK, PermitsAreConserved, Holders
<1>3. CASE queue = <<>>
  <2>1. G = H \ {s}
    BY <1>2, <1>3 DEF Settle, Holders
  <2>2. Cardinality(G) = Cardinality(H) - 1
    <3> HIDE DEF H, G
    <3> QED
      BY <1>1, <2>1, FS_RemoveElement
  <2>3. available' + Cardinality(G) = Capacity /\ available' \in 0..Capacity
    <3>1. Cardinality(G) \in Nat
      <4> HIDE DEF H, G
      <4> QED
        BY <1>1, <2>1, FS_RemoveElement, FS_CardinalityType
    <3>2. available' = available + 1
      BY <1>3 DEF Settle
    <3> HIDE DEF H, G
    <3> QED
      BY <1>1, <1>2, <2>2, <3>1, <3>2
  <2>4. /\ engine' = [engine EXCEPT ![s] = "settled"]
        /\ permit' = [permit EXCEPT ![s] = FALSE] /\ queue' = queue
    BY <1>3 DEF Settle
  <2>5. PermitsAreConserved'
    BY <1>2, <2>3, <2>4 DEF PermitsAreConserved, Holders
  <2>6. NoIdlePermit'
    BY <1>2, <1>3, <2>4 DEF StagesInv, NoIdlePermit, Engines
  <2> QED
    BY <1>2, <2>3, <2>4, <2>5, <2>6 DEF Engines
<1>4. CASE queue # <<>>
  <2> DEFINE h == Head(queue)
  <2>1. h \in Stages /\ engine[h] = "waiting" /\ h # s
    BY <1>4, FirstInLine
  <2>2. /\ engine' = [engine EXCEPT ![s] = "settled", ![h] = "running"]
        /\ permit' = [permit EXCEPT ![s] = FALSE, ![h] = TRUE]
        /\ queue' = Tail(queue) /\ available' = available
    BY <1>4 DEF Settle
  <2>3. h \notin H /\ G = (H \ {s}) \cup {h}
    BY <1>2, <2>1, <2>2 DEF Holders
  <2>4. Cardinality(G) = Cardinality(H)
    <3> HIDE DEF H, G, h
    <3>1. /\ IsFiniteSet(H \ {s}) /\ h \notin H \ {s}
          /\ Cardinality(H \ {s}) = Cardinality(H) - 1
      BY <1>1, <2>3, FS_RemoveElement
    <3>2. Cardinality((H \ {s}) \cup {h}) = Cardinality(H \ {s}) + 1
      BY <3>1, FS_AddElement
    <3> QED
      BY <1>1, <2>3, <3>1, <3>2
  <2>5. PermitsAreConserved'
    <3>1. available' + Cardinality(G) = Capacity
      <4> HIDE DEF H, G
      <4> QED
        BY <1>1, <2>2, <2>4
    <3>2. G = {t \in Stages : engine'[t] = "running"}
      BY <1>2, <2>1, <2>2 DEF Holders
    <3> QED
      BY <3>1, <3>2 DEF PermitsAreConserved
  <2>6. NoIdlePermit'
    <3>1. available = 0
      BY <1>4 DEF StagesInv, NoIdlePermit
    <3>2. \A t \in Stages :
            engine'[t] = "waiting" <=> engine[t] = "waiting" /\ t # h
      BY <1>2, <2>1, <2>2
    <3> HIDE DEF h
    <3> QED
      BY <1>4, <2>2, <3>1, <3>2, FirstInLine DEF h, NoIdlePermit
  <2>7. queue' \in Seq(Stages)
    BY <1>4, <2>2, FirstInLine
  <2>8. /\ engine' \in [Stages -> Engines] /\ permit' \in [Stages -> BOOLEAN]
        /\ engine'[s] = "settled"
    <3> HIDE DEF h
    <3> QED
      BY <1>2, <2>1, <2>2 DEF Engines
  <2>9. \A t \in Stages \ {s} :
          \/ engine'[t] = engine[t]
          \/ engine[t] = "waiting" /\ engine'[t] = "running"
    <3> HIDE DEF h
    <3> QED
      BY <1>2, <2>1, <2>2
  <2> QED
    BY <1>2, <2>2, <2>5, <2>6, <2>7, <2>8, <2>9
<1> QED
  BY <1>3, <1>4

(* Every step of a stage preserves the invariant.                            *)
LEMMA StageStepKeeps ==
  ASSUME StagesInv, NEW s \in Stages, Start(s) \/ Timers(s) \/ Settles(s)
  PROVE  StagesInv'
<1>0. /\ \A t \in Stages : permit[t] <=> engine[t] = "running"
      /\ \A t \in Stages : Course(t)
      /\ StagesTypeOK /\ OverrunsAreVisible /\ Capacity \in Nat
  BY StagesAssumption
  DEF StagesInv, StagesTypeOK, PermitsAreConserved, Holders
<1>1. CASE Start(s)
  <2>1. state[s] = "NEW" /\ engine[s] = "none" /\ result[s] = "none" /\ ~permit[s]
    BY <1>0, <1>1 DEF Start, Course
  <2>2. CASE available > 0
    <3> DEFINE H == Holders
               G == Holders'
    <3>1. /\ available' = available - 1 /\ queue' = queue
          /\ permit' = [permit EXCEPT ![s] = TRUE]
          /\ engine' = [engine EXCEPT ![s] = "running"]
          /\ state' = [state EXCEPT ![s] = "PENDING"]
          /\ UNCHANGED <<result, registry>>
      BY <1>1, <2>2 DEF Start
    <3>2. s \notin H /\ G = H \cup {s}
      BY <1>0, <2>1, <3>1 DEF Holders, StagesTypeOK
    <3>3. /\ IsFiniteSet(H) /\ Cardinality(H) \in Nat
          /\ available + Cardinality(H) = Capacity /\ available \in 0..Capacity
      BY HoldersFinite DEF StagesInv, PermitsAreConserved, StagesTypeOK
    <3>4. /\ available' + Cardinality(G) = Capacity
          /\ available' \in 0..Capacity
      <4> HIDE DEF H, G
      <4>1. Cardinality(G) = Cardinality(H) + 1
        BY <3>2, <3>3, FS_AddElement
      <4> QED
        BY <1>0, <2>2, <3>1, <3>3, <4>1
    <3>5. PermitsAreConserved'
      <4>1. G = {t \in Stages : engine'[t] = "running"}
        BY <1>0, <3>1 DEF Holders, StagesTypeOK
      <4> QED
        BY <3>4, <4>1 DEF PermitsAreConserved
    <3>6. NoIdlePermit'
      <4>1. queue = <<>>
        BY <2>2 DEF StagesInv, NoIdlePermit, StagesTypeOK
      <4> QED
        BY <1>0, <2>1, <3>1, <4>1 DEF StagesInv, NoIdlePermit, StagesTypeOK
    <3>7. StagesTypeOK'
      BY <1>0, <3>1, <3>4 DEF StagesTypeOK, States, Engines
    <3>8. (\A t \in Stages : Course(t))'
      BY <1>0, <2>1, <3>1 DEF StagesTypeOK, Course
    <3>9. OverrunsAreVisible'
      BY <1>0, <2>1, <3>1 DEF StagesTypeOK, OverrunsAreVisible
    <3> QED
      BY <3>5, <3>6, <3>7, <3>8, <3>9 DEF StagesInv
  <2>3. CASE ~(available > 0)
    <3>1. /\ available' = available /\ queue' = Append(queue, s)
          /\ permit' = permit
          /\ engine' = [engine EXCEPT ![s] = "waiting"]
          /\ state' = [state EXCEPT ![s] = "PENDING"]
          /\ UNCHANGED <<result, registry>>
      BY <1>1, <2>3 DEF Start
    <3>2. available = 0
      BY <1>0, <2>3 DEF StagesTypeOK
    <3>3. StagesTypeOK'
      BY <1>0, <3>1 DEF StagesTypeOK, States, Engines
    <3>4. PermitsAreConserved'
      <4>1. Holders' = Holders
        BY <3>1 DEF Holders
      <4>2. Holders' = {t \in Stages : engine'[t] = "running"}
        BY <1>0, <2>1, <3>1 DEF Holders, StagesTypeOK
      <4>3. available + Cardinality(Holders) = Capacity
        BY DEF StagesInv, PermitsAreConserved
      <4> QED
        BY <3>1, <4>1, <4>2, <4>3 DEF PermitsAreConserved
    <3>5. NoIdlePermit'
      <4>1. /\ queue \in Seq(Stages)
            /\ \A t \in Stages :
                 engine[t] = "waiting" <=> \E j \in 1..Len(queue) : queue[j] = t
            /\ \A j, k \in 1..Len(queue) : queue[j] = queue[k] => j = k
        BY DEF StagesInv, NoIdlePermit, StagesTypeOK
      <4>2. /\ Len(queue') = Len(queue) + 1 /\ queue'[Len(queue) + 1] = s
            /\ \A j \in 1..Len(queue) : queue'[j] = queue[j]
            /\ Len(queue) \in Nat
        BY <3>1, <4>1
      <4>3. \A j \in 1..Len(queue) : queue[j] # s
        BY <2>1, <4>1
      <4>4. \A j, k \in 1..Len(queue') : queue'[j] = queue'[k] => j = k
        BY <4>1, <4>2, <4>3
      <4>5. ASSUME NEW t \in Stages
            PROVE  engine'[t] = "waiting" <=> \E j \in 1..Len(queue') : queue'[j] = t
        <5>1. CASE t = s
          <6>1. Len(queue) + 1 \in 1..Len(queue')
            BY <4>2
          <6> QED
            BY <1>0, <3>1, <4>2, <5>1, <6>1 DEF StagesTypeOK
        <5>2. CASE t # s
          <6>1. engine'[t] = engine[t]
            BY <1>0, <3>1, <5>2 DEF StagesTypeOK
          <6>2. (\E j \in 1..Len(queue') : queue'[j] = t)
                  <=> (\E j \in 1..Len(queue) : queue[j] = t)
            BY <4>2, <5>2
          <6> QED
            BY <4>1, <6>1, <6>2
        <5> QED
          BY <5>1, <5>2
      <4> QED
        BY <3>1, <3>2, <4>4, <4>5 DEF NoIdlePermit
    <3>6. (\A t \in Stages : Course(t))'
      BY <1>0, <2>1, <3>1 DEF StagesTypeOK, Course
    <3>7. OverrunsAreVisible'
      BY <1>0, <2>1, <3>1 DEF StagesTypeOK, OverrunsAreVisible
    <3> QED
      BY <3>3, <3>4, <3>5, <3>6, <3>7 DEF StagesInv
  <2> QED
    BY <2>2, <2>3
<1>2. CASE TimesOutWaiting(s)
  <2>1. /\ engine' = [engine EXCEPT ![s] = "settled"]
        /\ state' = [state EXCEPT ![s] = "TIMED_OUT"]
        /\ result' = [result EXCEPT ![s] = "timeout"]
        /\ UNCHANGED <<available, permit, registry>>
        /\ state[s] = "PENDING" /\ engine[s] = "waiting"
    BY <1>2 DEF TimesOutWaiting
  <2>2. PICK i \in 1..Len(queue) : queue[i] = s /\ queue' = Without(queue, i)
    BY <1>2 DEF TimesOutWaiting
  <2>3. /\ queue \in Seq(Stages)
        /\ \A t \in Stages :
             engine[t] = "waiting" <=> \E j \in 1..Len(queue) : queue[j] = t
        /\ \A j, k \in 1..Len(queue) : queue[j] = queue[k] => j = k
        /\ queue # <<>> => available = 0
    BY DEF StagesInv, NoIdlePermit, StagesTypeOK
  <2>4. /\ queue' \in Seq(Stages) /\ queue # <<>>
        /\ \A j, k \in 1..Len(queue') : queue'[j] = queue'[k] => j = k
        /\ \A t \in Stages :
             (\E j \in 1..Len(queue') : queue'[j] = t)
               <=> (t # s /\ \E j \in 1..Len(queue) : queue[j] = t)
    <3>1. /\ Without(queue, i) \in Seq(Stages)
          /\ \A j, k \in 1..Len(Without(queue, i)) :
               Without(queue, i)[j] = Without(queue, i)[k] => j = k
          /\ \A t \in Stages :
               (\E j \in 1..Len(Without(queue, i)) : Without(queue, i)[j] = t)
                 <=> (t # queue[i] /\ \E j \in 1..Len(queue) : queue[j] = t)
      BY <2>3, WithoutOne
    <3>2. queue # <<>>
      BY <2>2, <2>3
    <3>3. queue' = Without(queue, i) /\ queue[i] = s
      BY <2>2
    <3> QED
      BY <3>1, <3>2, <3>3, Zenon
  <2>5. \A t \in Stages : engine'[t] = "waiting" <=> engine[t] = "waiting" /\ t # s
    BY <1>0, <2>1 DEF StagesTypeOK
  <2>6. NoIdlePermit'
    BY <2>1, <2>3, <2>4, <2>5 DEF NoIdlePermit
  <2>7. PermitsAreConserved'
    <3>1. Holders' = Holders
      BY <2>1 DEF Holders
    <3>2. Holders' = {t \in Stages : engine'[t] = "running"}
      BY <1>0, <2>1 DEF Holders, StagesTypeOK
    <3>3. available + Cardinality(Holders) = Capacity
      BY DEF StagesInv, PermitsAreConserved
    <3> QED
      BY <2>1, <3>1, <3>2, <3>3 DEF PermitsAreConserved
  <2>8. StagesTypeOK'
    BY <1>0, <2>1, <2>4 DEF StagesTypeOK, States, Engines, Results
  <2>9. (\A t \in Stages : Course(t))'
    BY <1>0, <2>1 DEF StagesTypeOK, Course
  <2>10. OverrunsAreVisible'
    BY <1>0, <2>1 DEF StagesTypeOK, OverrunsAreVisible
  <2> QED
    BY <2>6, <2>7, <2>8, <2>9, <2>10 DEF StagesInv
<1>3. CASE TimesOut(s) \/ Overruns(s)
  <2>1. UNCHANGED <<available, queue, engine, permit>>
    BY <1>3 DEF TimesOut, Overruns
  <2>2. PermitsAreConserved' /\ NoIdlePermit'
    BY <2>1 DEF StagesInv, PermitsAreConserved, NoIdlePermit, Holders
  <2>3. StagesTypeOK'
    BY <1>0, <1>3 DEF TimesOut, Overruns, StagesTypeOK, States, Results
  <2>4. (\A t \in Stages : Course(t))'
    BY <1>0, <1>3 DEF TimesOut, Overruns, StagesTypeOK, Course
  <2>5. OverrunsAreVisible'
    BY <1>0, <1>3 DEF TimesOut, Overruns, StagesTypeOK, OverrunsAreVisible, Course
  <2> QED
    BY <2>2, <2>3, <2>4, <2>5 DEF StagesInv
<1>4. CASE Settles(s)
  <2>1. engine[s] = "running" /\ Settle(s)
    BY <1>4 DEF Settles, Succeeds, Fails, CleansUp, SettlesLate
  <2>2. /\ available' \in 0..Capacity /\ queue' \in Seq(Stages)
        /\ engine' \in [Stages -> Engines] /\ permit' \in [Stages -> BOOLEAN]
        /\ PermitsAreConserved' /\ NoIdlePermit'
        /\ engine'[s] = "settled"
        /\ \A t \in Stages \ {s} :
             \/ engine'[t] = engine[t]
             \/ engine[t] = "waiting" /\ engine'[t] = "running"
    BY <2>1, SettleKeeps
  <2>3. \A t \in Stages \ {s} : state'[t] = state[t] /\ result'[t] = result[t]
    BY <1>0, <1>4
    DEF Settles, Succeeds, Fails, CleansUp, SettlesLate, StagesTypeOK
  <2>4. StagesTypeOK'
    BY <1>0, <1>4, <2>2
    DEF Settles, Succeeds, Fails, CleansUp, SettlesLate, StagesTypeOK, States, Results
  <2>5. Course(s)'
    BY <1>0, <1>4, <2>2
    DEF Settles, Succeeds, Fails, CleansUp, SettlesLate, StagesTypeOK, Course
  <2>6. ASSUME NEW t \in Stages \ {s} PROVE Course(t)'
    <3>1. Course(t)
      BY <1>0
    <3> QED
      BY <2>2, <2>3, <3>1 DEF Course
  <2>7. registry' = registry \ {s}
    BY <1>0, <1>4
    DEF Settles, Succeeds, Fails, CleansUp, SettlesLate, OverrunsAreVisible, Course
  <2>8. \A t \in Stages \ {s} :
          result'[t] # "none" /\ engine'[t] = "running"
            <=> result[t] # "none" /\ engine[t] = "running"
    BY <1>0, <2>2, <2>3 DEF Course, StagesTypeOK, States
  <2>9. OverrunsAreVisible'
    BY <1>0, <2>2, <2>7, <2>8 DEF OverrunsAreVisible
  <2> QED
    BY <2>2, <2>4, <2>5, <2>6, <2>9 DEF StagesInv
<1> QED
  BY <1>1, <1>2, <1>3, <1>4 DEF Timers

(* The invariant holds for ever.                                             *)
THEOREM StagesInvariance == StagesSpec => []StagesInv
<1>1. StagesInv /\ [StagesNext]_stageVars => StagesInv'
  <2> SUFFICES ASSUME StagesInv, [StagesNext]_stageVars
               PROVE  StagesInv'
    OBVIOUS
  <2>1. CASE UNCHANGED stageVars
    BY <2>1
    DEF stageVars, StagesInv, StagesTypeOK, Course, PermitsAreConserved,
        NoIdlePermit, OverrunsAreVisible, Holders
  <2>2. CASE StagesNext
    BY <2>2, StageStepKeeps DEF StagesNext
  <2> QED
    BY <2>1, <2>2
<1> QED
  BY <1>1, StagesInitial, PTL DEF StagesSpec

(* Every variable keeps its type.                                            *)
THEOREM StagesTypeCorrect == StagesSpec => []StagesTypeOK
BY StagesInvariance, PTL DEF StagesInv

(* Every permit is free or with one stage whose engine runs.                 *)
THEOREM PermitConservation == StagesSpec => []PermitsAreConserved
BY StagesInvariance, PTL DEF StagesInv

(* Nobody waits while a permit is free, and the line holds who waits.        *)
THEOREM PermitsAreUsed == StagesSpec => []NoIdlePermit
BY StagesInvariance, PTL DEF StagesInv

(* The registry holds exactly the engines that outlive their stages.         *)
THEOREM OverrunVisibility == StagesSpec => []OverrunsAreVisible
BY StagesInvariance, PTL DEF StagesInv

(* A late end of an engine never overrides what its stage answered.          *)
THEOREM AnswerStands == StagesSpec => FirstAnswerStands
<1>1. StagesInv /\ [StagesNext]_stageVars
        => [\A s \in Stages : result[s] # "none" => result'[s] = result[s]]_stageVars
  <2> SUFFICES ASSUME StagesInv, NEW t \in Stages,
                      Start(t) \/ Timers(t) \/ Settles(t),
                      NEW s \in Stages, result[s] # "none"
               PROVE  result'[s] = result[s]
    BY DEF StagesNext
  <2>1. Course(t) /\ StagesTypeOK
    BY DEF StagesInv
  <2> QED
    BY <2>1
    DEF Start, Timers, Settles, TimesOutWaiting, TimesOut, Overruns, Succeeds,
        Fails, CleansUp, SettlesLate, Course, StagesTypeOK
<1> QED
  BY <1>1, StagesInvariance, PTL DEF StagesSpec, FirstAnswerStands
=============================================================================
