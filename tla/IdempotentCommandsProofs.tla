---------------------- MODULE IdempotentCommandsProofs ----------------------
(***************************************************************************)
(* At most one execution per lifetime of a record, for any number of       *)
(* attempts, any lifetime and any time.  The argument: only the holder of  *)
(* the subject's lock is between its read and its commit, so the record it *)
(* read is still the record when it writes; and the record is always the   *)
(* latest of the executions.  So the answer it has found is right when it  *)
(* commits, and each attempt acts at once (KeyedRequests).                 *)
(***************************************************************************)
EXTENDS IdempotentCommands, TLAPS

Inside == {"read", "operate", "write", "commit", "in_doubt"}

(* Whoever is past the lock holds it. *)
LockHeld == \A a \in Attempts : attempt[a].pc \in Inside => holder = a

(* What an open transaction has done so far, and what it found. *)
ProgressOf(a) ==
  /\ attempt[a].pc \in {"new", "waiting", "read", "operate", "over"} => ~attempt[a].wrote
  /\ attempt[a].pc \in {"new", "waiting", "read", "operate"} => ~attempt[a].operated
  /\ attempt[a].pc = "write" => attempt[a].operated /\ ~attempt[a].wrote
  /\ attempt[a].pc \in {"operate", "write"} => ~Live(a)
  /\ attempt[a].pc \in {"commit", "in_doubt"} =>
       /\ attempt[a].operated = attempt[a].wrote
       /\ attempt[a].wrote => ~Live(a)

(* The answer an open transaction is about to give: of its own execution,  *)
(* or of the record, which still stands.                                   *)
AnswerOf(a) ==
  attempt[a].pc \in {"commit", "in_doubt"} =>
    /\ attempt[a].answer \in Answer
    /\ attempt[a].wrote => attempt[a].answer = [kind |-> "executed", of |-> a]
    /\ ~attempt[a].wrote =>
         /\ Live(a)
         /\ attempt[a].answer =
              [kind |-> IF Same(a) THEN "replayed" ELSE "conflict", of |-> record.by]

(* What a client has been told before its transaction is over.             *)
ToldOf(a) ==
  /\ attempt[a].pc \notin {"in_doubt", "over"} => reply[a] = NoAnswer
  /\ attempt[a].pc = "in_doubt" => reply[a] = [kind |-> "unknown"]

(* The record is the latest execution. *)
RecordIsLatest ==
  /\ record = NoRecord => effects = {}
  /\ record # NoRecord =>
       /\ record \in effects
       /\ \A e \in effects : e = record \/ e.at + Ttl <= record.at

IInv ==
  /\ KeyTypeOK
  /\ LockHeld
  /\ \A a \in Attempts : ProgressOf(a) /\ AnswerOf(a) /\ ToldOf(a)
  /\ RecordIsLatest
  /\ AtMostOncePerDay

LEMMA NoRecordType == NoRecord \notin Execution
  BY DEF NoRecord, Execution

LEMMA NoAnswerType == NoAnswer \notin Answer
  BY DEF NoAnswer, Answer

LEMMA InitIInv == KeyInit => IInv
<1> SUFFICES ASSUME KeyInit PROVE IInv
  OBVIOUS
<1>1. KeyTypeOK
  BY AttemptsAssumption DEF KeyInit, KeyTypeOK, AttemptPCs, ToldAttempt
<1>2. QED
  BY <1>1, NoAnswerType
     DEF KeyInit, IInv, LockHeld, ProgressOf, AnswerOf, RecordIsLatest,
         AtMostOncePerDay, ToldOf, Inside

(* What a COMMIT does: the record stays the latest execution, and the new  *)
(* one lies a lifetime after every other, since the transaction found no   *)
(* live record under the lock it still holds.                              *)
LEMMA ApplyKeeps ==
  ASSUME IInv, NEW a \in Attempts, attempt[a].pc \in {"commit", "in_doubt"}, Apply(a)
  PROVE  /\ RecordIsLatest' /\ AtMostOncePerDay'
         /\ effects \subseteq effects'
         /\ effects' \subseteq Execution
         /\ record' \in {NoRecord} \cup Execution
<1> DEFINE done == [by |-> a, at |-> attempt[a].began]
<1>0. KeyTypeOK /\ ProgressOf(a) /\ AnswerOf(a) /\ RecordIsLatest /\ AtMostOncePerDay
  BY DEF IInv
<1>1. /\ done \in Execution /\ done # NoRecord
      /\ effects \subseteq Execution
      /\ record \in {NoRecord} \cup Execution
      /\ \A e \in Execution : e.at \in Nat /\ e.by \in Attempts
      /\ attempt[a].operated \in BOOLEAN /\ attempt[a].wrote \in BOOLEAN
  BY <1>0, NoRecordType DEF KeyTypeOK, Execution
<1>2. CASE ~attempt[a].wrote
  <2>1. record' = record /\ effects' = effects
    BY <1>0, <1>2 DEF Apply, ProgressOf
  <2>2. QED
    BY <1>0, <1>1, <1>2, <2>1
       DEF RecordIsLatest, AtMostOncePerDay
<1>3. CASE attempt[a].wrote
  <2>1. record' = done /\ effects' = effects \cup {done}
    BY <1>0, <1>3 DEF Apply, ProgressOf
  <2>2. record = NoRecord \/ record.at + Ttl <= done.at
    <3>1. ~Live(a)
      BY <1>0, <1>3 DEF ProgressOf
    <3>2. attempt[a].began \in Nat
      BY <1>0 DEF KeyTypeOK
    <3>3. record # NoRecord => record.at \in Nat
      BY <1>1
    <3>4. QED
      BY <3>1, <3>2, <3>3, AttemptsAssumption DEF Live
  <2>3. \A e \in effects : e.at + Ttl <= done.at
    BY <1>0, <1>1, <2>2, AttemptsAssumption DEF RecordIsLatest
  <2>4. RecordIsLatest' /\ AtMostOncePerDay'
    BY <1>0, <1>1, <2>1, <2>3 DEF RecordIsLatest, AtMostOncePerDay
  <2>5. QED
    BY <1>1, <2>1, <2>4
<1>4. QED
  BY <1>1, <1>2, <1>3

(* What an attempt knows stands while its transaction and the record do.   *)
LEMMA OthersKeep ==
  ASSUME NEW b \in Attempts, attempt'[b] = attempt[b], record' = record,
         reply'[b] = reply[b], ProgressOf(b), AnswerOf(b), ToldOf(b)
  PROVE  ProgressOf(b)' /\ AnswerOf(b)' /\ ToldOf(b)'
<1>1. Live(b)' = Live(b) /\ Same(b)' = Same(b)
  BY DEF Live, Same
<1>2. ProgressOf(b)'
  BY <1>1 DEF ProgressOf
<1>3. AnswerOf(b)'
  BY <1>1 DEF AnswerOf
<1>. QED
  BY <1>2, <1>3 DEF ToldOf

LEMMA StepIInv == IInv /\ [KeyNext]_keyVars => IInv'
<1> SUFFICES ASSUME IInv, [KeyNext]_keyVars PROVE IInv'
  OBVIOUS
<1>0. /\ KeyTypeOK /\ LockHeld /\ RecordIsLatest /\ AtMostOncePerDay
      /\ \A a \in Attempts : ProgressOf(a) /\ AnswerOf(a) /\ ToldOf(a)
  BY DEF IInv
<1>e. \A a, b \in Attempts :
        attempt[a].pc \in Inside /\ attempt[b].pc \in Inside => a = b
  BY <1>0 DEF LockHeld
<1>1. CASE UNCHANGED keyVars
  BY <1>0, <1>1 DEF keyVars, IInv, KeyTypeOK, LockHeld, ProgressOf, AnswerOf, Live,
     RecordIsLatest, AtMostOncePerDay, ToldOf, Same
<1>2. CASE NextDay
  <2>1. KeyTypeOK'
    BY <1>0, <1>2, AttemptsAssumption DEF NextDay, KeyTypeOK
  <2>2. QED
    BY <1>0, <1>2, <2>1 DEF NextDay, IInv, LockHeld, ProgressOf, AnswerOf, Live,
       RecordIsLatest, AtMostOncePerDay, ToldOf, Same
<1>3. ASSUME NEW a \in Attempts, BeginAttempt(a) PROVE IInv'
  <2>0. clock \in Nat
    BY <1>0, AttemptsAssumption DEF KeyTypeOK
  <2>t. [attempt[a] EXCEPT !.pc = "waiting", !.began = clock] \in
          [pc : AttemptPCs, began : Nat, operated : BOOLEAN,
           wrote : BOOLEAN, answer : {NoAnswer} \cup Answer]
    BY <1>0, <2>0 DEF KeyTypeOK, AttemptPCs
  <2>1. KeyTypeOK'
    BY <1>0, <1>3, <2>t DEF BeginAttempt, KeyTypeOK
  <2>2. QED
    BY <1>0, <1>3, <2>1 DEF BeginAttempt, AttemptAt, IInv, KeyTypeOK, LockHeld, ProgressOf,
       AnswerOf, Live, RecordIsLatest, AtMostOncePerDay, ToldOf, Same, Inside
<1>4. ASSUME NEW a \in Attempts, LockSubject(a) PROVE IInv'
  <2>1. KeyTypeOK'
    BY <1>0, <1>4 DEF LockSubject, AttemptAt, AttemptGoes, KeyTypeOK, AttemptPCs
  <2>2. \A b \in Attempts : attempt[b].pc \notin Inside
    BY <1>0, <1>4, NoneAssumption DEF LockSubject, LockHeld
  <2>3. QED
    BY <1>0, <1>4, <2>1, <2>2 DEF LockSubject, AttemptAt, AttemptGoes, IInv, KeyTypeOK, LockHeld,
       ProgressOf, AnswerOf, Live, RecordIsLatest, AtMostOncePerDay,
       ToldOf, Same, Inside
<1>5. ASSUME NEW a \in Attempts, ReadRecord(a) PROVE IInv'
  <2>1. CASE Live(a)
    <3>1. record \in effects /\ record \in Execution /\ record.by \in Attempts
      BY <1>0, <2>1, NoRecordType DEF Live, RecordIsLatest, KeyTypeOK, Execution
    <3>2. KeyTypeOK'
      BY <1>0, <1>5, <2>1, <3>1
         DEF ReadRecord, AttemptAt, AnswerFromRecord, KeyTypeOK, AttemptPCs, Answer
    <3>3. /\ attempt[a].pc = "read" /\ UNCHANGED <<clock, record, effects, holder, reply>>
          /\ attempt'[a] = [attempt[a] EXCEPT !.pc = "commit",
               !.answer = [kind |-> IF Same(a) THEN "replayed" ELSE "conflict",
                           of   |-> record.by]]
          /\ \A b \in Attempts \ {a} : attempt'[b] = attempt[b]
      BY <1>0, <1>5, <2>1 DEF ReadRecord, AttemptAt, AnswerFromRecord, KeyTypeOK
    <3>4. /\ attempt'[a].pc = "commit" /\ attempt'[a].began = attempt[a].began
          /\ attempt'[a].wrote = FALSE /\ attempt'[a].operated = FALSE
          /\ attempt'[a].answer = [kind |-> IF Same(a) THEN "replayed" ELSE "conflict",
                                   of   |-> record.by]
      BY <1>0, <3>3 DEF KeyTypeOK, ProgressOf
    <3>5. ProgressOf(a)' /\ ToldOf(a)'
      BY <1>0, <3>3, <3>4 DEF ProgressOf, ToldOf
    <3>6. AnswerOf(a)'
      BY <2>1, <3>1, <3>3, <3>4 DEF AnswerOf, Live, Same, Answer
    <3>7. LockHeld'
      BY <1>0, <3>3, <3>4 DEF LockHeld, Inside
    <3>8. \A b \in Attempts \ {a} : ProgressOf(b)' /\ AnswerOf(b)' /\ ToldOf(b)'
      BY <1>0, <3>3, OthersKeep
    <3>9. QED
      BY <1>0, <3>2, <3>3, <3>5, <3>6, <3>7, <3>8
         DEF IInv, RecordIsLatest, AtMostOncePerDay
  <2>2. CASE ~Live(a)
    <3>1. KeyTypeOK'
      BY <1>0, <1>5, <2>2 DEF ReadRecord, AttemptAt, AttemptGoes, KeyTypeOK, AttemptPCs
    <3>2. QED
      BY <1>0, <1>5, <2>2, <3>1 DEF ReadRecord, AttemptAt, AttemptGoes, IInv, KeyTypeOK, LockHeld,
         ProgressOf, AnswerOf, Live, RecordIsLatest, AtMostOncePerDay,
         ToldOf, Same, Inside
  <2>3. QED
    BY <2>1, <2>2
<1>6. ASSUME NEW a \in Attempts, Operate(a) PROVE IInv'
  <2>1. KeyTypeOK'
    BY <1>0, <1>6 DEF Operate, AttemptAt, KeyTypeOK, AttemptPCs
  <2>2. QED
    BY <1>0, <1>6, <2>1 DEF Operate, AttemptAt, IInv, KeyTypeOK, LockHeld, ProgressOf,
       AnswerOf, Live, RecordIsLatest, AtMostOncePerDay, ToldOf, Same, Inside
<1>7. ASSUME NEW a \in Attempts, WriteRecord(a) PROVE IInv'
  <2>1. ~Live(a)
    BY <1>0, <1>7 DEF WriteRecord, AttemptAt, ProgressOf
  <2>2. KeyTypeOK'
    BY <1>0, <1>7, <2>1 DEF WriteRecord, AttemptAt, KeyTypeOK, AttemptPCs, Answer
  <2>3. /\ attempt[a].pc = "write" /\ UNCHANGED <<clock, record, effects, holder, reply>>
        /\ attempt'[a].pc = "commit" /\ attempt'[a].began = attempt[a].began
        /\ attempt'[a].wrote = TRUE /\ attempt'[a].operated = TRUE
        /\ attempt'[a].answer = [kind |-> "executed", of |-> a]
        /\ \A b \in Attempts \ {a} : attempt'[b] = attempt[b]
    <3>1. /\ attempt[a].pc = "write" /\ UNCHANGED <<clock, record, effects, holder, reply>>
          /\ attempt' = [attempt EXCEPT ![a].pc = "commit", ![a].wrote = TRUE,
                            ![a].answer = [kind |-> "executed", of |-> a]]
      BY <1>7, <2>1 DEF WriteRecord, AttemptAt
    <3>2. attempt[a].operated \in BOOLEAN /\ attempt[a].operated
      BY <1>0, <3>1 DEF KeyTypeOK, ProgressOf
    <3>3. attempt'[a] = [attempt[a] EXCEPT !.pc = "commit", !.wrote = TRUE,
                           !.answer = [kind |-> "executed", of |-> a]]
      BY <1>0, <3>1 DEF KeyTypeOK
    <3>4. \A b \in Attempts \ {a} : attempt'[b] = attempt[b]
      BY <1>0, <3>1 DEF KeyTypeOK
    <3>5. attempt[a] \in [pc : AttemptPCs, began : Nat, operated : BOOLEAN,
                          wrote : BOOLEAN, answer : {NoAnswer} \cup Answer]
      BY <1>0 DEF KeyTypeOK
    <3>6. /\ attempt'[a].pc = "commit" /\ attempt'[a].began = attempt[a].began
          /\ attempt'[a].wrote = TRUE /\ attempt'[a].operated = attempt[a].operated
          /\ attempt'[a].answer = [kind |-> "executed", of |-> a]
      BY <3>3, <3>5
    <3>7. attempt[a].operated = TRUE
      BY <3>2
    <3>. QED
      BY <3>1, <3>4, <3>6, <3>7
  <2>4. ProgressOf(a)' /\ AnswerOf(a)' /\ ToldOf(a)'
    <3>1. record' = record /\ reply' = reply
      BY <2>3
    <3>2. ~Live(a)'
      BY <2>1, <2>3, <3>1 DEF Live
    <3>3. ProgressOf(a)'
      BY <2>3, <3>2 DEF ProgressOf
    <3>4. AnswerOf(a)'
      BY <2>3 DEF AnswerOf, Answer
    <3>5. ToldOf(a)'
      BY <1>0, <2>3, <3>1 DEF ToldOf
    <3>. QED
      BY <3>3, <3>4, <3>5
  <2>5. LockHeld'
    BY <1>0, <2>3 DEF LockHeld, Inside
  <2>6. \A b \in Attempts \ {a} : ProgressOf(b)' /\ AnswerOf(b)' /\ ToldOf(b)'
    BY <1>0, <2>3, OthersKeep
  <2>7. QED
    BY <1>0, <2>2, <2>3, <2>4, <2>5, <2>6
       DEF IInv, RecordIsLatest, AtMostOncePerDay
<1>8. ASSUME NEW a \in Attempts, RollbackAttempt(a) PROVE IInv'
  <2>1. KeyTypeOK'
    <3>1. [attempt[a] EXCEPT !.pc = "over", !.wrote = FALSE] \in
            [pc : AttemptPCs, began : Nat, operated : BOOLEAN,
             wrote : BOOLEAN, answer : {NoAnswer} \cup Answer]
      BY <1>0 DEF KeyTypeOK, AttemptPCs
    <3>2. reply' \in [Attempts -> ToldAttempt]
      BY <1>0, <1>8 DEF RollbackAttempt, KeyTypeOK, ToldAttempt
    <3>. QED
      BY <1>0, <1>8, <3>1, <3>2 DEF RollbackAttempt, Over, Unlock, KeyTypeOK
  <2>2. LockHeld'
    BY <1>0, <1>e, <1>8 DEF RollbackAttempt, Over, Unlock, LockHeld, Inside, KeyTypeOK
  <2>3. reply'[a] \notin Answer
    BY <1>0, <1>8 DEF RollbackAttempt, KeyTypeOK, Answer
  <2>4. QED
    BY <1>0, <1>8, <2>1, <2>2, <2>3 DEF RollbackAttempt, Over, IInv, KeyTypeOK,
       ProgressOf, AnswerOf, Live, RecordIsLatest, AtMostOncePerDay,
       ToldOf, Same
<1>9. ASSUME NEW a \in Attempts, CommitUnknown(a) PROVE IInv'
  <2>1. KeyTypeOK'
    BY <1>0, <1>9 DEF CommitUnknown, AttemptAt, AttemptGoes, KeyTypeOK, AttemptPCs, ToldAttempt
  <2>2. reply'[a] \notin Answer
    BY <1>0, <1>9 DEF CommitUnknown, KeyTypeOK, Answer
  <2>3. QED
    BY <1>0, <1>9, <2>1, <2>2 DEF CommitUnknown, AttemptAt, AttemptGoes, IInv, KeyTypeOK,
       LockHeld, ProgressOf, AnswerOf, Live, RecordIsLatest, AtMostOncePerDay,
       ToldOf, Same, Inside
<1>10. ASSUME NEW a \in Attempts, attempt[a].pc \in {"commit", "in_doubt"},
              Over(a), Unlock(a), UNCHANGED clock,
              Apply(a) \/ UNCHANGED <<record, effects>>,
              \/ reply' = reply
              \/ Apply(a) /\ reply' = [reply EXCEPT ![a] = attempt[a].answer]
       PROVE  IInv'
  <2>1. /\ RecordIsLatest' /\ AtMostOncePerDay'
        /\ effects \subseteq effects'
        /\ effects' \subseteq Execution
        /\ record' \in {NoRecord} \cup Execution
    <3>1. CASE Apply(a)
      BY <1>10, <3>1, ApplyKeeps
    <3>2. CASE UNCHANGED <<record, effects>>
      BY <1>0, <3>2 DEF RecordIsLatest, AtMostOncePerDay, KeyTypeOK
    <3>3. QED
      BY <1>10, <3>1, <3>2
  <2>2. attempt[a].answer \in Answer
    BY <1>0, <1>10 DEF AnswerOf
  <2>3. KeyTypeOK'
    <3>1. reply' \in [Attempts -> ToldAttempt]
      BY <1>0, <1>10, <2>2 DEF KeyTypeOK, ToldAttempt
    <3>t. [attempt[a] EXCEPT !.pc = "over", !.wrote = FALSE] \in
            [pc : AttemptPCs, began : Nat, operated : BOOLEAN,
             wrote : BOOLEAN, answer : {NoAnswer} \cup Answer]
      BY <1>0 DEF KeyTypeOK, AttemptPCs
    <3>2. /\ attempt' \in [Attempts -> [pc : AttemptPCs, began : Nat, operated : BOOLEAN,
                          wrote : BOOLEAN, answer : {NoAnswer} \cup Answer]]
          /\ holder' \in {None} \cup Attempts
          /\ clock' \in 0..MaxClock
      BY <1>0, <1>10, <3>t DEF KeyTypeOK, Over, Unlock
    <3>3. QED
      BY <2>1, <3>1, <3>2 DEF KeyTypeOK
  <2>4. /\ attempt'[a].pc = "over" /\ attempt'[a].wrote = FALSE
        /\ \A b \in Attempts \ {a} : attempt'[b] = attempt[b]
    BY <1>0, <1>10 DEF Over, KeyTypeOK
  <2>5. \A b \in Attempts \ {a} : attempt[b].pc \notin Inside
    BY <1>e, <1>10 DEF Inside
  <2>6. LockHeld'
    BY <2>4, <2>5 DEF LockHeld, Inside
  <2>7. \A b \in Attempts \ {a} : reply'[b] = reply[b]
    BY <1>0, <1>10 DEF KeyTypeOK
  <2>8. \A b \in Attempts : ProgressOf(b)' /\ AnswerOf(b)' /\ ToldOf(b)'
    BY <1>0, <2>4, <2>5, <2>7 DEF ProgressOf, AnswerOf, ToldOf, Inside
  <2>9. QED
    BY <2>1, <2>3, <2>6, <2>8 DEF IInv
<1>11. ASSUME NEW a \in Attempts, CommitAttempt(a) PROVE IInv'
  BY <1>10, <1>11 DEF CommitAttempt, AttemptAt
<1>12. ASSUME NEW a \in Attempts, ResolveCommit(a) PROVE IInv'
  BY <1>10, <1>12 DEF ResolveCommit, AttemptAt
<1>13. QED
  BY <1>1, <1>2, <1>3, <1>4, <1>5, <1>6, <1>7, <1>8, <1>9, <1>11, <1>12
     DEF KeyNext, AttemptStep

(* The invariant of the protocol of one key. *)
THEOREM KeyInvariance == KeySpec => []IInv
  BY InitIInv, StepIInv, PTL DEF KeySpec

(* Every variable of IdempotentCommands keeps its type. *)
THEOREM KeyTypeCorrect == KeySpec => []KeyTypeOK
<1>1. IInv => KeyTypeOK
  BY DEF IInv
<1>2. QED
  BY <1>1, KeyInvariance, PTL

(* One execution per lifetime of the record. *)
THEOREM OnePerDay == KeySpec => []AtMostOncePerDay
<1>1. IInv => AtMostOncePerDay
  BY DEF IInv
<1>2. QED
  BY <1>1, KeyInvariance, PTL

-----------------------------------------------------------------------------
(* The refinement: an attempt acts at once when it commits *)

AskedNow == [a \in Attempts |-> AskedOf(attempt[a])]

(* An attempt that goes on, or arrives, leaves the others as they are.     *)
LEMMA OneAttempt ==
  ASSUME KeyTypeOK, NEW a \in Attempts, NEW t, attempt' = [attempt EXCEPT ![a] = t]
  PROVE  AskedNow' = [AskedNow EXCEPT ![a] = AskedOf(t)]
<1>1. attempt'[a] = t /\ \A b \in Attempts \ {a} : attempt'[b] = attempt[b]
  BY DEF KeyTypeOK
<1>2. AskedNow' = [b \in Attempts |-> AskedOf(attempt'[b])]
  BY DEF AskedNow, AskedOf
<1>3. [AskedNow EXCEPT ![a] = AskedOf(t)] =
        [b \in Attempts |-> IF b = a THEN AskedOf(t) ELSE AskedOf(attempt[b])]
  BY DEF AskedNow
<1>. QED
  BY <1>1, <1>2, <1>3

(* While a transaction is open its steps are nobody's business.            *)
LEMMA OpenStep ==
  ASSUME KeyTypeOK, NEW a \in Attempts, NEW t, attempt' = [attempt EXCEPT ![a] = t],
         attempt[a].pc \notin {"new", "over"}, t.pc \notin {"new", "over"},
         t.began = attempt[a].began
  PROVE  AskedNow' = AskedNow
<1>1. AskedOf(t) = AskedOf(attempt[a])
  BY DEF AskedOf
<1>2. AskedNow' = [AskedNow EXCEPT ![a] = AskedOf(attempt[a])]
  BY <1>1, OneAttempt
<1>. QED
  BY <1>2 DEF AskedNow

(* A transaction that ends is an attempt that is over.                     *)
LEMMA EndStep ==
  ASSUME KeyTypeOK, NEW a \in Attempts, Over(a), attempt[a].pc \notin {"new", "over"}
  PROVE  /\ AskedNow[a] = [stage |-> "open", at |-> attempt[a].began]
         /\ AskedNow' = [AskedNow EXCEPT ![a].stage = "over"]
<1>. DEFINE t == [attempt[a] EXCEPT !.pc = "over", !.wrote = FALSE]
<1>1. /\ attempt' = [attempt EXCEPT ![a] = t]
      /\ t.pc = "over" /\ t.began = attempt[a].began
  BY DEF Over, KeyTypeOK
<1>2. AskedNow[a] = [stage |-> "open", at |-> attempt[a].began]
  <2>1. AskedOf(attempt[a]) = [stage |-> "open", at |-> attempt[a].began]
    BY DEF AskedOf
  <2>. QED
    BY <2>1 DEF AskedNow
<1>3. AskedOf(t) = [stage |-> "over", at |-> attempt[a].began]
  <2>. HIDE DEF t
  <2>1. "over" # "new"
    OBVIOUS
  <2>. QED
    BY <1>1, <2>1 DEF AskedOf
<1>4. AskedNow' = [AskedNow EXCEPT ![a] = [stage |-> "over", at |-> attempt[a].began]]
  BY <1>1, <1>3, OneAttempt
<1>5. [AskedNow EXCEPT ![a].stage = "over"] =
        [AskedNow EXCEPT ![a] = [AskedNow[a] EXCEPT !.stage = "over"]]
  OBVIOUS
<1>6. [AskedNow[a] EXCEPT !.stage = "over"] = [stage |-> "over", at |-> attempt[a].began]
  BY <1>2
<1>. QED
  BY <1>2, <1>4, <1>5, <1>6

(* COMMIT executes the operation or recalls its latest execution, for a    *)
(* client that is answered now or has been told that nobody knows.         *)
LEMMA CommitRefines ==
  ASSUME IInv, NEW a \in Attempts, attempt[a].pc \in {"commit", "in_doubt"},
         Apply(a), Over(a), UNCHANGED clock,
         reply' = [reply EXCEPT ![a] = IF @ = NoAnswer THEN attempt[a].answer ELSE @]
  PROVE  Keyed!Next
<1>0. KeyTypeOK /\ ProgressOf(a) /\ AnswerOf(a) /\ RecordIsLatest
  BY DEF IInv
<1>. DEFINE ans == attempt[a].answer
            began == attempt[a].began
<1>1. /\ AskedNow[a] = [stage |-> "open", at |-> began]
      /\ AskedNow' = [AskedNow EXCEPT ![a].stage = "over"]
  BY <1>0, EndStep
<1>2. AskedNow[a].stage = "open" /\ AskedNow[a].at = began
  BY <1>1
<1>3. Keyed!End(a, ans)
  BY <1>1, <1>2, Zenon DEF Keyed!End, Keyed!Untold, NoAnswer, None, AskedNow
<1>4. /\ began \in Nat /\ effects \subseteq Execution
      /\ \A e \in Execution : e.at \in Nat /\ e.by \in Attempts
      /\ record \in {NoRecord} \cup Execution
  BY <1>0 DEF KeyTypeOK, Execution
<1>5. CASE attempt[a].wrote
  <2>1. /\ effects' = effects \cup {[by |-> a, at |-> began]}
        /\ ans = [kind |-> "executed", of |-> a] /\ ~Live(a)
    BY <1>0, <1>5 DEF Apply, ProgressOf, AnswerOf
  <2>2. \A e \in effects : e.at + Ttl <= began
    <3>1. CASE record = NoRecord
      BY <1>0, <3>1 DEF RecordIsLatest
    <3>2. CASE record # NoRecord
      <4>1. record \in effects /\ record.at + Ttl <= began
        BY <1>0, <1>4, <2>1, <3>2, AttemptsAssumption DEF Live, RecordIsLatest
      <4>. QED
        BY <1>0, <1>4, <3>2, <4>1, AttemptsAssumption DEF RecordIsLatest
    <3>. QED
      BY <3>1, <3>2
  <2>3. Keyed!Execute(a)
    <3>1. /\ \A e \in effects : e.at + Ttl <= AskedNow[a].at
          /\ effects' = effects \cup {[by |-> a, at |-> AskedNow[a].at]}
          /\ Keyed!End(a, [kind |-> "executed", of |-> a])
      BY <1>2, <1>3, <2>1, <2>2
    <3>. QED
      BY <3>1, Zenon DEF Keyed!Execute, AskedNow
  <2>. QED
    BY <2>3 DEF Keyed!Next
<1>6. CASE ~attempt[a].wrote
  <2>1. /\ effects' = effects /\ Live(a)
        /\ ans = [kind |-> IF Same(a) THEN "replayed" ELSE "conflict", of |-> record.by]
    BY <1>0, <1>6 DEF Apply, ProgressOf, AnswerOf, KeyTypeOK
  <2>2. /\ record \in effects
        /\ \A f \in effects : f.at <= record.at
        /\ record.at + Ttl > began
    BY <1>0, <1>4, <2>1, AttemptsAssumption DEF Live, RecordIsLatest
  <2>3. Keyed!Recall(a)
    <3>1. /\ record \in effects
          /\ \A f \in effects : f.at <= record.at
          /\ record.at + Ttl > AskedNow[a].at
          /\ Keyed!End(a, [kind |-> IF Payload[record.by] = Payload[a]
                                     THEN "replayed" ELSE "conflict",
                            of   |-> record.by])
          /\ UNCHANGED effects
      BY <1>2, <1>3, <2>1, <2>2 DEF Same
    <3>. QED
      BY <3>1, Zenon DEF Keyed!Recall, AskedNow
  <2>. QED
    BY <2>3 DEF Keyed!Next
<1>. QED
  BY <1>0, <1>5, <1>6 DEF KeyTypeOK

(* A rollback is a failure, whether its client has been answered or not.   *)
LEMMA FailRefines ==
  ASSUME KeyTypeOK, NEW a \in Attempts, attempt[a].pc \notin {"new", "over"},
         Over(a), UNCHANGED <<clock, effects>>,
         reply' = [reply EXCEPT ![a] = IF @ = NoAnswer THEN [kind |-> "failed"] ELSE @]
  PROVE  Keyed!Next
<1>1. /\ AskedNow[a] = [stage |-> "open", at |-> attempt[a].began]
      /\ AskedNow' = [AskedNow EXCEPT ![a].stage = "over"]
  BY EndStep
<1>2. AskedNow[a].stage = "open"
  BY <1>1
<1>3. Keyed!Fail(a)
  BY <1>1, <1>2, Zenon DEF Keyed!Fail, Keyed!End, Keyed!Untold, NoAnswer, None, AskedNow
<1>. QED
  BY <1>3 DEF Keyed!Next

(* Every step of the transactions is a step of the attempts, or none.      *)
LEMMA KeyedStep ==
  ASSUME IInv, [KeyNext]_keyVars
  PROVE  [Keyed!Next]_(Keyed!vars)
<1>0. KeyTypeOK /\ \A a \in Attempts : ToldOf(a)
  BY DEF IInv
<1>1. ASSUME AskedNow' = AskedNow, UNCHANGED <<clock, effects, reply>>
      PROVE  UNCHANGED Keyed!vars
  BY <1>1 DEF Keyed!vars, AskedNow
<1>2. CASE UNCHANGED keyVars
  BY <1>1, <1>2 DEF keyVars, AskedNow, AskedOf
<1>3. CASE NextDay
  <2>1. AskedNow' = AskedNow
    BY <1>3 DEF NextDay, AskedNow, AskedOf
  <2>. QED
    BY <1>3, <2>1 DEF NextDay, Keyed!Next, Keyed!Tick, AskedNow
<1>4. ASSUME NEW a \in Attempts, BeginAttempt(a) PROVE Keyed!Next
  <2>. DEFINE t == [attempt[a] EXCEPT !.pc = "waiting", !.began = clock]
  <2>1. /\ attempt' = [attempt EXCEPT ![a] = t]
        /\ t.pc = "waiting" /\ t.began = clock
    BY <1>0, <1>4 DEF BeginAttempt, KeyTypeOK
  <2>2. AskedOf(t) = [stage |-> "open", at |-> clock]
    <3>. HIDE DEF t
    <3>. QED
      BY <2>1 DEF AskedOf
  <2>3. AskedNow' = [AskedNow EXCEPT ![a] = [stage |-> "open", at |-> clock]]
    BY <1>0, <2>1, <2>2, OneAttempt
  <2>4. AskedNow[a].stage = "new"
    BY <1>4 DEF BeginAttempt, AttemptAt, AskedNow, AskedOf
  <2>5. Keyed!Arrive(a)
    BY <1>4, <2>3, <2>4, Zenon DEF BeginAttempt, Keyed!Arrive, AskedNow
  <2>. QED
    BY <2>5 DEF Keyed!Next
<1>5. ASSUME NEW a \in Attempts,
             LockSubject(a) \/ ReadRecord(a) \/ Operate(a) \/ WriteRecord(a)
      PROVE  UNCHANGED Keyed!vars
  <2>. DEFINE t == attempt'[a]
  <2>1. /\ attempt' = [attempt EXCEPT ![a] = t] /\ t.began = attempt[a].began
        /\ attempt[a].pc \in {"waiting", "read", "operate", "write"}
        /\ t.pc \in {"read", "operate", "write", "commit"}
        /\ UNCHANGED <<clock, effects, reply>>
    BY <1>0, <1>5 DEF LockSubject, ReadRecord, Operate, WriteRecord, AttemptAt,
       AttemptGoes, AnswerFromRecord, KeyTypeOK
  <2>2. AskedNow' = AskedNow
    BY <1>0, <2>1, OpenStep
  <2>. QED
    BY <1>1, <2>1, <2>2
<1>6. ASSUME NEW a \in Attempts, CommitAttempt(a) PROVE Keyed!Next
  <2>1. /\ attempt[a].pc = "commit" /\ reply[a] = NoAnswer
        /\ Apply(a) /\ Over(a) /\ UNCHANGED clock
        /\ reply' = [reply EXCEPT ![a] = attempt[a].answer]
    BY <1>0, <1>6 DEF CommitAttempt, AttemptAt, ToldOf
  <2>. QED
    BY <2>1, CommitRefines
<1>7. ASSUME NEW a \in Attempts, ResolveCommit(a) PROVE Keyed!Next
  <2>1. /\ attempt[a].pc = "in_doubt" /\ reply[a] # NoAnswer
        /\ Over(a) /\ UNCHANGED clock
        /\ reply' = [reply EXCEPT ![a] = reply[a]]
    BY <1>0, <1>7 DEF ResolveCommit, AttemptAt, ToldOf, NoAnswer, None, KeyTypeOK
  <2>2. CASE Apply(a)
    BY <2>1, <2>2, CommitRefines
  <2>3. CASE UNCHANGED <<record, effects>>
    BY <1>0, <2>1, <2>3, FailRefines
  <2>. QED
    BY <1>7, <2>2, <2>3 DEF ResolveCommit
<1>8. ASSUME NEW a \in Attempts, RollbackAttempt(a) PROVE Keyed!Next
  <2>1. /\ attempt[a].pc \notin {"new", "over"} /\ reply[a] = NoAnswer
        /\ Over(a) /\ UNCHANGED <<clock, effects>>
        /\ reply' = [reply EXCEPT ![a] = [kind |-> "failed"]]
    BY <1>0, <1>8 DEF RollbackAttempt, ToldOf
  <2>. QED
    BY <1>0, <2>1, FailRefines
<1>9. ASSUME NEW a \in Attempts, CommitUnknown(a) PROVE Keyed!Next
  <2>. DEFINE t == [attempt[a] EXCEPT !.pc = "in_doubt"]
  <2>1. /\ attempt' = [attempt EXCEPT ![a] = t]
        /\ t.pc = "in_doubt" /\ t.began = attempt[a].began
        /\ attempt[a].pc = "commit" /\ reply[a] = NoAnswer
        /\ reply' = [reply EXCEPT ![a] = [kind |-> "unknown"]]
        /\ UNCHANGED <<clock, effects>>
    BY <1>0, <1>9 DEF CommitUnknown, AttemptAt, AttemptGoes, ToldOf, KeyTypeOK
  <2>2. AskedNow' = AskedNow
    <3>. HIDE DEF t
    <3>. QED
      BY <1>0, <2>1, OpenStep
  <2>3. AskedNow[a].stage = "open"
    <3>1. AskedOf(attempt[a]).stage = "open"
      BY <2>1 DEF AskedOf
    <3>. QED
      BY <3>1 DEF AskedNow
  <2>4. Keyed!Doubt(a)
    BY <2>1, <2>2, <2>3, Zenon DEF Keyed!Doubt, Keyed!Untold, NoAnswer, None, AskedNow
  <2>. QED
    BY <2>4 DEF Keyed!Next
<1>. QED
  BY <1>2, <1>3, <1>4, <1>5, <1>6, <1>7, <1>8, <1>9 DEF KeyNext, AttemptStep

(* Every attempt acts at one moment, on the operation or on what its       *)
(* latest execution left, and its client is told the truth about it, for   *)
(* any attempts, payloads, lifetime and clock.                             *)
THEOREM AttemptsAreAtomic == KeySpec => AttemptsActAtOnce
<1>1. KeyInit => Keyed!Init
  <2>. SUFFICES ASSUME KeyInit PROVE Keyed!Init
    OBVIOUS
  <2>1. \A a \in Attempts : AskedOf(attempt[a]) = [stage |-> "new", at |-> 0]
    BY DEF KeyInit, AskedOf
  <2>2. [a \in Attempts |-> AskedOf(attempt[a])] =
          [a \in Attempts |-> [stage |-> "new", at |-> 0]]
    BY <2>1
  <2>. QED
    BY <2>2 DEF KeyInit, Keyed!Init, Keyed!Untold, NoAnswer, None
<1>. QED
  BY <1>1, KeyInvariance, KeyedStep, PTL DEF KeySpec, AttemptsActAtOnce, Keyed!Spec
=============================================================================
