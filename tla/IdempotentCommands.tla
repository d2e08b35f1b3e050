------------------------- MODULE IdempotentCommands -------------------------
(***************************************************************************)
(* One idempotency key of one subject and route.  Every command of the API *)
(* that takes an Idempotency-Key runs in one transaction: take the         *)
(* advisory lock of the subject, read the record of the key, and either    *)
(* replay it or execute the operation and write the record.                *)
(*                                                                         *)
(* An attempt is one HTTP request carrying the key.  A client that did not *)
(* get an answer sends another attempt, at any time, also while the first  *)
(* is still running.  Statements of different attempts interleave; what a  *)
(* transaction wrote is invisible until it commits.                        *)
(***************************************************************************)
EXTENDS Integers

CONSTANTS
  Attempts,     \* requests that carry the key
  Payload,      \* fingerprint of each attempt's canonical payload
  Ttl,          \* lifetime of a record: 24 hours
  MaxClock      \* bound: how far time goes

ASSUME AttemptsAssumption == Ttl \in Nat \ {0} /\ MaxClock \in Nat

None == "none"
ASSUME NoneAssumption == None \notin Attempts

NoRecord == [by |-> None]
NoAnswer == [kind |-> None]

VARIABLES
  clock,    \* now() of a transaction that begins at this moment
  record,   \* the committed row of the key: the attempt that wrote it and created_at
  effects,  \* committed executions of the operation
  holder,   \* who holds the advisory lock of the subject
  attempt,       \* each attempt's transaction
  reply     \* what each attempt's client has been told

keyVars == <<clock, record, effects, holder, attempt, reply>>

AttemptPCs == {"new", "waiting", "read", "operate", "write", "commit", "in_doubt",
        "over"}

Execution == [by : Attempts, at : Nat]
Answer    == [kind : {"executed", "replayed", "conflict"}, of : Attempts]
ToldAttempt      == {NoAnswer} \cup {[kind |-> k] : k \in {"failed", "unknown"}}
             \cup Answer

KeyTypeOK ==
  /\ clock \in 0..MaxClock
  /\ record \in {NoRecord} \cup Execution
  /\ effects \subseteq Execution
  /\ holder \in {None} \cup Attempts
  /\ attempt \in [Attempts -> [pc : AttemptPCs, began : Nat, operated : BOOLEAN,
                          wrote : BOOLEAN, answer : {NoAnswer} \cup Answer]]
  /\ reply \in [Attempts -> ToldAttempt]

KeyInit ==
  /\ clock = 0
  /\ record = NoRecord
  /\ effects = {}
  /\ holder = None
  /\ attempt = [a \in Attempts |-> [pc |-> "new", began |-> 0, operated |-> FALSE,
                               wrote |-> FALSE, answer |-> NoAnswer]]
  /\ reply = [a \in Attempts |-> NoAnswer]

AttemptAt(a, pc) == attempt[a].pc = pc
AttemptGoes(a, pc) == attempt' = [attempt EXCEPT ![a].pc = pc]

\* created_at > now() - interval '24 hours', with now() of the reader.
Live(a) == record # NoRecord /\ record.at > attempt[a].began - Ttl

Same(a) == Payload[record.by] = Payload[a]

NextDay ==
  /\ clock < MaxClock
  /\ clock' = clock + 1
  /\ UNCHANGED <<record, effects, holder, attempt, reply>>

BeginAttempt(a) ==
  /\ AttemptAt(a, "new")
  /\ attempt' = [attempt EXCEPT ![a].pc = "waiting", ![a].began = clock]
  /\ UNCHANGED <<clock, record, effects, holder, reply>>

\* Faulty variant: the subject is not locked.
NoLock(a) ==
  /\ AttemptAt(a, "waiting")
  /\ AttemptGoes(a, "read")
  /\ UNCHANGED <<clock, record, effects, holder, reply>>

\* pg_advisory_xact_lock(hashtextextended(subject, 0))
LockSubject(a) ==
  /\ AttemptAt(a, "waiting")
  /\ holder = None
  /\ holder' = a
  /\ AttemptGoes(a, "read")
  /\ UNCHANGED <<clock, record, effects, reply>>

\* Replay the stored answer, or refuse a reuse of the key for another payload.
AnswerFromRecord(a) ==
  attempt' = [attempt EXCEPT
    ![a].pc = "commit",
    ![a].answer = [kind |-> IF Same(a) THEN "replayed" ELSE "conflict",
                   of   |-> record.by]]

ReadRecord(a) ==
  /\ AttemptAt(a, "read")
  /\ IF Live(a) THEN AnswerFromRecord(a) ELSE AttemptGoes(a, "operate")
  /\ UNCHANGED <<clock, record, effects, holder, reply>>

Operate(a) ==
  /\ AttemptAt(a, "operate")
  /\ attempt' = [attempt EXCEPT ![a].pc = "write", ![a].operated = TRUE]
  /\ UNCHANGED <<clock, record, effects, holder, reply>>

\* insert ... on conflict do update where the old row has expired.  A row an
\* uncommitted transaction has written makes the statement wait.  If a live
\* record won the race the answer is read from it, and what the operation has
\* done in this transaction is committed all the same.
WriteRecord(a) ==
  /\ AttemptAt(a, "write")
  /\ \A b \in Attempts \ {a} : ~attempt[b].wrote
  /\ IF Live(a)
       THEN AnswerFromRecord(a)
       ELSE attempt' = [attempt EXCEPT ![a].pc = "commit", ![a].wrote = TRUE,
                             ![a].answer = [kind |-> "executed", of |-> a]]
  /\ UNCHANGED <<clock, record, effects, holder, reply>>

Unlock(a) == holder' = IF holder = a THEN None ELSE holder

Over(a) == attempt' = [attempt EXCEPT ![a].pc = "over", ![a].wrote = FALSE]

Apply(a) ==
  LET done == [by |-> a, at |-> attempt[a].began] IN
  /\ record' = IF attempt[a].wrote THEN done ELSE record
  /\ effects' = IF attempt[a].operated THEN effects \cup {done} ELSE effects

\* Faulty variant: the answer is sent before COMMIT and stands if it fails.
AnswerEarly(a) ==
  /\ AttemptAt(a, "commit")
  /\ reply' = [reply EXCEPT ![a] = attempt[a].answer]
  /\ Over(a)
  /\ Unlock(a)
  /\ Apply(a) \/ UNCHANGED <<record, effects>>
  /\ UNCHANGED clock

CommitAttempt(a) ==
  /\ AttemptAt(a, "commit")
  /\ Apply(a)
  /\ reply' = [reply EXCEPT ![a] = attempt[a].answer]
  /\ Over(a)
  /\ Unlock(a)
  /\ UNCHANGED clock

\* Faulty variant: a session lock, which a rollback does not release.
LockLeaks(a) ==
  /\ attempt[a].pc \in AttemptPCs \ {"new", "in_doubt", "over"}
  /\ reply' = [reply EXCEPT ![a] = [kind |-> "failed"]]
  /\ Over(a)
  /\ UNCHANGED <<clock, record, effects, holder>>

\* The operation throws, a deadline passes, or the process dies before
\* COMMIT: the server rolls back and drops the lock.
RollbackAttempt(a) ==
  /\ attempt[a].pc \in AttemptPCs \ {"new", "in_doubt", "over"}
  /\ reply' = [reply EXCEPT ![a] = [kind |-> "failed"]]
  /\ Over(a)
  /\ Unlock(a)
  /\ UNCHANGED <<clock, record, effects>>

\* CommitOutcomeUnknownError: the client is answered 503 while the server has
\* yet to finish the COMMIT, still holding the lock.
CommitUnknown(a) ==
  /\ AttemptAt(a, "commit")
  /\ reply' = [reply EXCEPT ![a] = [kind |-> "unknown"]]
  /\ AttemptGoes(a, "in_doubt")
  /\ UNCHANGED <<clock, record, effects, holder>>

ResolveCommit(a) ==
  /\ AttemptAt(a, "in_doubt")
  /\ Apply(a) \/ UNCHANGED <<record, effects>>
  /\ Over(a)
  /\ Unlock(a)
  /\ UNCHANGED <<clock, reply>>

AttemptStep(a) ==
  \/ BeginAttempt(a) \/ LockSubject(a) \/ ReadRecord(a) \/ Operate(a) \/ WriteRecord(a)
  \/ CommitAttempt(a) \/ ResolveCommit(a)

KeyNext ==
  \/ NextDay
  \/ \E a \in Attempts : AttemptStep(a) \/ RollbackAttempt(a) \/ CommitUnknown(a)

KeySpec == KeyInit /\ [][KeyNext]_keyVars

\* Every request is carried on by the event loop and the server; the lock is
\* granted in the order of the waiting queue, so nobody is passed for ever.
KeyFairness ==
  \A a \in Attempts :
    /\ WF_keyVars(AttemptStep(a))
    /\ SF_keyVars(LockSubject(a))

FairKeySpec == KeySpec /\ KeyFairness

-----------------------------------------------------------------------------
(* Properties *)

(* The operation takes effect at most once in the lifetime of a record,    *)
(* although attempts overlap, are rolled back or lose their answer: the    *)
(* write that loses the race does not undo the operation, so it is the     *)
(* lock of the subject that this rests on.                                 *)
AtMostOncePerDay ==
  \A e, f \in effects : e # f => e.at + Ttl <= f.at \/ f.at + Ttl <= e.at

\* When an attempt arrived, and whether it is over.
AskedOf(t) ==
  [stage |-> IF t.pc \in {"new", "over"} THEN t.pc ELSE "open", at |-> t.began]

Keyed == INSTANCE KeyedRequests WITH
  now   <- clock,
  asked <- [a \in Attempts |-> AskedOf(attempt[a])],
  told  <- reply

(* However attempts overlap, fail or lose their answer, each acts at one   *)
(* moment: it executes the operation if the key is free, or is answered by *)
(* the latest execution; what its client is told is that, and a client     *)
(* whose COMMIT is in doubt has been told of neither (KeyedRequests).      *)
AttemptsActAtOnce == Keyed!Spec

(* Every attempt is answered in the end: a crash, a rollback or a COMMIT   *)
(* in doubt never leaves the lock of the subject behind.                   *)
EveryAttemptAnswered ==
  \A a \in Attempts : AttemptAt(a, "waiting") ~> reply[a] # NoAnswer
=============================================================================
