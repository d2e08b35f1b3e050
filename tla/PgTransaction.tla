--------------------------- MODULE PgTransaction ---------------------------
(***************************************************************************)
(* Transactions and the pool they take their clients from.  A call checks  *)
(* a client out, opens a transaction on it, lets a callback query, ends it *)
(* by COMMIT or ROLLBACK and gives the client back, or destroys it.        *)
(*                                                                         *)
(* A promise that loses a race is not cancelled.  After the deadline of a  *)
(* callback the callback goes on, and a statement it has sent runs; after  *)
(* the lifetime of a delivery's transaction everything goes on, the timer  *)
(* having destroyed the client, the server not knowing yet.  Calls with a  *)
(* lifetime are those of the worker.                                       *)
(*                                                                         *)
(* A client is one connection: the pool puts another in the place of one   *)
(* that was destroyed.  Clients bounds how many it makes.                  *)
(***************************************************************************)
EXTENDS Naturals, FiniteSets

CONSTANTS
  Calls,        \* calls of run, runAsQueueConsumer, runAnonymous and runRead
  Clients,      \* connections that the pool makes in its time
  PoolSize,     \* the connections it keeps at once
  SubjectOf     \* the subject of a call: one lock

Vacant == "vacant"
ASSUME PgTransactionAssumption ==
  /\ Vacant \notin Calls \cup Clients
  /\ PoolSize \in Nat \ {0}

CallKinds == {"run", "consumer", "read", "anonymous"}

VARIABLES
  sort,       \* what each call is: its kind, and whether it has a lifetime
  pgpc,       \* where each call is
  client,     \* the client a call holds, or has held
  live,       \* the client of a call was not yet released: ~`released`
  releases,   \* how often a call has released its client
  active,     \* the callback may query
  sending,    \* the query the callback is in: its set_config, the query itself
  expired,    \* the timer of the call's lifetime has fired
  answer,     \* what the caller was told
  pool,       \* each client: not made yet, idle, checked out, or destroyed
  session,    \* the server's side of a client: whose transaction is open on it
  committed,  \* calls whose transaction has committed
  stray       \* some query ran outside the transaction of its call

pgVars == <<sort, pgpc, client, live, releases, active, sending, expired, answer,
            pool, session, committed, stray>>

PgPCs == {"new", "connecting", "begin", "callback", "end", "late",
          "undo", "rollback", "over"}
PgAnswers == {"none", "result", "error", "deadline", "unknown"}

PgTypeOK ==
  /\ sort \in [Calls -> [kind : CallKinds, lifetime : BOOLEAN]]
  /\ pgpc \in [Calls -> PgPCs]
  /\ client \in [Calls -> Clients \cup {Vacant}]
  /\ live \in [Calls -> BOOLEAN]
  /\ releases \in [Calls -> 0..2]
  /\ active \in [Calls -> BOOLEAN]
  /\ sending \in [Calls -> {"nothing", "settings", "query"}]
  /\ expired \in [Calls -> BOOLEAN]
  /\ answer \in [Calls -> PgAnswers]
  /\ pool \in [Clients -> {"absent", "idle", "out", "gone"}]
  /\ session \in [Clients -> Calls \cup {Vacant}]
  /\ committed \subseteq Calls
  /\ stray \in BOOLEAN

PgInit ==
  /\ sort \in [Calls -> {s \in [kind : CallKinds, lifetime : BOOLEAN] :
                           s.kind = "anonymous" => ~s.lifetime}]
  /\ pgpc = [c \in Calls |-> "new"]
  /\ client = [c \in Calls |-> Vacant]
  /\ live = [c \in Calls |-> FALSE]
  /\ releases = [c \in Calls |-> 0]
  /\ active = [c \in Calls |-> FALSE]
  /\ sending = [c \in Calls |-> "nothing"]
  /\ expired = [c \in Calls |-> FALSE]
  /\ answer = [c \in Calls |-> "none"]
  /\ pool = [k \in Clients |-> "absent"]
  /\ session = [k \in Clients |-> Vacant]
  /\ committed = {}
  /\ stray = FALSE

-----------------------------------------------------------------------------
PgAt(c, pc)     == pgpc[c] = pc
PgGoto(c, pc)   == pgpc' = [pgpc EXCEPT ![c] = pc]
Takes(c)        == sort[c].kind = "run"            \* the lock of its subject
Doubts(c)       == sort[c].kind \in {"run", "consumer"}   \* knows of an unknown outcome
Open(c)         == client[c] # Vacant /\ session[client[c]] = c

\* What the caller is told, unless the timer has told it before: a call with a
\* lifetime tells of its deadline, whichever error that gave.
Answering(c, a) == answer' = [answer EXCEPT ![c] = IF @ = "none" THEN a ELSE @]
Failing(c)      == \/ Answering(c, "error")
                   \/ sort[c].lifetime /\ Answering(c, "deadline")

\* release(), or release(error), whether or not the timer has destroyed the
\* client before.  The pool takes back a client that is checked out, whoever
\* asks: a sound one is idle again, another destroyed.  On any other release
\* throws.
Released(c, sound) ==
  /\ live' = [live EXCEPT ![c] = FALSE]
  /\ releases' = [releases EXCEPT ![c] = @ + 1]
  /\ pool' = [pool EXCEPT ![client[c]] =
       IF @ # "out" THEN @ ELSE IF sound THEN "idle" ELSE "gone"]

\* destroyClient(): release(error), unless the call has released its client.
Destroyed(c) == IF live[c] THEN Released(c, FALSE) ELSE UNCHANGED <<live, releases, pool>>

\* pool.connect(): an idle client, or one more for one that was destroyed.
Connect(c) ==
  /\ PgAt(c, "new")
  /\ PgGoto(c, "connecting")
  /\ UNCHANGED <<sort, client, live, releases, active, sending, expired, answer, pool,
                 session, committed, stray>>

\* An idle client, or a new one where the pool has room.
Spare(k) ==
  \/ pool[k] = "idle"
  \/ /\ pool[k] = "absent" /\ \A j \in Clients : pool[j] # "idle"
     /\ Cardinality({j \in Clients : pool[j] = "out"}) < PoolSize

\* A client is handed over.  One that comes after the lifetime has passed is
\* destroyed at once.
Acquire(c) ==
  /\ PgAt(c, "connecting")
  /\ \E k \in Clients :
       /\ Spare(k)
       /\ client' = [client EXCEPT ![c] = k]
       /\ pool' = [pool EXCEPT ![k] = IF expired[c] THEN "gone" ELSE "out"]
  /\ live' = [live EXCEPT ![c] = ~expired[c]]
  /\ releases' = [releases EXCEPT ![c] = IF expired[c] THEN 1 ELSE 0]
  /\ PgGoto(c, IF expired[c] THEN "over" ELSE "begin")
  /\ UNCHANGED <<sort, active, sending, expired, answer, session, committed, stray>>

\* No client within checkoutTimeoutMs.
AcquireFails(c) ==
  /\ PgAt(c, "connecting")
  /\ PgGoto(c, "over")
  /\ Failing(c)
  /\ UNCHANGED <<sort, client, live, releases, active, sending, expired, pool, session,
                 committed, stray>>

\* The transactions of `run` wait for the lock of their subject.
SubjectFree(c) ==
  \A k \in Clients : session[k] # Vacant =>
    ~(Takes(session[k]) /\ SubjectOf[session[k]] = SubjectOf[c])

\* BEGIN, role, subject, timeouts, the lock, and the check of a job's actor.
BeginTransaction(c) ==
  /\ PgAt(c, "begin")
  /\ live[c]
  /\ ~expired[c]
  /\ Takes(c) => SubjectFree(c)
  /\ session' = [session EXCEPT ![client[c]] = c]
  /\ active' = [active EXCEPT ![c] = TRUE]
  /\ PgGoto(c, "callback")
  /\ UNCHANGED <<sort, client, live, releases, sending, expired, answer, pool, committed, stray>>

\* One of those statements fails (a timeout, a refused actor): there is a
\* transaction to undo if BEGIN was done, else the client is of no use.
BeginFails(c) ==
  /\ PgAt(c, "begin")
  /\ \/ /\ live[c]
        /\ session' = [session EXCEPT ![client[c]] = c]
        /\ PgGoto(c, "undo")
        /\ UNCHANGED <<live, releases, pool, answer>>
     \/ /\ Destroyed(c)
        /\ Failing(c)
        /\ PgGoto(c, "over")
        /\ UNCHANGED session
  /\ UNCHANGED <<sort, client, active, sending, expired, committed, stray>>

\* The callback queries: set_config first, if it still may.
Query(c) ==
  /\ PgAt(c, "callback")
  /\ active[c] /\ sending[c] = "nothing" /\ ~expired[c]
  /\ sending' = [sending EXCEPT ![c] = "settings"]
  /\ UNCHANGED <<sort, pgpc, client, live, releases, active, expired, answer, pool, session,
                 committed, stray>>

\* Faulty variant: the second look at the deadline is left out.
SendUnchecked(c) ==
  /\ sending[c] = "settings"
  /\ sending' = [sending EXCEPT ![c] = "query"]
  /\ UNCHANGED <<sort, pgpc, client, live, releases, active, expired, answer, pool, session,
                 committed, stray>>

\* Then the query, if it still may: the settings may have taken their time.
Send(c) ==
  /\ sending[c] = "settings"
  /\ sending' = [sending EXCEPT ![c] =
       IF active[c] /\ ~expired[c] THEN "query" ELSE "nothing"]
  /\ UNCHANGED <<sort, pgpc, client, live, releases, active, expired, answer, pool, session,
                 committed, stray>>

\* The query runs, on whatever its client is then doing.
RunQuery(c) ==
  /\ sending[c] = "query"
  /\ pool[client[c]] # "gone"
  /\ sending' = [sending EXCEPT ![c] = "nothing"]
  /\ stray' = (stray \/ ~Open(c))
  /\ UNCHANGED <<sort, pgpc, client, live, releases, active, expired, answer, pool, session,
                 committed>>

\* A query on a client that was destroyed fails, or has failed otherwise.
QueryFails(c) ==
  /\ sending[c] # "nothing"
  /\ sending' = [sending EXCEPT ![c] = "nothing"]
  /\ IF PgAt(c, "callback")
       THEN active' = [active EXCEPT ![c] = FALSE] /\ PgGoto(c, "undo")
       ELSE UNCHANGED <<active, pgpc>>
  /\ UNCHANGED <<sort, client, live, releases, expired, answer, pool, session, committed, stray>>

\* The callback throws, or finds that it may not query any more.
CallbackFails(c) ==
  /\ PgAt(c, "callback")
  /\ sending[c] = "nothing"
  /\ active' = [active EXCEPT ![c] = FALSE]
  /\ PgGoto(c, "undo")
  /\ UNCHANGED <<sort, client, live, releases, sending, expired, answer, pool, session,
                 committed, stray>>

\* deadline(): the race is lost, and the callback goes on without a client.
CallbackDeadline(c) ==
  /\ PgAt(c, "callback")
  /\ ~sort[c].lifetime /\ sort[c].kind # "anonymous"
  /\ active' = [active EXCEPT ![c] = FALSE]
  /\ PgGoto(c, "undo")
  /\ UNCHANGED <<sort, client, live, releases, sending, expired, answer, pool, session,
                 committed, stray>>

CallbackEnds(c) ==
  /\ PgAt(c, "callback")
  /\ sending[c] = "nothing"
  /\ active' = [active EXCEPT ![c] = FALSE]
  /\ PgGoto(c, IF expired[c] THEN "undo" ELSE "end")
  /\ UNCHANGED <<sort, client, live, releases, sending, expired, answer, pool, session,
                 committed, stray>>

\* A client runs its queries in the order they were sent.
CallEnds(c) == Open(c) /\ sending[c] # "query"

Close(c) == session' = [session EXCEPT ![client[c]] = Vacant]

\* COMMIT, or the ROLLBACK of a read, is answered.
EndOk(c) ==
  /\ PgAt(c, "end") /\ CallEnds(c) /\ live[c]
  /\ committed' = IF sort[c].kind = "read" THEN committed ELSE committed \cup {c}
  /\ Close(c)
  /\ Released(c, TRUE)
  /\ Answering(c, "result")
  /\ PgGoto(c, "over")
  /\ UNCHANGED <<sort, client, active, sending, expired, stray>>

\* Faulty variant: no call says that it does not know.
EndFailsPlainly(c) ==
  /\ PgAt(c, "end") /\ CallEnds(c) /\ live[c]
  /\ \/ UNCHANGED committed
     \/ sort[c].kind # "read" /\ committed' = committed \cup {c}
  /\ Close(c)
  /\ PgGoto(c, "undo")
  /\ UNCHANGED <<sort, client, live, releases, active, sending, expired, answer, pool, stray>>

\* COMMIT is not answered, or is refused: the transaction may have committed.
\* run and runAsQueueConsumer destroy the client and say that they do not know;
\* runAnonymous and runRead roll back and take it for an error like another.
EndFails(c) ==
  /\ PgAt(c, "end") /\ CallEnds(c) /\ live[c]
  /\ \/ UNCHANGED committed
     \/ sort[c].kind # "read" /\ committed' = committed \cup {c}
  /\ Close(c)
  /\ IF Doubts(c)
       THEN Released(c, FALSE) /\ Answering(c, "unknown") /\ PgGoto(c, "over")
       ELSE PgGoto(c, "undo") /\ UNCHANGED <<live, releases, pool, answer>>
  /\ UNCHANGED <<sort, client, active, sending, expired, stray>>

\* The deadline of a lifetime, its timer's or a statement's: no ROLLBACK.
UndoAtDeadline(c) ==
  /\ PgAt(c, "undo") /\ sort[c].lifetime
  /\ Destroyed(c)
  /\ Answering(c, "deadline")
  /\ PgGoto(c, "over")
  /\ UNCHANGED <<sort, client, active, sending, expired, session, committed, stray>>

\* Any other error: if the client was not released, ROLLBACK is sent.
RollBack(c) ==
  /\ PgAt(c, "undo") /\ live[c]
  /\ PgGoto(c, "rollback")
  /\ UNCHANGED <<sort, client, live, releases, active, sending, expired, answer, pool,
                 session, committed, stray>>

\* ROLLBACK is answered, or fails, and the client is released without another
\* look: the timer may have destroyed it meanwhile.
RolledBack(c) ==
  /\ PgAt(c, "rollback")
  /\ \/ /\ sending[c] # "query" /\ pool[client[c]] # "gone"
        /\ session' = [session EXCEPT ![client[c]] = IF @ = c THEN Vacant ELSE @]
        /\ Released(c, TRUE)
     \/ Released(c, FALSE) /\ UNCHANGED session
  /\ Answering(c, "error")
  /\ PgGoto(c, "over")
  /\ UNCHANGED <<sort, client, active, sending, expired, committed, stray>>

\* The timer of a lifetime: destroyClient, and the caller is told.
LifetimePasses(c) ==
  /\ sort[c].lifetime /\ ~expired[c]
  /\ pgpc[c] \notin {"new", "over"}
  /\ expired' = [expired EXCEPT ![c] = TRUE]
  /\ Destroyed(c)
  /\ Answering(c, "deadline")
  /\ UNCHANGED <<sort, pgpc, client, active, sending, session, committed, stray>>

\* What goes on without a client ends: each query fails, the COMMIT that was
\* sent as well, whatever the server makes of it.
GoesOn(c) ==
  /\ expired[c] /\ ~live[c] /\ client[c] # Vacant
  /\ pgpc[c] \in {"begin", "callback", "end"}
  /\ active' = [active EXCEPT ![c] = FALSE]
  /\ PgGoto(c, IF PgAt(c, "end") THEN "late" ELSE "over")
  /\ UNCHANGED <<sort, client, live, releases, sending, expired, answer, pool, session,
                 committed, stray>>

\* The server learns that a client was destroyed, and rolls back; a COMMIT it
\* had received is carried out first.
ServerNotices(k) ==
  /\ pool[k] = "gone" /\ session[k] # Vacant
  /\ \/ UNCHANGED committed
     \/ /\ pgpc[session[k]] \in {"end", "late"} /\ sort[session[k]].kind # "read"
        /\ committed' = committed \cup {session[k]}
  /\ session' = [session EXCEPT ![k] = Vacant]
  /\ UNCHANGED <<sort, pgpc, client, live, releases, active, sending, expired, answer, pool, stray>>

-----------------------------------------------------------------------------
PgStep(c) ==
  \/ Connect(c) \/ Acquire(c) \/ AcquireFails(c)
  \/ BeginTransaction(c) \/ BeginFails(c)
  \/ Query(c) \/ Send(c) \/ RunQuery(c) \/ QueryFails(c)
  \/ CallbackFails(c) \/ CallbackDeadline(c) \/ CallbackEnds(c)
  \/ EndOk(c) \/ EndFails(c)
  \/ UndoAtDeadline(c) \/ RollBack(c) \/ RolledBack(c)
  \/ LifetimePasses(c) \/ GoesOn(c)

PgNext == (\E c \in Calls : PgStep(c)) \/ \E k \in Clients : ServerNotices(k)

PgSpec == PgInit /\ [][PgNext]_pgVars

-----------------------------------------------------------------------------
Holding(k) == {c \in Calls : live[c] /\ client[c] = k}

(* A client that is checked out belongs to one call, that has not released  *)
(* it and will.  The timer of a lifetime can destroy a client while its     *)
(* call awaits ROLLBACK, and the call then releases it again: what is       *)
(* released twice is a client that was destroyed, never one that the pool   *)
(* has handed to another call.  A client in the pool carries no             *)
(* transaction, and nothing a callback does after its time runs on a client *)
(* that has passed to another call.                                         *)
ClientsChangeHandsClean ==
  /\ \A k \in Clients : /\ (pool[k] = "out") = (Holding(k) # {})
                        /\ Cardinality(Holding(k)) <= 1
                        /\ pool[k] = "idle" => session[k] = Vacant
  /\ \A c \in Calls : /\ live[c] => ~PgAt(c, "over") /\ releases[c] = 0
                      /\ releases[c] > 1 => expired[c] /\ pool[client[c]] = "gone"
  /\ ~stray

(* What a caller of run, runAsQueueConsumer or runRead is told of its       *)
(* transaction is true: a result has been committed, an error has not and   *)
(* will not be, and where that cannot be known the answer says so.  Only    *)
(* runAnonymous, which writes too, calls a COMMIT that was not answered an  *)
(* error: an error of its calls may have committed.                         *)
AnswersTellTheOutcome ==
  \A c \in Calls :
    /\ answer[c] = "result" /\ sort[c].kind # "read" => c \in committed
    /\ answer[c] = "error" /\ sort[c].kind # "anonymous" => c \notin committed
=============================================================================
