# Savia backend: TLA+ models and proofs

Savia is the backend of a household-finance application: a NestJS API over one
PostgreSQL database (row-level security, `pgmq` for jobs, Supabase storage for
files), and a worker process that runs reports, forecasts, exports and receipt
recognition. This directory models the parts of it whose correctness depends
on the order in which several actors act, checks the models with TLC on small
instances, and proves their main properties with TLAPS for all sizes.

Source paths below are relative to `src/src/` unless they start with
`supabase/` (which is `src/supabase/`) or `test/` (`src/test/`).

## 1. The system

### Parts, state, operations

| Part | State it keeps | Operations | Where | Module |
|---|---|---|---|---|
| Job queue, worker, retry policy | pgmq message (place, `read_ct`), `jobs` row, bound `report_runs`/`export_jobs` row | claim, start, compute, persist+complete, fail, dead-letter, orphan, ack, archive, defer | `platform/job-runner.ts`, `job-retry-policy.ts`, `pgmq-job-queue.adapter.ts`, `supabase/migrations/20260910001[6-8]*` | `JobQueue` |
| Budgets of a delivery | the clock of its lease | forWork, forTerminal | `platform/delivery-deadline.ts`, `worker-config.ts` | `DeliveryLease` |
| Bounded stages | permits, line of waiters, stage state, overrun registry | start, settle, time out, clean up, overrun | `platform/job-runner.ts:1014`, `async-semaphore.ts` | `BoundedStages` |
| PDF renderer | browsers, the renders in them, the launch on its way | render, launch, quarantine, drain, destroy | `platform/playwright-pdf-renderer.ts` | `PdfRenderer` |
| Database layer | pool, clients, one transaction per call, the subject's lock | run, runRead, runAnonymous, runAsQueueConsumer | `platform/pg-transaction.ts` | `PgTransaction` |
| Idempotent commands | `command_idempotency_records` (24 h) | read, execute, write, re-read, replay | `platform/idempotency.service.ts` | `IdempotentCommands` |
| Memberships | `workspace_memberships`, owner guard | change role, remove | `identity/workspace-member.service.ts`, migrations 202607150011/12 | `WorkspaceMembers` |
| Ledger, accounts, reconciliations | `transactions`, `ledger_postings`, `accounts`, `reconciliations` | create, update, void, transfer, exchange; close, reopen; open, complete | `ledger/`, `accounts/`, `reconciliations/` | `Ledger` |
| Receipts | receipt row, stored image, recognition job, the transaction that names it | upload, recognise, fail, confirm | `receipts/` | `Receipts` |
| Imports | import row, the transactions of its rows | commit, roll back | `imports/` | `Imports` |
| Agent messages | `agent_message_idempotency`, `agent_message_runs`, rate window | prepare, stream, save, abort | `agent/agent-message*` | `AgentMessages` |
| Approvals | one row with an expiry | approve, reject, replay | `approvals/` | `Approvals` |
| Command-line devices | authorization, token, rate window | authorize, approve, poll | `cli-device/` | `CliDevices` |
| Recurring rules | rule and its next occurrence | compute the occurrence | `recurring/occurrence.ts` | `Occurrence` |
| Lists | a cursor | read a page, of 18 lists | each `*.adapter.ts`, `platform/cursor.ts` | `Paging` |
| The services and endpoints over all of these, and over workspaces, invitations, profiles, catalogs, rates, budgets, funds, debts, scenarios, reports, forecasts, exports, credentials, grants, notifications, conversations | one row each, a version, a key | create, read, update, revoke, ... | `*.service.ts`, `*.controller.ts` | `Commands` and the catalogues it extends |

`PROJECT.json` lists every part with its files and whether it is modelled.

### How they interact

* Every write goes through `PgTransaction`: READ COMMITTED, one transaction per
  request, and first of all the advisory lock of the **subject**, so that the
  transactions of one user follow one another. Transactions of different users
  interleave statement by statement. Anonymous calls (devices) take no lock.
* Row security looks at the caller's **role** again for each statement, and who
  takes a role away locks nothing its holder has locked. A role can therefore be
  lost between two statements of one transaction.
* The ledger, accounts, reconciliations, imports, funds and debts share one
  advisory lock per **account**, by agreement of the writers; imports have one
  per **workspace** besides.
* A request that starts a job writes the job, its message and the run row in
  one transaction. The worker claims messages under a visibility timeout and
  works in separate transactions, as the job's creator, whose role it checks
  again in each. SQL wrappers (`start_job`, `complete_job`, `fail_job`,
  `dead_letter_job`, `fail_orphaned_job`) guard the status, triggers carry a
  failure over to the run row or the receipt.
* Almost every command is idempotent under a client's key: some through
  `IdempotencyService`, some by the same steps inlined in the service; updates
  take a version in If-Match.

### What is hard, and what makes each part correct

1. *Deliveries overlap.* A lease may run out while its worker is alive; a COMMIT
   may succeed and be reported as failed; a crash may come between any two
   steps. Correct: an accepted job ends once, its effect is committed exactly
   if it completed, its message is dropped only after that, its run row agrees.
2. *Attempts overlap.* A client repeats a command whose answer it did not get.
   Correct: one execution in the lifetime of a record, and true answers.
3. *Two statements of a transaction see two states.* What was read is stale when
   it is used. Correct: an owner remains, administrators do not reach owners,
   no update is lost, nothing is voided, claimed or imported twice, a receipt
   has one transaction, an approval one decision, a device one token.
4. *Locks cross.* Correct: account locks never do; row locks of memberships may,
   and then one request is refused.
5. *One step of several fails.* The save after a stream that was already shown,
   the row after an upload, the last UPDATE of a reconciliation or an import,
   which misses when its caller's role is gone. Correct: a refusal leaves nothing
   behind; where the code does leave something, section 3 says so.
6. *What was started does not obey.* An engine ignores its abort, a statement
   runs on after its timer, a browser will not close. Correct: permits are
   neither lost nor doubled, no client of the pool is handed on with somebody's
   transaction, no browser is left running, and the caller is answered.
7. *Boundaries of numbers.* The end of a record's lifetime, the least budget of
   an operation, microseconds in a cursor, the 29th of February.

`PROJECT.json`, "hazards", has each of these at its line, with the properties
that would catch it.

## 2. The modules

`M.tla` is a model, `MProofs.tla` its theorems (`RuntimeProofs` has those of
`DeliveryLease`, `PgTransaction`, `PdfRenderer` and `BoundedStages`, `OnceProofs`
those of `Approvals`, `CliDevices`, `Receipts`, `Imports` and `Paging`), `MC*.tla`
the constants of small instances. No module uses RECURSIVE operators. Definitions
called "Faulty variant" are not part of any specification: each is a plausible bug in the definition that follows it, put
in its place to see that a property notices.

### JobQueue, JobLifecycle

`JobQueue` has a slot per concurrent delivery (`delivery`: where it is, its job,
the `read_ct` it claimed), the job rows (`status`, `attempt`), the bound rows
(`run`), the committed effects (`results`), the message (`msg`), the creators'
roles and the spent faults. Each transaction of the runner is an action, because
it holds the subject's lock and each wrapper locks the job row; everything
between two transactions is a separate action. `T1*` is `processMessage` up to
`start_job`, `Compute*` the handler (with render and store), `T2*` the
transaction of `persist` and `complete_job`, `FailJob`/`DeadLetter` the failure
transactions, `Recheck` is `resolveP0001WriteRefusal`, `FailOrphaned*` the path
of a creator who lost the role, `Ack`/`Archive`/`Defer` the queue operations.
`LeaseExpiresEarly` is a lease that runs out under a busy worker, `Abandon` a
crash, an exhausted budget or a queue error, `T2CommitUnknown` a COMMIT without
its answer. Report and export jobs are kind "run", forecasts kind "insert"
(their rows have no unique key on the job).

`JobLifecycle` is the contract: accept, end once, take effect exactly when
completed, drop the message after the end. `JobQueue!Contract` is the
refinement mapping.

### DeliveryLease

The operations of one delivery against a clock: `ClaimMessage` at the server,
`ClaimAnswered` here (at most `ClaimLatency` later), then each operation with
the least of its cap and of what is left (`Given`), and idle time in between.
An operation that fails, or that finds the job over, is followed by what the
runner still writes (`Afterwards`): the end of the job (`writeoff`) and the
message's deferral, archive or acknowledgement (`settle`).
`WorkerConfig` is what the constructor of `WorkerConfig` requires of the
budgets. `JobQueue` lets a lease run out early; this module says when the code
keeps that from happening.

### BoundedStages

`executeBoundedStage` over the permits of `ocrSemaphore`. One JavaScript thread:
an action is a timer or the settling of an engine, together with the promise
reactions that follow before the next timer. `Start` is `acquire`, `Settle` is
`releaseOne`, `TimesOutWaiting` is the abort of a waiter, `TimesOut`,
`CleansUp`, `Overruns`, `SettlesLate` are the two timers and the late end. An
engine may ignore the abort for ever.

### PdfRenderer

A *generation* is a browser and what is known of it. `StartRender` and `Admit`
find the current one, wait for the launch on its way or start one; `Launched`,
`LaunchFails`, `Disconnected` and `BrowserEnds` are the browser;
`ContextOpens`, `PageOpens`, `SettleRender`, `EndRender` a render in its
generation; `Quarantine`, `DrainTimer`, `Leave` a generation whose context
could not be closed; `Destroy` and `DestroyGoesOn` the stop of the worker. Two
fields of `gen` are of the model alone and say so: whether a browser was told to
close, and whether its drain timer went off.

### PgTransaction

The four ways to run a transaction over a pool. `Acquire` checks a client out,
`BeginTransaction` opens the transaction and takes the subject's lock, `Send` is
a query with the look at the deadline before and after its `set_config`,
`CallbackEnds`/`CallbackFails`/`CallbackDeadline` settle the race of the
callback with its deadline, `EndOk`/`EndFails` are COMMIT, `RollBack` and
`RolledBack` are ROLLBACK before and after it is awaited, `UndoAtDeadline` is an
end without it, `LifetimePasses` and `GoesOn` are the timer of the worker's
transactions, which destroys the client (`Destroyed`) while everything behind it
goes on. A promise that loses a race is not cancelled: `sending` is the query it
has under way. `Released` releases unconditionally, as the code does after
ROLLBACK: the timer may have destroyed the client meanwhile, so `releases` counts
to two, and the second release is refused by the pool. The server's side of a
client is `session`; a destroyed client is replaced as long as `PoolSize` allows.

### IdempotentCommands, KeyedRequests

One key of one subject. `Attempts` are requests with the key, `Payload` their
fingerprint. `BeginAttempt` fixes the transaction's `now()`, `LockSubject` takes
the subject's lock, `ReadRecord`, `Operate`, `WriteRecord`, `CommitAttempt`
follow `IdempotencyService.execute`, with `AnswerFromRecord` for replay and
conflict. `CommitUnknown` leaves the server to finish or abort by itself
(`ResolveCommit`), `RollbackAttempt` is any failure before. The clock moves
between any two steps.

`KeyedRequests` is what clients are promised, without locks and records: an
attempt arrives and then acts at one moment. It executes the operation if no
execution is younger than the lifetime (`Execute`), or else the latest one
answers (`Recall`), or it fails; its client is told just that, unless it was told
that nobody knows (`Doubt`). An attempt of `IdempotentCommands` acts when its
transaction ends.

### WorkspaceMembers, WorkspaceRoster

`row` holds the memberships, `tx` the open transaction of each caller with its
row locks and what it has written but not committed. The actions are the
statements of `updateWorkspaceMember` and `removeWorkspaceMember`: the caller's
and the target's row (`CheckCaller`, `CheckTarget`), the count of remaining
owners (`Retain`), the conditional write under the row policies (`WriteBegins`,
`WriteRow`), the deferred guard (`Trigger`, which locks owners one by one:
`LockRow`), `Commit`. A statement that waited for a row judges by what the other
transaction left there, but by its caller's role as of its beginning: the
policies read the role through the statement's snapshot. `Deadlock` and `Abort`
are the server's.

`WorkspaceRoster` is what callers are promised, without statements and locks:
ask, be allowed by the role one has at a moment, take effect at another (`Apply`)
over the row as it is then, or drop. A request of `WorkspaceMembers` is allowed
when the statement that writes begins and takes effect at its COMMIT
(`RequestOf`).

### Ledger

`account`, `txn`, `postings`, `recon` are the rows; `tx` is each request's
transaction with its account locks and row locks. `Begin` is everything before
the locks: the role, and for an update or a void the pre-read of the row, kept
in `seen`. `Lock` takes account locks in id order, `Inspect` reads under them,
`Write` is the conditional UPDATE (or the inserts) with its row lock, `Commit`
makes the effect visible. `Complete` is a completion whose last UPDATE finds the
reconciliation open; `CompleteByHalf` is one whose caller lost the role after
`reconcileTransactions`: it is refused (`half`), and commits what `Reconcile` has
marked and the adjustment. Amounts are left out; a posting pair counts with its
sign and carries two statuses: of its own account and of the other side.

### Receipts, Imports

`Receipts` has the upload (`SendObject`, outside the transaction, `WriteReceipt`,
`CommitReceipt`, whose answer may be lost, and the clean-up of the object when
the transaction throws), the deliveries of the recognition job (`Bind`,
`Recognise` between two transactions, `Persist` with its conditional update),
the failure trigger (`FailJob`), and requests that post a transaction, either
by confirming the receipt (`Claim`, `CreateTransaction`, `ConfirmReceipt`) or
directly (`PostDirectly`, `CommitDirect`). `JobQueue` is behind `DropDelivery`
and `FailJob`.

`Imports` has the commits and rollbacks of files that overlap, with the locks of
the workspace and the account, the second look under them, the rows that count
as duplicates, and the transactions they write or void. A file has lines, and
several may say the same row: the duplicate check compares lines with the
account, not with each other (`Importable`). Beside them are people who edit
transactions, the date and the description included (`EditEntry`), void or
reconcile them, and close accounts, and an administrator who takes the caller's
role away (`LoseImporterRole`). From then on an INSERT raises (`Import`,
`AbortImport`) and the last UPDATE misses, so that `CommitImport` and
`RollbackImport` answer a conflict and commit what was written: outcome `half`.

### AgentMessages

One Idempotency-Key of one conversation. `key` is the reservation row, `runs`
the saved runs, `req` each request in the process, `told` what its client
learned. `Reserve`, `Limited`, `Conflict`, `Replay`, `NotFound` are `prepare`;
`StreamEnds`, `StreamThrows`, `Save`, `SaveFails`, `SaveAgain`, `Release` are
`execute`; `Abort` is the signal, `Stops` a crash. A run's events are told apart
by the terminal one. A provider that throws is part of the port's contract; the
local provider in the repository does not.

### Approvals, CliDevices

`Approvals` is one approval and requests of several subjects and keys: the read
of the record and the row (`ReadApproval`), the conditional update
(`UpdateDecision`, which waits for the row), COMMIT, its lost answer, and the
clock. `CliDevices` has authorizations, approvals with the limit of each person
(`Approve` counts also codes that it refuses), and polls: the count of the
window (`BeginPoll`), the redemption (`Redeem`, which holds the row), the token
and COMMIT (`IssueToken`, whose answer may be lost), and a rollback that takes
the count back.

### Occurrence

`computeNextOccurrence`: from the start of a rule, period by period, past the
present (`NextIteration`), with the limit of iterations (`GiveUp`) and the
judgement of the end (`Judge`). `Stepped` and `StepFrom` are the steps by
cadence and by RRULE, over a calendar with months of their length and no last
year: `MonthStart` counts days and leap years as the Date of the language does,
and `MonthOf` is its inverse. The reference definition, `IsDate`, does not step:
it says which days are on the grid of the rule. `ParsedRule` is what `parseRRule`
lets through, and the constants are assumed to ask for no more. Left out: the
end of what a Date can hold (some 270 000 years on, where an interval large
enough makes an invalid one), and the years 0 to 99, which Date.UTC moves.

### Paging

A list is what three places make of it: the order of its statement (`...Rows`),
the cursor of its service (`List...`) and what its query expects of a cursor
(`...Query`). A client walks a list with limits that change, while rows are
written behind and before its cursor, change places, leave the filter, and the
reader is suspended.

### CommandSteps, the three catalogues, Commands, OperationShapes

What the remaining services do is little, but there are some fifty of them, and
each inlines it in its own order. `CommandSteps` has the steps: a refusal that
depends on data left out (`Ask`), the replay of a key (`Replay`, `ReplayAny`),
reads (`Find`, `Look`), the advisory lock of a row (`LockOn`), checks of what was
read (`Is`, `Match`), writes (`Insert`, `InsertUnique` and `InsertSaved`, `Put`,
`PutIf`, `PutVersion`) and the record of the key (`Record`). `AccountCommands`,
`IdentityCommands` and `PlanningCommands` write each service as the sequence of
its steps, in the order of the code, and each endpoint with the status of every refusal its controller
handles. `Commands` runs two of them at a time, each step an action: a command
`alone`, a command and its `retry`, a command and a `reuse` of its key, and
`rivals`, pairs of commands of two people about the same rows. Before any
conditional update of a row that a role guards, the caller may have lost it
(`LoseRole`): the update misses, and the service refuses as if the row had changed.
`halves` has the requests that had written something by then. Elsewhere a lost
role is an error, as an INSERT raises and `reconcileTransactions` counts its rows
(`AbortCommand`). The three lists meet in `CommandCatalogue`, with the two
commands that can leave something by half (`LeftByHalf`).

`OperationShapes` says how the commands are made, and why they may meet: a check
is of a row that was read; the endpoint has a status for every refusal; who
changes the state of a guarded row takes its lock; a refusal that is returned
comes before the first write, or cannot happen; a check is of a row under its
lock, of a version that is written, or of a state in which alone the row is
written; a command that may be sent again looks for its record before it writes
and records what it did, names the version, or takes the row out of the state it
is for. The proofs rest on these shapes and on nothing else of the catalogue.
TLC finds that every command has them (`CatalogueAssumption`) when it begins the
runs of `MCLedger`, which extends the module for that; `MCCommands` does not, so
that a faulty variant of a command is found by what it does in the run, rather
than by its shape.

### MCRuntime, MCRequests, MCCommands

Modules that share no state are checked together: a variable `part`, chosen at
the start, says which of them a behaviour runs, and the others keep one initial
state. The state space is the sum of theirs, and so are the properties.

## 3. What the runs check

| Run | Instance | Shows |
|---|---|---|
| `jobs` | 2 jobs (a report, a forecast), 2 subjects, 2 slots, 2 attempts, 2 faults | `ExactlyOnce`, `DeadLetterIsLastResort`, `LiveJobHasMessage`, `RunAgreesWithJob` |
| `job_ends` | 1 job, 2 slots, 3 faults, with fairness | `EveryJobEnds`, `EveryMessageSettles`, `ImplementsContract` |
| `ledger` | 2 accounts, 2 transactions, 2 reconciliations, 4 requests | `ReversedOnce`, `ClaimedOnce`, `BooksMatchStatuses`, `NoCrossedWaits`, `NoWorkInClosedAccounts` |
| `runtime` | members: 2, 3 requests, 3 founding pairs | `AnOwnerRemains`, `OwnersAreOutOfReach`, `ImplementsRoster`, `EveryRequestEnds` |
| | messages: 3 requests, 2 bodies, limit 1, 2 minutes, 2 faults | `OneRunPerKey`, `ToldTheSame` |
| | stages: 4, 2 permits | `PermitsAreConserved`, `EveryStageAnswered` |
| | database: 2 calls of every kind, a pool of 1, 2 clients in its time | `ClientsChangeHandsClean`, `AnswersTellTheOutcome` |
| | lease: visibility 18, least operation 1, operations that fail | `NoWriteOutlastsTheLease` |
| `requests` | keys: 2 attempts and 1 abuse of a key, lifetime 1, clock to 2 | `AtMostOncePerDay`, `AttemptsActAtOnce`, `EveryAttemptAnswered` |
| | receipts: 1, 2 deliveries, 2 posts under 2 keys | `ReceiptsHold`, `RecognitionSettles` |
| | renders: 2, 2 admissions each | `EveryRenderEnds` |
| `commands` | every operation alone, retried, reused; 29 pairs of rivals | `SentTwiceDoneOnce`, `RefusalsLeaveNothing`, `ChecksStillHold`, `DefaultIsActive` |
| | imports: 2 files that overlap, 2 equal lines in one, 3 commits, 1 rollback, 2 accounts, lost roles | `ImportsAreWhole`, `RowsAreImportedOnce` |
| | lists: 16, 3 rows, 2 instants, limits 1 and 2, 1 change | `WalksListEachRowOnce` |
| | approvals: 3 decisions, 2 subjects, an expiry | `AnswersMatchTheDecision` |
| | devices: 1, 2 people, 2 polls, 2 addresses, 1 approval each | `OneTokenPerApproval` |
| | rules of every kind, 4 starts, 6 distances, 3 terms | `NextOccurrenceIsNext` |
| | renders: 3, 1 admission each | `BrowsersAreAccountedFor` |
| `job_demoted` | 1 job, 1 slot | refutes `DemotedCreatorIsAcked` |
| `ledger_mixed`, `ledger_frozen`, `ledger_closed` | 3 or 4 requests | refute `NoMixedPostings`, `ReconciledIsFrozen`, `ClosedIsSettled` |
| `agent_abort` | 2 requests, no fault | refutes `AbortReleasesKey` |
| `paging_grants` | the 2 lists with a cursor in milliseconds | refutes `WalksListEachRowOnce` of them |

The comment before each property says what it means. Deadlock is checked in the
runs of the job queue, which never stops; the others say `CHECK_DEADLOCK FALSE`,
because the requests of an instance are finitely many and, once they are
answered, nothing is left to do.

### Bounds, and why they suffice

* *Job queue.* `MaxAttempts` 2 has a first, a last and an exhausted attempt;
  `ReadCtCap` 3 is one more than that, and counting further changes no guard.
  `MaxFaults` bounds crashes, early leases and lost replies: two are enough for
  an overlap in which one delivery commits unseen. Two slots overlap on one job
  or work on two; slots are symmetric. The liveness run has one job, since jobs
  meet only in the slots, and a third fault.
* *Ledger.* The second transaction is the adjustment, the second account the
  other end of a transfer. Four requests allow create, open, and two that race.
  The violations need three (create, PATCH, void; create, close, PATCH) or four.
* *Members.* Requests are what interleave: of three, two cross and the third
  hits what they left. With two requests, the bug of a transaction that does not
  run its deferred guard goes unnoticed. Founding pairs are two owners, an owner
  with a suspended one, an owner with an administrator.
* *Agent.* One request reserves, one overlaps, one comes after; a limit of 1
  is reached at once and renewed by the second minute; one fault for the stream
  or the save, one for the second save or a crash.
* *Stages.* Two hold permits, two wait, so the line has an order.
* *Database.* A pool of one (`PoolSize`) is enough for a client to change hands,
  and a second client takes the place of one that was destroyed; two calls of four
  kinds, with and without a lifetime, meet on it and on the subject's lock.
* *Lease.* `Visibility` is the least that `WorkerConfig` allows for the caps
  chosen, so that nothing is to spare; `LastMoment` lies beyond the lease.
* *Idempotency.* Lifetime 1 and clock 2 let a record expire under a waiting
  attempt and a second one be written. The third attempt has another payload.
* *Receipts.* Two deliveries overlap or follow; two posts of different keys, by
  either way, are the rivals.
* *Commands.* Operations meet in pairs, and a third request meets one of them;
  the rivals are all the pairs that write one row or check what the other
  writes. `Ask` may refuse at any place, and any step may fail.
* *Imports.* Two commits of one file to two accounts, one of the file that
  overlaps, one rollback. The one row of the files is on two lines of the first and one of
  the second; `Texts` has what it says and what an edit makes of it. One edit,
  void or reconciliation by others (`MaxEdits`), besides those of the rollback, is
  enough for a transaction to be another row than its line, and for a version that
  is stale when a rollback voids. Every caller may lose the role at every step.
* *Lists.* Three rows with limits 1 and 2 have a full page, a last one and a row
  that is one too many; two instants (in `paging_grants` they lie within one
  millisecond) make ties; `MaxChanges` 1 moves a row once.
* *Approvals and devices.* Two of a subject with one key, one rival; ticks
  before, at and after the expiry. Of two polls one is repeated or early. One
  approval per person (`ApprovalLimit`): a second of the same person changes
  nothing, and the limit is reached at once.
* *Rules.* The years 2096 to 2108 have a leap year, seven years without one, as
  2100 is none, and the next. Starts are at the end of a month, on a leap day
  and before a turn of the year; distances reach from before the start to two
  years on. `MaxIterations` is 20 instead of 10 000, so that it is reached.
* *Renders.* Two renders with two admissions each come back after a quarantine;
  three with one share a browser in which one fails, one stays and one leaves.

### Fairness

* *Job queue.* Leases and backoff delays run out, a visible message is claimed
  by some slot, and a slot that works takes its next step (weak fairness);
  faults are finitely many. The worker polls in a loop and every step of a
  delivery is bounded by its budget, which is what justifies the last one.
  Nothing is assumed of the roles, which change for ever if they like, nor of
  what a handler returns.
* *Idempotency.* Weak fairness of an attempt's own steps: the server answers or
  the timeout does. Strong fairness of the lock: PostgreSQL grants it in the
  order of its wait queue, so that a waiter is not passed by for ever.
* *Members.* Weak fairness of each request's next step, where a deadlock is a
  step of its own: the deadlock detector ends it.
* *Stages.* Timers fire. Engines are not assumed to end.
* *Receipts.* A transaction that has begun ends, by its deadline if nothing
  else. The end of the recognition job is strongly fair: `EveryJobEnds` says
  that the queue ends every job, and the row it needs is granted in the order
  of its wait queue.
* *Renders.* The renderer's timers fire, its turns come, and what is asked of a
  browser that is gone is refused. Nothing is assumed of a browser that is up.

The sums restate these conditions for the behaviours in which the module runs
(`part = ...`).

### What the code does not keep

Each is a `violation` run with a counterexample and a finding in `PROJECT.json`
that quotes the sentence it disagrees with.

1. `job_demoted` (`platform/job-runner.ts:480`): the message of a finished job
   whose creator was demoted before the acknowledgement arrived is redelivered
   for ever, since `fail_orphaned_job` reports no row and the runner does not
   acknowledge. `EveryMessageSettles` therefore assumes that the creator keeps
   the role from some time on.
2. `ledger_mixed` (`ledger/postgres-transaction.adapter.ts:557`): pending,
   confirmed by PATCH, voided leaves a pending and a confirmed pair, and the
   balance loses an amount that it never counted. `BooksMatchStatuses` therefore
   speaks of transactions whose status no PATCH changes.
3. `ledger_frozen` (`reconciliations/postgres-reconciliation.adapter.ts:374`): a
   PATCH that read its row before a reconciliation was completed still modifies
   the reconciled transaction: reconciling does not move the version on.
4. `ledger_closed` (`ledger/transaction.service.ts:511`): a PATCH puts a
   transaction of a closed account back to pending.
5. `agent_abort` (`agent/agent-message.service.ts:149`): the reservation of an
   aborted message is never released, for want of a DELETE grant.
6. `paging_grants` (`mcp/postgres-mcp-grant.adapter.ts:42`): the lists of MCP
   grants and of conversations compare a cursor in milliseconds with instants in
   microseconds, and show a row again, or one page for ever.

Smaller observations, without a run:

* A role that is lost inside a transaction leaves half of the work behind in four
  places. A completion (`reconciliations/reconciliation.service.ts:381`) whose last
  UPDATE misses is refused as "already finalized" although the reconciliation is
  open, and its COMMIT keeps the transactions it has reconciled and the adjustment,
  which no completion can claim any more: `ClaimedOnce` allows them, once.
  `imports/import.service.ts:384` commits the transactions of a file, and `:518`
  voids them, with a conflict as the answer and without the import's status;
  `ai/ai-credential.service.ts:248` commits the deletion of the default model and
  answers NOT_FOUND of a credential that is still active. `ClaimedOnce`,
  `ImportsAreWhole` and `RefusalsLeaveNothing` say exactly who leaves what: nobody
  else does. A role
  that is lost before the first of these writes leaves nothing.
* `platform/pg-transaction.ts:662`: the lifetime timer may destroy and release the
  client while ROLLBACK is awaited, and the call releases it again. That is
  harmless as long as the pool refuses a second release by throwing, in a promise
  that has lost its race; `ClientsChangeHandsClean` says that the second meets
  only a destroyed client, never one that was handed on.
* `platform/pg-transaction.ts:303`: an anonymous transaction tells an unanswered
  COMMIT as an error like any other. `AnswersTellTheOutcome` therefore takes an
  error of an anonymous call for nothing certain; a device whose code is spent
  this way has to begin again.
* `imports/postgres-import.adapter.ts:244`: a transaction whose date or description
  a PATCH has changed is no duplicate any more, and a later file brings the row in
  again. `RowsAreImportedOnce` speaks of rows nobody has edited.
* `platform/job-runner.ts` can call an `onFailure` of a handler; no handler has one,
  and it is left out.
* `platform/playwright-pdf-renderer.ts:314`: `newContext`, `route` and `newPage`
  are awaited without a timer and without the signal, although
  `pdf-renderer.port.ts:31` demands that implementations enforce the timeout. A
  browser that is up and does not answer holds its render there for ever, and
  its generation is not quarantined. `EveryRenderEnds` says that this is the
  only place.
* `identity/workspace-member.service.ts`: an update whose caller is demoted by
  another request after its write may be answered NOT_FOUND: the row is read
  back under the row policies.
* A PATCH of an account without If-Match names no version, so that it and a
  closing overwrite each other; `SentTwiceDoneOnce` and `ChecksStillHold` speak
  of requests that name one.
* `recurring/occurrence.ts`: a rule never fires in the period of its start
  (BYMONTHDAY=15 from the 10th of January begins in February), and weeks begin
  on Sunday. Tests encode both, and `IsDate` follows them.

## 4. What is proved

For every value of the constants that meets the named assumption of the module:
any number of jobs, slots, members, accounts, requests, stages, people, polls,
receipts, calls and clients, any lifetimes, limits and budgets, any rules, dates
and first year of the calendar. The assumptions
type the constants; the memberships also assume an active owner at the start,
and that the members are finitely many; the stages are finitely many and have at
least one permit; there is a receipt; the lease assumes what the constructor of
`WorkerConfig` requires and, beyond it, that the latency of a claim and the lag
of the server fit in the safety margin. The commands are assumed to have the
shapes of `OperationShapes` and a retry to be the same command; TLC evaluates
both of the whole catalogue. Two theorems have a hypothesis of their own:
`WaitsAreNotCrossed` is of finitely many requests, and `WalksShowEachRowOnce` of
`FineLists`, the lists whose cursor keeps every digit of their order: of the two
others it is false, as `paging_grants` shows.

| Module | Theorems | Inductive invariant |
|---|---|---|
| `JobQueueProofs` | type, `NoLostJob`, `EffectOnce`, `RunConsistent`, `DeadLetterHonest`, `TerminalStays`, `ContractKept` | what each delivery knows of its job |
| `IdempotentCommandsProofs` | type, `OnePerDay`, `AttemptsAreAtomic` | who may be past the lock, and what the record says |
| `WorkspaceMembersProofs` | type, `OwnerRemains`, `OwnersProtected`, `RequestsActAtOnce` | counted owners are locked, what allowed a write still holds |
| `LedgerProofs` | type, `VoidedIsReversedOnce`, `ReconciledIsClaimedOnce`, `ClosedAccountsGetNoWork`, `FinalIsFinal`, `WaitsAreNotCrossed`, `BooksAgreeWithStatuses`, `ClaimsStand` | what a request holds, knows, inserts and has matched |
| `AgentMessagesProofs` | type, `OneRun`, `ReplayIsTheRun`, `OneEnding` | only the owner has a run to end |
| `RuntimeProofs` | lease: type, `DeliveriesDoNotOverlap`, `BudgetsSuffice` | where the time of a delivery has gone |
| | clients: type, `ClientsAreHandedOnClean`, `OutcomesAreTold` | who holds a client, and whose session is on it |
| | browsers: type, `BrowsersStayAccountedFor` | how far each browser has come, and who is inside |
| | stages: type, `PermitConservation`, `PermitsAreUsed`, `OverrunVisibility`, `AnswerStands` | how far each stage has come |
| `OnceProofs` | approvals: type, `DecisionsAreTrue` | who has updated the row |
| | devices: type, `TokensAreSingle` | what a redemption holds |
| | receipts: type, `ReceiptsAgree` | who may insert |
| | imports: type, `ImportsStayWhole`, `EachRowIsImportedOnce` | what each open transaction has locked, read and written, and what is left by half |
| | lists: `WalksShowEachRowOnce` | what lies before the cursor was shown |
| | rules: `NoDateIsSkipped` | every date passed is due, and there are at least as many as iterations |
| `CommandsProofs` | `RefusalsAreEmpty`, `DefaultStaysActive`, `ChecksStandAtCommit`, `RetriesAreSafe` | what a request has seen, written and locked, from the steps it has passed |

Why the invariants are needed, and how the arguments go:

* *Job queue.* `LiveJobHasMessage` is not inductive: that an acknowledgement
  drops no live job rests on where its delivery stands. The invariant says, for
  each position, what the job is known to be (a delivery at `ack` has a terminal
  job, one at `archive` a dead-lettered one, one at `dead_letter` has read its
  message often enough), that terminal jobs agree with their run rows, and that
  effects are counted by completion. Terminal statuses are stable, so what one
  delivery knows survives the steps of the others. `ContractKept` maps each
  action to a step of `JobLifecycle` or a stutter under this invariant.
* *Idempotency.* Only the holder of the lock is between `ReadRecord` and the end
  of its transaction, so what it read is what it writes over; the record, while
  it lives, is the latest execution; executions lie a lifetime apart since an
  attempt that begins before another's expiry finds the record. So the answer a
  transaction carries to its COMMIT is right when it gets there (`AnswerOf`),
  also when the COMMIT is in doubt, and is its step of `KeyedRequests`.
* *Members.* A transaction at `commit` holds the rows of the owners its guard
  counted, and those are owners without it too; no row is locked twice. So at
  least one owner survives, and what allowed the write (version, role of the
  target) still holds. For the refinement, what a transaction has written is what
  becomes of the row as it is (`Standing`): the row is locked from then on. Each
  action is then `Ask`, `Allow`, `Apply` or `Drop` of `WorkspaceRoster`, or a
  stutter.
* *Ledger.* From inspection to COMMIT a request holds the account locks of all it
  works in, from its conditional UPDATE the row; inserted ids are nobody else's.
  What it inspected and matched is therefore untouched by the others' COMMITs:
  one lemma says for each kind of COMMIT what it leaves alone. Postings follow
  the rows: none while absent, and the reversing pair is the last, exactly if
  voided. A reconciled posting is of a transaction that is claimed or left by half,
  and reconciled transactions match no other completion, so that neither is taken
  again. Crossed waits: who holds a row lock is about to commit and waits for
  nobody, and account locks are taken in the order of their ids (`Ordered`), so
  that of several requests that all wait for accounts, the one that wants the
  greatest waits for none of the others: its holder would want a greater one.
  Balances (`Balanced`): as long as no update sets the status of a transaction,
  its first pair counts in the settled accounts exactly while the row does, and
  the reversing pair counts where the first does (`Matches`), because the status
  a void has read still stands when it is on its way, or is final (`SeenStands`).
* *Agent.* Only the request that the row names is past `prepare`; how its run
  ended, what is stored and what anybody was told are the same.
* *Stages.* Who holds a permit is who has a running engine; taking a waiter out
  of line keeps the others once each (lemma `WithoutOne`), handing over keeps
  the number of holders.
* *Lease.* Every moment since the claim was spent by an operation, within its
  cap, or passed between two; the delivery believes in less than the lease it
  has, by the margin less the latency of its claim. So a write has ended when
  the message is visible, and time runs out only by idling.
* *Clients.* That a pooled client is clean is not inductive: the call that took
  it may still have a query under way, or a timer that destroys it. The
  invariant says that who holds a client is under way and alone, that the session
  of a client is that of who holds it or held it at last, and that a query that
  was sent is on a client its call still holds, or on one that was destroyed. A
  call that goes on without its client has had it destroyed, and a destroyed
  client stays so: the second release finds it there (`ReleasesOf`). A call has
  committed only past its callback, or, an anonymous one, is undoing a COMMIT that
  may have succeeded; it is told an error only when over.
* *Approvals.* One request at most has updated the row and not yet committed,
  and it found the row pending; a decision is never followed by another.
* *Devices.* A redemption under way holds a row that is approved and not
  redeemed, and is the only one; the window counts every poll that runs in it,
  so that taking a count back never passes zero.
* *Imports.* One importer at a time is under way, by the lock of the workspace. So
  what a commit or a rollback has found of its import still stands when it
  writes, and what a commit has prepared is what its account lacks: others can
  edit, void or reconcile transactions meanwhile, but bring in no row. The status
  never makes the last update miss, so only a lost role does, and its request is
  over at `half` for good. What an edit makes of a transaction is added to the
  rows it has been (`had`): two transactions that have always been the same row
  would have met in the duplicate check.
* *Lists.* A walk has shown, of the rows it owes, those that do not come after its
  cursor, once (`WalkedToTheCursor`). A page keeps this because the order is total
  and the cursor compares as the order does, which is what `FineLists` asks.
* *Rules.* One lemma for each frequency says that a step leads to a date of the
  rule and passes none (`DailyStep` to `YearlyStep`, together `StepIsNext`). They
  rest on two kinds of facts. Of the calendar: each month starts where the one
  before it ends, over leap years too (`MonthsFollow`), so that months are in
  order and a day lies in just one (`MonthsIncrease`, `MonthOfDay`); a month has
  one wanted day (`WantedDay`). Of the grids: the next multiple of an interval is
  the present one plus the interval (`NextMultiple`). `ScheduleInv` adds that the
  dates passed are due and more than the iterations, for the limit.
* *Browsers.* What the flags of a generation say of each other (`Flags`), that the
  current one serves, and that the count of each is the number of renders inside:
  it is the last that shows the browser of a quarantined generation is told to
  close when the last render leaves. That the generations suffice (their type) is
  counted: an attempt launches one browser at most, and there are as many
  attempts as generations (`GenerationsSuffice`).
* *Commands.* `Own` ties an open transaction to the steps it has passed: its locks
  are those of its lock steps, a check holds of what was seen last, a changed row
  was changed by a passed step out of a state this step is for, and a row that was
  seen under its lock is as it was seen until the transaction changes it. A COMMIT
  of the other moves only rows that are not locked or changed here, and raises
  their version; this gives `ChecksStillHold`. A returned refusal comes where
  nothing is written yet, or is refuted by what was seen under the lock; a lost
  role refuses at any conditional update, and of the shapes only the two of
  `LeftByHalf` have written by then (`LeavesLittle`). Both are `RefusalsLeaveNothing`. For
  retries it says in whose hands the key is: who runs on found no record, and a command with a key that has taken effect left one;
  without a key, the first has taken the version, or the state, away.
* *Receipts.* An object is stored before its row and removed only without one. A
  claim holds the row of its receipt, which has no transaction then, and whoever
  inserts is alone with the receipt: by the claim, or by the unique index.

Theorems about `TypeOK` and its like, `TerminalIsFinal`, `FinalStays`,
`KeyMatchesRun`, `NoIdlePermit`, `OverrunsAreVisible`, `FirstAnswerStands`,
`EveryOperationFits` and `ClaimStands` state properties that no run has: the
proof covers them.

Looking for the invariants corrected the models in places that no property had
told apart: `updateTransaction` never answers that a transaction is a draft (only
the void does, so that `VoidKinds` is a table of its own), and a replay ends its
transaction and with it the advisory locks. The assumption of `Ledger` says that
no command is the value for none.

Only model-checked, and why: everything that ends in `Ends`, `Settles` or
`Answered` and the liveness half of the contract, since liveness under fairness
and ENABLED are out of the prover's reach. Every safety invariant, action
property and refinement of the runs that pass is proved (of the contract of the
jobs its safety). The library's induction
theorems take an operator and cannot be used; where an argument needs induction,
the proofs take a least element of a well-founded order instead (`WFMin`), as for
crossed waits, the counts of renders and the order of months. What recursive
definitions compute could not be proved, but there are none.

## 5. What is not modelled

* Amounts and currencies: balances, conversion, rounding, budget periods and
  rollover, the engines of forecasts, scenarios and reports, and analytics, which
  is reads and arithmetic throughout. Where a service refuses by an amount, a
  currency or a date, the step `Ask` may refuse.
* The contents of object storage (that a stale delivery uploads over another's
  artifact is a hazard without a property), the image of a receipt, and the text
  that is read off it.
* The Tesseract process: the worker sees an engine of `BoundedStages` that ends
  when it likes.
* JWT verification, HTTP parsing and field validation, beyond that a request may
  be rejected (`Endpoint`); formatting, logging, wiring, health.
* The text of an RRULE: `Plain` and the fields of a rule are what is left of it.

## 6. Plan

1. The types of `Commands`, with the status of every answer.
2. `Commands` against `Ledger`: that the steps of the account and ledger services
   are those of the detailed model, as a refinement.
3. Object storage under overlapping deliveries, together with `JobQueue`.
4. Functions against reference definitions: budget periods and rollover, rounding.
