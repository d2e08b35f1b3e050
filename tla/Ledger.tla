------------------------------- MODULE Ledger -------------------------------
(***************************************************************************)
(* The books of one workspace: transactions and their double-entry         *)
(* postings, transfers, account closing and statement reconciliation.      *)
(*                                                                         *)
(* A request is one READ COMMITTED transaction.  Requests of different     *)
(* subjects interleave between their statements; what keeps them apart is  *)
(* the advisory lock of each account and the row locks of their UPDATEs.   *)
(* A statement that waited for a row decides by what the other transaction *)
(* left there, so a write's conditions are read when its row lock is taken *)
(* and stay true until COMMIT, where its effect becomes visible.           *)
(*                                                                         *)
(* A transaction that passes the role check and finds no idempotency       *)
(* record; IdempotentCommands is about those that do.  Amounts are left    *)
(* out: a posting pair counts with its sign.                               *)
(***************************************************************************)
EXTENDS Integers, Sequences, FiniteSets

CONSTANTS
  Accounts,   \* accounts, numbered in the order their ids sort
  Txns,       \* transaction ids
  Home,       \* the account of each transaction
  Recons,     \* reconciliation ids
  Requests,   \* bound: the requests made
  Commands,   \* what a request may ask
  None

Absent    == [status |-> "absent", version |-> 0]
Statuses  == {"draft", "pending", "confirmed", "reconciled", "voided"}
Postable  == Statuses \ {"voided"}
Unsettled == {"draft", "pending"}
Settled   == {"confirmed", "reconciled"}   \* what the balance queries count

Command ==
  [op : {"create"}, txn : Txns, status : {"draft", "pending", "confirmed"}]
  \cup [op : {"update"}, txn : Txns, versions : SUBSET Nat,
        status : {"draft", "pending", "confirmed", None}]
  \cup [op : {"void"}, txn : Txns, versions : SUBSET Nat]
  \cup [op : {"transfer"}, from : Accounts, to : Accounts]
  \cup [op : {"open"}, recon : Recons, account : Accounts]
  \cup [op : {"complete"}, recon : Recons, txns : SUBSET Txns,
        adjustment : Txns \cup {None}]
  \cup [op : {"close"}, account : Accounts]
  \cup [op : {"updateAccount"}, account : Accounts,
        status : {"active", "archived"}]

ASSUME LedgerAssumption ==
  /\ Accounts \subseteq Nat
  /\ Home \in [Txns -> Accounts]
  /\ Commands \subseteq Command
  /\ None \notin Txns \cup {"draft", "pending", "confirmed"}
  /\ None \notin Command
  /\ Txns \cap Accounts = {}

VARIABLES
  account,   \* accounts.status
  txn,       \* transactions: status and version
  postings,  \* the posting pairs of each transaction, as appended
  recon,     \* reconciliations
  tx         \* the database transaction of each request

vars  == <<account, txn, postings, recon, tx>>
books == <<account, txn, postings, recon>>

Pair == [sign : {1, -1}, account : Postable, external : Postable]
TxnRow == [status : Statuses, version : Nat \ {0}]

NoRecon  == [status |-> "absent", account |-> None, claimed |-> {}]
ReconRow == [status : {"open", "completed"}, account : Accounts,
             claimed : SUBSET Txns]

\* "half" is a completion refused after it has reconciled transactions.
PCs == {"new", "lock", "write", "commit", "ok", "refused", "half"}

TxState ==
  [pc    : PCs,
   cmd   : Command \cup {None},
   seen  : TxnRow \cup {Absent},       \* the transaction's row when pre-read
   locks : SUBSET Accounts,            \* advisory locks held
   rows  : SUBSET (Txns \cup Accounts)] \* row locks held

TypeOK ==
  /\ account \in [Accounts -> {"active", "archived", "closed"}]
  /\ txn \in [Txns -> TxnRow \cup {Absent}]
  /\ postings \in [Txns -> Seq(Pair)]
  /\ recon \in [Recons -> ReconRow \cup {NoRecon}]
  /\ tx \in [Requests -> TxState]

Init ==
  /\ account = [a \in Accounts |-> "active"]
  /\ txn = [t \in Txns |-> Absent]
  /\ postings = [t \in Txns |-> <<>>]
  /\ recon = [q \in Recons |-> NoRecon]
  /\ tx = [r \in Requests |->
            [pc |-> "new", cmd |-> None, seen |-> Absent,
             locks |-> {}, rows |-> {}]]

-----------------------------------------------------------------------------
At(r, pc) == tx[r].pc = pc
Running(r) == tx[r].pc \in {"lock", "write", "commit"}

Finish(r, outcome) ==
  tx' = [tx EXCEPT ![r].pc = outcome, ![r].locks = {}, ![r].rows = {}]

\* Ids are random: what a request inserts nobody else has.
NewTxns(c) ==
  IF c.op = "create" THEN {c.txn}
  ELSE IF c.op = "complete" THEN {c.adjustment} \ {None} ELSE {}
NewRecons(c) == IF c.op = "open" THEN {c.recon} ELSE {}

Fresh(c) ==
  /\ \A t \in NewTxns(c) : txn[t] = Absent
  /\ \A q \in NewRecons(c) : recon[q] = NoRecon
  /\ \A r \in Requests : Running(r) =>
       /\ NewTxns(tx[r].cmd) \cap NewTxns(c) = {}
       /\ NewRecons(tx[r].cmd) \cap NewRecons(c) = {}

\* The accounts whose advisory lock the request takes, and its accounts.
Needs(c) ==
  {a \in Accounts :
     \/ c.op \in {"create", "void"} /\ a = Home[c.txn]
     \/ c.op = "transfer" /\ a \in {c.from, c.to}
     \/ c.op = "complete" /\ a = recon[c.recon].account
     \/ c.op \in {"open", "close"} /\ a = c.account}

\* The rows it updates.
Rows(c) ==
  {x \in Txns \cup Accounts :
     \/ c.op \in {"update", "void"} /\ x = c.txn
     \/ c.op = "complete" /\ x \in c.txns
     \/ c.op \in {"close", "updateAccount"} /\ x = c.account}

\* If-Match names the versions accepted; without it, the one pre-read.
Expected(c, seen) == IF c.versions = {} THEN {seen.version} ELSE c.versions

-----------------------------------------------------------------------------
(* Statements, in the order a request makes them *)

\* The pre-read of the service, before any lock.
RefusedAtOnce(c) ==
  \/ /\ c.op \in {"update", "void"}
     /\ \/ txn[c.txn].status \in {"absent", "voided", "reconciled"}
        \/ c.op = "void" /\ txn[c.txn].status = "draft"
        \/ txn[c.txn].version \notin Expected(c, txn[c.txn])
  \/ c.op \in {"close", "updateAccount"} /\ account[c.account] = "closed"
  \/ c.op = "complete" /\ recon[c.recon] = NoRecon

Begin(r) ==
  /\ At(r, "new")
  /\ \E c \in Commands :
       /\ Fresh(c)
       /\ tx' = [tx EXCEPT ![r] =
            [pc |-> IF RefusedAtOnce(c) THEN "refused" ELSE "lock",
             cmd |-> c,
             seen |-> IF c.op \in {"update", "void"} THEN txn[c.txn] ELSE Absent,
             locks |-> {}, rows |-> {}]]
  /\ UNCHANGED books

\* Faulty variant: the accounts of a transfer are locked as they are given.
LockAsGiven(r) ==
  /\ At(r, "lock")
  /\ \E a \in Needs(tx[r].cmd) \ tx[r].locks :
       /\ \A s \in Requests : a \notin tx[s].locks
       /\ tx' = [tx EXCEPT ![r].locks = @ \cup {a}]
  /\ UNCHANGED books

\* pg_advisory_xact_lock of each account, in the order of their ids.
Lock(r) ==
  /\ At(r, "lock")
  /\ \E a \in Needs(tx[r].cmd) \ tx[r].locks :
       /\ \A b \in Needs(tx[r].cmd) \ tx[r].locks : a <= b
       /\ \A s \in Requests : a \notin tx[s].locks
       /\ tx' = [tx EXCEPT ![r].locks = @ \cup {a}]
  /\ UNCHANGED books

\* Faulty variant: nothing is read again under the lock.
ReadBefore(r) ==
  /\ At(r, "lock")
  /\ Needs(tx[r].cmd) \subseteq tx[r].locks
  /\ tx' = [tx EXCEPT ![r].pc = "write"]
  /\ UNCHANGED books

\* What is read under the locks, and refused.
RefusedUnderLock(c) ==
  \/ /\ c.op \in {"create", "transfer", "open", "complete"}
     /\ \E a \in Needs(c) : account[a] = "closed"
  \/ c.op = "open" /\ \E q \in Recons :
       recon[q].status = "open" /\ recon[q].account = c.account
  \/ c.op = "complete" /\ recon[c.recon].status # "open"
  \/ c.op = "close" /\ \E t \in Txns :
       Home[t] = c.account /\ txn[t].status \in Unsettled

Inspect(r) ==
  /\ At(r, "lock")
  /\ Needs(tx[r].cmd) \subseteq tx[r].locks
  /\ IF RefusedUnderLock(tx[r].cmd) THEN Finish(r, "refused")
     ELSE tx' = [tx EXCEPT ![r].pc = "write"]
  /\ UNCHANGED books

\* validateCompletionTransactions and reconcileTransactions: rows locked,
\* posted to this account only, confirmed throughout.
Reconcilable(t, a) ==
  /\ Home[t] = a
  /\ txn[t].status = "confirmed"
  /\ \A i \in 1..Len(postings[t]) : postings[t][i].account = "confirmed"

\* The WHERE clause of each UPDATE, row-level security included.
Writable(c, seen) ==
  /\ c.op \in {"update", "void"} =>
       /\ txn[c.txn].status # "voided"
       /\ txn[c.txn].version \in Expected(c, seen)
  /\ c.op = "void" => txn[c.txn].status \in {"pending", "confirmed"}
  /\ c.op = "complete" =>
       \A t \in c.txns : Reconcilable(t, recon[c.recon].account)
  /\ c.op \in {"close", "updateAccount"} => account[c.account] # "closed"

\* Faulty variant: what was read earlier is taken to hold still.
WriteUnchecked(r) ==
  LET c == tx[r].cmd IN
  /\ At(r, "write")
  /\ \A s \in Requests : Rows(c) \cap tx[s].rows = {}
  /\ tx' = [tx EXCEPT ![r].pc = "commit", ![r].rows = Rows(c)]
  /\ UNCHANGED books

Write(r) ==
  LET c == tx[r].cmd IN
  /\ At(r, "write")
  /\ \A s \in Requests : Rows(c) \cap tx[s].rows = {}
  /\ IF Writable(c, tx[r].seen)
       THEN tx' = [tx EXCEPT ![r].pc = "commit", ![r].rows = Rows(c)]
       ELSE Finish(r, "refused")
  /\ UNCHANGED books

-----------------------------------------------------------------------------
(* Effects *)

PairOf(sign, status) == [sign |-> sign, account |-> status, external |-> status]

\* createTransaction: the row and a balanced pair of its status.
Create(c) ==
  /\ c.op = "create"
  /\ txn' = [txn EXCEPT ![c.txn] = [status |-> c.status, version |-> 1]]
  /\ postings' = [postings EXCEPT ![c.txn] = <<PairOf(1, c.status)>>]
  /\ UNCHANGED <<account, recon>>

\* updateTransaction touches the row alone, never its postings.
Update(c) ==
  /\ c.op = "update"
  /\ txn' = [txn EXCEPT ![c.txn] =
       [status  |-> IF c.status = None THEN @.status ELSE c.status,
        version |-> @.version + 1]]
  /\ UNCHANGED <<account, postings, recon>>

\* Faulty variant: the reversal always counts.
VoidConfirmed(c, seen) ==
  /\ c.op = "void"
  /\ txn' = [txn EXCEPT ![c.txn] =
       [status |-> "voided", version |-> @.version + 1]]
  /\ postings' = [postings EXCEPT
       ![c.txn] = Append(@, PairOf(-1, "confirmed"))]
  /\ UNCHANGED <<account, recon>>

\* voidTransaction: a reversing pair with the status that was pre-read.
Void(c, seen) ==
  /\ c.op = "void"
  /\ txn' = [txn EXCEPT ![c.txn] =
       [status |-> "voided", version |-> @.version + 1]]
  /\ postings' = [postings EXCEPT
       ![c.txn] = Append(@, PairOf(-1, seen.status))]
  /\ UNCHANGED <<account, recon>>

\* A header and its pair, both new and confirmed: the request's own rows.
Transfer(c) == c.op = "transfer" /\ UNCHANGED books

Open(c) ==
  /\ c.op = "open"
  /\ recon' = [recon EXCEPT ![c.recon] =
       [status |-> "open", account |-> c.account, claimed |-> {}]]
  /\ UNCHANGED <<account, txn, postings>>

\* ledger_postings: the account leg alone is reconciled.
Tick(pairs) ==
  [i \in 1..Len(pairs) |->
     IF pairs[i].account = "confirmed"
       THEN [pairs[i] EXCEPT !.account = "reconciled"] ELSE pairs[i]]

\* reconcileTransactions and the adjustment: a version is not moved on.
Reconcile(c) ==
  /\ c.op = "complete"
  /\ txn' = [t \in Txns |->
       IF t \in c.txns THEN [txn[t] EXCEPT !.status = "reconciled"]
       ELSE IF t = c.adjustment THEN [status |-> "reconciled", version |-> 1]
       ELSE txn[t]]
  /\ postings' = [t \in Txns |->
       IF t \in c.txns THEN Tick(postings[t])
       ELSE IF t = c.adjustment THEN <<PairOf(1, "reconciled")>>
       ELSE postings[t]]
  /\ UNCHANGED account

\* completeReconciliation, whose UPDATE finds the row open.
Complete(c) ==
  /\ Reconcile(c)
  /\ recon' = IF recon[c.recon].status = "open"
       THEN [recon EXCEPT ![c.recon].status = "completed",
                          ![c.recon].claimed = c.txns \cup NewTxns(c)]
       ELSE recon

\* An administrator has taken the caller's role away since the statement
\* before: row security hides the row, the answer is that it is final, and
\* the transaction commits what it has written.  The role lost any sooner, a
\* statement before counts its rows, or inserts, and raises.
CompleteByHalf(c) ==
  /\ Reconcile(c)
  /\ c.txns \cup NewTxns(c) # {}
  /\ UNCHANGED recon

SetAccount(c) ==
  /\ c.op \in {"close", "updateAccount"}
  /\ account' = [account EXCEPT ![c.account] =
       IF c.op = "close" THEN "closed" ELSE c.status]
  /\ UNCHANGED <<txn, postings, recon>>

Commit(r) ==
  LET c == tx[r].cmd IN
  /\ At(r, "commit")
  /\ \/ /\ \/ Create(c) \/ Update(c) \/ Void(c, tx[r].seen) \/ Transfer(c)
           \/ Open(c) \/ Complete(c) \/ SetAccount(c)
        /\ Finish(r, "ok")
     \/ CompleteByHalf(c) /\ Finish(r, "half")

\* Connection, deadline or process lost before COMMIT; a role lost before the
\* last statement.
Abort(r) ==
  /\ Running(r)
  /\ Finish(r, "refused")
  /\ UNCHANGED books

Step(r) == Lock(r) \/ Inspect(r) \/ Write(r) \/ Commit(r)

Next == \E r \in Requests : Begin(r) \/ Step(r) \/ Abort(r)

Spec == Init /\ [][Next]_vars

-----------------------------------------------------------------------------
(* Properties *)

Commits(r) == tx[r].pc = "commit" /\ tx'[r].pc \in {"ok", "half"}

(* No transaction, transfer, reconciliation or adjustment is committed in an *)
(* account that was closed while the request was on its way.                 *)
NoWorkInClosedAccounts ==
  [][\A r \in Requests :
       Commits(r) /\ tx[r].cmd.op \in {"create", "transfer", "open", "complete"}
         => \A a \in Needs(tx[r].cmd) : account[a] # "closed"]_vars

(* Whoever races to void, a transaction has one reversing pair exactly when  *)
(* it is voided: the books never take it back twice.                         *)
Reversals(t) == {i \in 1..Len(postings[t]) : postings[t][i].sign = -1}

ReversedOnce ==
  \A t \in Txns :
    Cardinality(Reversals(t)) = IF txn[t].status = "voided" THEN 1 ELSE 0

(* Every reconciled transaction was claimed by a completed reconciliation,   *)
(* or a completion left it so by half when its caller lost the role.  A      *)
(* transaction is taken once: no two reconciliations claim it, and what was  *)
(* left by half no later completion can claim.                               *)
Taken(r) == IF At(r, "half") THEN tx[r].cmd.txns \cup NewTxns(tx[r].cmd) ELSE {}

ClaimedOnce ==
  /\ \A t \in Txns : txn[t].status = "reconciled" =>
       (\E q \in Recons : t \in recon[q].claimed) \/ \E r \in Requests : t \in Taken(r)
  /\ \A p, q \in Recons : p # q => recon[p].claimed \cap recon[q].claimed = {}
  /\ \A r, s \in Requests : r # s => Taken(r) \cap Taken(s) = {}
  /\ \A q \in Recons, r \in Requests : recon[q].claimed \cap Taken(r) = {}

(* A completed reconciliation and a closed account are final, also for the   *)
(* requests that read them before.                                           *)
FinalStays ==
  [][/\ \A q \in Recons : recon[q].status = "completed" => recon'[q] = recon[q]
     /\ \A a \in Accounts : account[a] = "closed" => account'[a] = "closed"]_vars

(* Unless an update asked for another status, a transaction counts in its    *)
(* account's balance exactly while it is confirmed or reconciled, voided ones *)
(* netting to nothing: the balance queries filter postings, not transactions.*)
StatusKept(t) ==
  \A r \in Requests :
    LET c == tx[r].cmd IN
    c # None => c.op # "update" \/ c.txn # t \/ c.status = None

Counted(t, sign) ==
  Cardinality({i \in 1..Len(postings[t]) :
    postings[t][i].sign = sign /\ postings[t][i].account \in Settled})

BooksMatchStatuses ==
  \A t \in Txns : StatusKept(t) =>
    Counted(t, 1) - Counted(t, -1) = IF txn[t].status \in Settled THEN 1 ELSE 0

(* ... and once a reconciliation claimed it, it stays reconciled: not voided *)
(* by a request that read it before.                                         *)
ClaimStands ==
  \A q \in Recons : \A t \in recon[q].claimed : StatusKept(t) =>
    txn[t].status = "reconciled" /\ Reversals(t) = {}

(* Crossing transfers, closings, voids and reconciliations never wait for    *)
(* each other: of any requests that run, one waits for none of the others.   *)
Wanted(r) ==
  LET c == tx[r].cmd IN
  IF At(r, "lock") /\ Needs(c) \ tx[r].locks # {}
    THEN {CHOOSE a \in Needs(c) \ tx[r].locks :
            \A b \in Needs(c) \ tx[r].locks : a <= b}
    ELSE {}

WaitsFor(r, s) ==
  \/ Wanted(r) \cap tx[s].locks # {}
  \/ At(r, "write") /\ Rows(tx[r].cmd) \cap tx[s].rows # {}

NoCrossedWaits ==
  \A R \in SUBSET {r \in Requests : Running(r)} :
    R # {} => \E r \in R : \A s \in R \ {r} : ~WaitsFor(r, s)

-----------------------------------------------------------------------------
(* What the repository says and the code does not keep *)

(* Mixed posting statuses are unreachable through any application write path.*)
NoMixedPostings ==
  \A t \in Txns :
    LET Used == {postings[t][i].account : i \in 1..Len(postings[t])}
                \cup {postings[t][i].external : i \in 1..Len(postings[t])}
    IN Used \subseteq Settled \/ Used \cap Settled = {}

(* Reconciled transactions cannot be modified.                               *)
ReconciledIsFrozen ==
  [][\A t \in Txns : txn[t].status = "reconciled" => txn'[t] = txn[t]]_vars

(* An account with draft or pending transactions is not closed, and a closed *)
(* one gets none: the writers of transactions share the account's lock.      *)
ClosedIsSettled ==
  \A t \in Txns : account[Home[t]] = "closed" => txn[t].status \notin Unsettled
=============================================================================
