----------------------------- MODULE LedgerProofs -----------------------------
(***************************************************************************)
(* Safety of the books for any number of requests, accounts, transactions  *)
(* and reconciliations.  The argument: a request between its inspection    *)
(* and its COMMIT holds the advisory lock of every account it works in, so *)
(* what it read under the lock (the account is not closed, the             *)
(* reconciliation is open) still holds when it commits; and from its       *)
(* conditional UPDATE on it holds the row, so the WHERE clause stays true. *)
(* Every other fact is about rows that only one request can touch.         *)
(***************************************************************************)
EXTENDS Ledger, FiniteSetTheorems, WellFoundedInduction, TLAPS

Posting == {"create", "transfer", "open", "complete"}

Runs(x)  == x.pc \in {"lock", "write", "commit"}
Works(x) == x.pc \in {"write", "commit"}

(* What the transaction x of a request knows and holds.  Its locks: from   *)
(* the inspection on all it needs, and its rows from the UPDATE on.        *)
Holds(x) ==
  /\ ~Runs(x) => x.locks = {}
  /\ Works(x) => Needs(x.cmd) \subseteq x.locks
  /\ x.pc = "commit" => x.rows = Rows(x.cmd)
  /\ x.pc # "commit" => x.rows = {}

(* What the pre-read found and nobody takes back: rows are never deleted.  *)
Knows(x) ==
  Runs(x) =>
    /\ x.cmd \in Command
    /\ x.cmd.op = "complete" => recon[x.cmd.recon] # NoRecon
    /\ x.cmd.op \in {"update", "void"} => txn[x.cmd.txn] # Absent
    /\ x.cmd.op = "void" => x.seen.status \in {"pending", "confirmed"}

(* The rows it is to insert do not exist. *)
Inserts(x) ==
  Runs(x) =>
    /\ \A t \in NewTxns(x.cmd) : txn[t] = Absent
    /\ \A q \in NewRecons(x.cmd) : recon[q] = NoRecon

(* What it inspected under the advisory locks still holds. *)
Inspected(x) ==
  Works(x) =>
    /\ x.cmd.op \in Posting => \A a \in Needs(x.cmd) : account[a] # "closed"
    /\ x.cmd.op = "complete" => recon[x.cmd.recon].status = "open"

(* The WHERE clause of its UPDATE is still true. *)
Matched(x) == x.pc = "commit" => Writable(x.cmd, x.seen)

Sound(x) == Holds(x) /\ Knows(x) /\ Inserts(x) /\ Inspected(x) /\ Matched(x)

(* Locks and new rows are one transaction's. *)
Apart(x, y) ==
  /\ x.locks \cap y.locks = {}
  /\ x.rows \cap y.rows = {}
  /\ Runs(x) /\ Runs(y) =>
       /\ NewTxns(x.cmd) \cap NewTxns(y.cmd) = {}
       /\ NewRecons(x.cmd) \cap NewRecons(y.cmd) = {}

(* A transaction has postings from the start, and its reversing pair, if   *)
(* it is voided, is the last one.                                          *)
Books ==
  \A t \in Txns :
    /\ txn[t] = Absent <=> postings[t] = <<>>
    /\ Reversals(t) =
         IF txn[t].status = "voided" THEN {Len(postings[t])} ELSE {}

(* Claims are made on completion, and a transaction that is claimed, or    *)
(* left by half, has a reconciled posting.                                 *)
Ticked(t) == postings[t] # <<>> /\ postings[t][1].account = "reconciled"

Claims ==
  /\ \A q \in Recons :
       /\ recon[q].status # "completed" => recon[q].claimed = {}
       /\ \A t \in recon[q].claimed : Ticked(t)
  /\ \A r \in Requests : \A t \in Taken(r) : t \in Txns /\ Ticked(t)

Requesting ==
  /\ \A r \in Requests : Sound(tx[r])
  /\ \A r, s \in Requests : r # s => Apart(tx[r], tx[s])

IInv == TypeOK /\ Requesting /\ Books /\ Claims /\ ClaimedOnce

-----------------------------------------------------------------------------
(* The shapes of a command *)

LEMMA CommandShape ==
  ASSUME NEW c \in Command
  PROVE  /\ c.op \in {"create", "update", "void", "transfer", "open",
                      "complete", "close", "updateAccount"}
         /\ c.op \in {"create", "update", "void"} => c.txn \in Txns
         /\ c.op = "create" => c.status \in {"draft", "pending", "confirmed"}
         /\ c.op = "update" =>
              c.status \in {"draft", "pending", "confirmed", None}
         /\ c.op = "transfer" => c.from \in Accounts /\ c.to \in Accounts
         /\ c.op \in {"open", "complete"} => c.recon \in Recons
         /\ c.op = "complete" =>
              c.txns \subseteq Txns /\ c.adjustment \in Txns \cup {None}
         /\ c.op \in {"open", "close", "updateAccount"} => c.account \in Accounts
         /\ c.op = "updateAccount" => c.status \in {"active", "archived"}
  BY DEF Command

(* What a command inserts *)
LEMMA CommandNews ==
  ASSUME NEW c \in Command
  PROVE  /\ NewTxns(c) \subseteq Txns
         /\ NewRecons(c) \subseteq Recons
         /\ c.op = "create" => NewTxns(c) = {c.txn}
         /\ c.op = "complete" => NewTxns(c) = {c.adjustment} \ {None}
         /\ c.op \notin {"create", "complete"} => NewTxns(c) = {}
         /\ c.op = "open" => NewRecons(c) = {c.recon}
  BY CommandShape DEF NewTxns, NewRecons

LEMMA AbsentFacts ==
  /\ Absent \notin TxnRow
  /\ NoRecon \notin ReconRow
  /\ NoRecon.status = "absent" /\ NoRecon.claimed = {}
  /\ Absent.status = "absent"
  BY DEF Absent, TxnRow, NoRecon, ReconRow, Statuses

-----------------------------------------------------------------------------
(* Steps that leave the books alone *)

(* What a transaction knows is about the books and its own state. *)
LEMMA SoundStays ==
  ASSUME NEW y, Sound(y), UNCHANGED books
  PROVE  Sound(y)'
  BY DEF Sound, Holds, Knows, Inserts, Inspected, Matched, books, Needs,
         Writable, Reconcilable

(* What is taken stays so, while nobody takes more and no transaction      *)
(* becomes reconciled.                                                     *)
LEMMA ClaimsKept ==
  ASSUME TypeOK, Claims, ClaimedOnce,
         \A r \in Requests : Taken(r)' = Taken(r),
         \A q \in Recons :
           /\ recon'[q].claimed = recon[q].claimed
           /\ recon'[q].status = "completed" <=> recon[q].status = "completed",
         \A t \in Txns :
           /\ txn'[t].status = "reconciled" => txn[t].status = "reconciled"
           /\ Ticked(t) => Ticked(t)'
  PROVE  Claims' /\ ClaimedOnce'
<1>1. \A q \in Recons : recon[q].claimed \subseteq Txns
  BY AbsentFacts DEF TypeOK, ReconRow
<1>2. Claims'
  <2>1. ASSUME NEW q \in Recons
        PROVE  /\ recon'[q].status # "completed" => recon'[q].claimed = {}
               /\ \A t \in recon'[q].claimed : Ticked(t)'
    BY <1>1 DEF Claims
  <2>2. ASSUME NEW r \in Requests, NEW t \in Taken(r)' PROVE t \in Txns /\ Ticked(t)'
    BY <2>2 DEF Claims
  <2>. QED
    BY <2>1, <2>2 DEF Claims
<1>3. ClaimedOnce'
  BY DEF ClaimedOnce
<1>. QED
  BY <1>2, <1>3

(* One who is not at half, and does not get there, takes nothing.          *)
LEMMA NothingTaken ==
  ASSUME TypeOK, NEW r \in Requests, NEW x, tx' = [tx EXCEPT ![r] = x],
         tx[r].pc # "half", x.pc # "half"
  PROVE  \A s \in Requests : Taken(s)' = Taken(s)
<1>1. tx'[r] = x /\ \A s \in Requests \ {r} : tx'[s] = tx[s]
  BY DEF TypeOK
<1>2. Taken(r)' = {} /\ Taken(r) = {}
  BY <1>1 DEF Taken, At
<1>3. ASSUME NEW s \in Requests \ {r} PROVE Taken(s)' = Taken(s)
  <2>1. tx'[s] = tx[s]
    BY <1>1
  <2>. QED
    BY <2>1 DEF Taken, At, NewTxns
<1>. QED
  BY <1>2, <1>3

(* A statement that replaces the state of one transaction keeps the        *)
(* invariant, if the new state is sound and apart from the others.         *)
LEMMA TxStep ==
  ASSUME IInv, NEW r \in Requests, NEW x \in TxState, UNCHANGED books,
         tx' = [tx EXCEPT ![r] = x], Sound(x), tx[r].pc # "half", x.pc # "half",
         \A s \in Requests \ {r} : Apart(x, tx[s])
  PROVE  IInv'
<1>1. TypeOK'
  BY DEF IInv, TypeOK, books
<1>2. /\ tx'[r] = x
      /\ \A s \in Requests \ {r} : tx'[s] = tx[s]
  BY DEF IInv, TypeOK
<1>3. \A y : Sound(y) => Sound(y)'
  BY SoundStays, SMTT(40)
<1>4. ASSUME NEW s \in Requests PROVE Sound(tx[s])'
  <2>1. PICK y : y = tx'[s]
    OBVIOUS
  <2>2. Sound(y)
    BY <1>2, <2>1 DEF IInv, Requesting
  <2>3. Sound(y)'
    BY <1>3, <2>2
  <2>4. QED
    BY <2>1, <2>3 DEF Sound, Holds, Knows, Inserts, Inspected, Matched, Needs,
                      Writable, Reconcilable, Runs, Works
<1>5. ASSUME NEW s \in Requests, NEW u \in Requests, s # u
      PROVE  Apart(tx[s], tx[u])'
  BY <1>2, <1>5 DEF IInv, Requesting, Apart, Runs
<1>6. Books' /\ Claims' /\ ClaimedOnce'
  <2>1. Books'
    BY DEF IInv, Books, books, Reversals
  <2>2. \A s \in Requests : Taken(s)' = Taken(s)
    BY NothingTaken DEF IInv
  <2>3. \A t \in Txns : Ticked(t) => Ticked(t)'
    BY DEF Ticked, books
  <2>. QED
    BY <2>1, <2>2, <2>3, ClaimsKept DEF IInv, books
<1>7. QED
  BY <1>1, <1>4, <1>5, <1>6 DEF IInv, Requesting

(* A request that ends gives up whatever it held. *)
LEMMA EndStep ==
  ASSUME IInv, NEW r \in Requests, Running(r), Finish(r, "refused"), UNCHANGED books
  PROVE  IInv'
<1> DEFINE x == [tx[r] EXCEPT !.pc = "refused", !.locks = {}, !.rows = {}]
<1>1. tx[r] \in TxState
  BY DEF IInv, TypeOK
<1>2. x \in TxState
  BY <1>1 DEF TxState, PCs
<1>3. tx' = [tx EXCEPT ![r] = x]
  BY <1>1 DEF Finish, TxState, IInv, TypeOK
<1>4. x.pc = "refused" /\ x.locks = {} /\ x.rows = {}
  BY <1>1 DEF TxState
<1>5. Sound(x)
  BY <1>4 DEF Sound, Holds, Knows, Inserts, Inspected, Matched, Runs, Works
<1>6. \A s \in Requests \ {r} : Apart(x, tx[s])
  BY <1>4 DEF Apart, Runs
<1>7. tx[r].pc # "half" /\ x.pc # "half"
  BY <1>4 DEF Running
<1>8. QED
  BY <1>2, <1>3, <1>5, <1>6, <1>7, TxStep

LEMMA BeginStep ==
  ASSUME IInv, NEW r \in Requests, Begin(r)
  PROVE  IInv'
<1>1. PICK c \in Commands :
        /\ Fresh(c)
        /\ tx' = [tx EXCEPT ![r] =
             [pc |-> IF RefusedAtOnce(c) THEN "refused" ELSE "lock",
              cmd |-> c,
              seen |-> IF c.op \in {"update", "void"} THEN txn[c.txn]
                                                      ELSE Absent,
              locks |-> {}, rows |-> {}]]
  BY DEF Begin
<1> DEFINE x == [pc |-> IF RefusedAtOnce(c) THEN "refused" ELSE "lock",
                 cmd |-> c,
                 seen |-> IF c.op \in {"update", "void"} THEN txn[c.txn]
                                                         ELSE Absent,
                 locks |-> {}, rows |-> {}]
<1>2. c \in Command
  BY LedgerAssumption
<1>3. x \in TxState
  <2>1. x.seen \in TxnRow \cup {Absent}
    BY <1>2, CommandShape DEF IInv, TypeOK
  <2>2. QED
    BY <1>2, <2>1 DEF TxState, PCs
<1>4. Sound(x)
  <2>1. Holds(x)
    BY DEF Holds, Runs, Works
  <2>2. Knows(x)
    <3> SUFFICES ASSUME Runs(x) PROVE Knows(x)
      BY DEF Knows
    <3>1. ~RefusedAtOnce(c)
      BY DEF Runs
    <3>2. c.op = "complete" => recon[c.recon] # NoRecon
      BY <3>1 DEF RefusedAtOnce
    <3>3. c.op \in {"update", "void"} =>
            txn[c.txn].status \notin {"absent", "voided", "reconciled"}
      BY <3>1 DEF RefusedAtOnce
    <3>4. c.op = "void" => txn[c.txn].status \in {"pending", "confirmed"}
      <4>1. c.op = "void" => txn[c.txn].status # "draft"
        BY <3>1 DEF RefusedAtOnce
      <4>2. c.op = "void" => txn[c.txn] \in TxnRow \cup {Absent}
        BY <1>2, CommandShape DEF IInv, TypeOK
      <4>3. QED
        BY <3>3, <4>1, <4>2 DEF TxnRow, Absent, Statuses
    <3>5. QED
      BY <1>2, <3>2, <3>3, <3>4, AbsentFacts DEF Knows
  <2>3. Inserts(x)
    BY <1>1 DEF Inserts, Fresh
  <2>4. Inspected(x) /\ Matched(x)
    BY DEF Inspected, Matched, Works
  <2>5. QED
    BY <2>1, <2>2, <2>3, <2>4 DEF Sound
<1>5. ASSUME NEW s \in Requests \ {r} PROVE Apart(x, tx[s])
  BY <1>1 DEF Apart, Fresh, Running, Runs
<1>6. UNCHANGED books /\ tx[r].pc # "half" /\ x.pc # "half"
  BY DEF Begin, At
<1>7. QED
  BY <1>1, <1>3, <1>4, <1>5, <1>6, TxStep

LEMMA LockStep ==
  ASSUME IInv, NEW r \in Requests, Lock(r)
  PROVE  IInv'
<1>1. PICK a \in Needs(tx[r].cmd) \ tx[r].locks :
        /\ \A s \in Requests : a \notin tx[s].locks
        /\ tx' = [tx EXCEPT ![r].locks = @ \cup {a}]
  BY DEF Lock
<1> DEFINE x == [tx[r] EXCEPT !.locks = @ \cup {a}]
<1>2. tx[r] \in TxState /\ Sound(tx[r]) /\ tx[r].pc = "lock"
  BY DEF IInv, TypeOK, Requesting, Lock, At
<1>3. a \in Accounts
  BY DEF Needs
<1>4. x \in TxState
  BY <1>2, <1>3 DEF TxState
<1>5. tx' = [tx EXCEPT ![r] = x]
  BY <1>1 DEF IInv, TypeOK
<1>6. /\ x.pc = "lock" /\ x.cmd = tx[r].cmd /\ x.seen = tx[r].seen
      /\ x.locks = tx[r].locks \cup {a} /\ x.rows = tx[r].rows
  BY <1>2 DEF TxState
<1>7. Sound(x)
  BY <1>2, <1>6 DEF Sound, Holds, Knows, Inserts, Inspected, Matched, Runs, Works
<1>8. ASSUME NEW s \in Requests \ {r} PROVE Apart(x, tx[s])
  <2>1. Apart(tx[r], tx[s])
    BY DEF IInv, Requesting
  <2>2. QED
    BY <1>1, <1>2, <1>6, <2>1 DEF Apart, Runs
<1>9. UNCHANGED books
  BY DEF Lock
<1>10. QED
  BY <1>2, <1>4, <1>5, <1>6, <1>7, <1>8, <1>9, TxStep

LEMMA InspectStep ==
  ASSUME IInv, NEW r \in Requests, Inspect(r)
  PROVE  IInv'
<1>1. UNCHANGED books
  BY DEF Inspect
<1>2. CASE RefusedUnderLock(tx[r].cmd)
  BY <1>1, <1>2, EndStep DEF Inspect, Running, At
<1>3. CASE ~RefusedUnderLock(tx[r].cmd)
  <2> DEFINE x == [tx[r] EXCEPT !.pc = "write"]
  <2>1. tx[r] \in TxState /\ Sound(tx[r]) /\ tx[r].pc = "lock"
    BY DEF IInv, TypeOK, Requesting, Inspect, At
  <2>2. x \in TxState
    BY <2>1 DEF TxState, PCs
  <2>3. tx' = [tx EXCEPT ![r] = x]
    BY <1>3 DEF Inspect, IInv, TypeOK
  <2>4. /\ x.pc = "write" /\ x.cmd = tx[r].cmd /\ x.seen = tx[r].seen
        /\ x.locks = tx[r].locks /\ x.rows = tx[r].rows
    BY <2>1 DEF TxState
  <2>5. Needs(x.cmd) \subseteq x.locks
    BY <2>4 DEF Inspect
  <2>6. Inspected(x)
    BY <1>3, <2>4 DEF Inspected, RefusedUnderLock, Posting
  <2>7. Sound(x)
    BY <2>1, <2>4, <2>5, <2>6
       DEF Sound, Holds, Knows, Inserts, Matched, Runs, Works
  <2>8. ASSUME NEW s \in Requests \ {r} PROVE Apart(x, tx[s])
    <3>1. Apart(tx[r], tx[s])
      BY DEF IInv, Requesting
    <3>2. QED
      BY <2>1, <2>4, <3>1 DEF Apart, Runs
  <2>9. QED
    BY <1>1, <2>1, <2>2, <2>3, <2>4, <2>7, <2>8, TxStep
<1>4. QED
  BY <1>2, <1>3

LEMMA WriteStep ==
  ASSUME IInv, NEW r \in Requests, Write(r)
  PROVE  IInv'
<1>1. UNCHANGED books
  BY DEF Write
<1>2. CASE ~Writable(tx[r].cmd, tx[r].seen)
  BY <1>1, <1>2, EndStep DEF Write, Running, At
<1>3. CASE Writable(tx[r].cmd, tx[r].seen)
  <2> DEFINE c == tx[r].cmd
             x == [tx[r] EXCEPT !.pc = "commit", !.rows = Rows(c)]
  <2>1. tx[r] \in TxState /\ Sound(tx[r]) /\ tx[r].pc = "write"
    BY DEF IInv, TypeOK, Requesting, Write, At
  <2>2. Rows(c) \subseteq Txns \cup Accounts
    BY DEF Rows
  <2>3. x \in TxState
    BY <2>1, <2>2 DEF TxState, PCs
  <2>4. tx' = [tx EXCEPT ![r] = x]
    BY <1>3, <2>1 DEF Write, IInv, TypeOK, TxState
  <2>5. /\ x.pc = "commit" /\ x.cmd = c /\ x.seen = tx[r].seen
        /\ x.locks = tx[r].locks /\ x.rows = Rows(c)
    BY <2>1 DEF TxState
  <2>6. Sound(x)
    BY <1>3, <2>1, <2>5
       DEF Sound, Holds, Knows, Inserts, Inspected, Matched, Runs, Works
  <2>7. ASSUME NEW s \in Requests \ {r} PROVE Apart(x, tx[s])
    <3>1. Apart(tx[r], tx[s])
      BY DEF IInv, Requesting
    <3>2. Rows(c) \cap tx[s].rows = {}
      BY DEF Write
    <3>3. QED
      BY <2>1, <2>5, <3>1, <3>2 DEF Apart, Runs
  <2>8. QED
    BY <1>1, <2>1, <2>3, <2>4, <2>5, <2>6, <2>7, TxStep
<1>4. QED
  BY <1>2, <1>3

-----------------------------------------------------------------------------
(* COMMIT *)

BooksTypeOK ==
  /\ account \in [Accounts -> {"active", "archived", "closed"}]
  /\ txn \in [Txns -> TxnRow \cup {Absent}]
  /\ postings \in [Txns -> Seq(Pair)]
  /\ recon \in [Recons -> ReconRow \cup {NoRecon}]

(* What a command leaves as it was for everybody else. *)
Frame(c) ==
  /\ \A t \in Txns \ (Rows(c) \cup NewTxns(c)) :
       txn'[t] = txn[t] /\ postings'[t] = postings[t]
  /\ \A t \in Txns : txn[t] # Absent => txn'[t] # Absent
  /\ \A q \in Recons : recon[q] # NoRecon =>
       recon'[q] # NoRecon /\ recon'[q].account = recon[q].account
  /\ \A q \in Recons \ NewRecons(c) :
       (c.op = "complete" /\ q = c.recon) \/ recon'[q] = recon[q]
  /\ \A a \in Accounts \ Rows(c) : account'[a] = account[a]
  /\ \A a \in Accounts : account'[a] = "closed" =>
       account[a] = "closed" \/ (c.op = "close" /\ a = c.account)

(* What a transaction that commits knows. *)
LEMMA Committing ==
  ASSUME IInv, NEW r \in Requests, At(r, "commit")
  PROVE  /\ tx[r].cmd \in Command
         /\ tx[r] \in TxState
         /\ Sound(tx[r])
         /\ tx[r].rows = Rows(tx[r].cmd)
         /\ Needs(tx[r].cmd) \subseteq tx[r].locks
         /\ Writable(tx[r].cmd, tx[r].seen)
         /\ tx[r].cmd.op = "void" => tx[r].seen.status \in {"pending", "confirmed"}
         /\ tx[r].cmd.op = "complete" =>
              recon[tx[r].cmd.recon] \in ReconRow
                /\ recon[tx[r].cmd.recon].status = "open"
         /\ \A t \in NewTxns(tx[r].cmd) : txn[t] = Absent
         /\ \A q \in NewRecons(tx[r].cmd) : recon[q] = NoRecon
         /\ tx[r].cmd.op \in {"update", "void"} => txn[tx[r].cmd.txn] \in TxnRow
<1>1. tx[r] \in TxState /\ Sound(tx[r]) /\ tx[r].pc = "commit"
  BY DEF IInv, TypeOK, Requesting, At
<1>2. Runs(tx[r]) /\ Works(tx[r])
  BY <1>1 DEF Runs, Works
<1>3. Knows(tx[r]) /\ Holds(tx[r]) /\ Inserts(tx[r]) /\ Inspected(tx[r])
        /\ Matched(tx[r])
  BY <1>1 DEF Sound
<1>4. tx[r].cmd \in Command
  BY <1>2, <1>3 DEF Knows
<1>5. tx[r].cmd.op = "complete" => recon[tx[r].cmd.recon] \in ReconRow
  BY <1>2, <1>3, <1>4, CommandShape DEF Knows, IInv, TypeOK
<1>6. tx[r].cmd.op \in {"update", "void"} => txn[tx[r].cmd.txn] \in TxnRow
  BY <1>2, <1>3, <1>4, CommandShape DEF Knows, IInv, TypeOK
<1>7. QED
  BY <1>1, <1>2, <1>3, <1>4, <1>5, <1>6
     DEF Knows, Holds, Inserts, Inspected, Matched

LEMMA CreateFrame ==
  ASSUME IInv, NEW r \in Requests, At(r, "commit"), Create(tx[r].cmd)
  PROVE  Frame(tx[r].cmd) /\ BooksTypeOK'
<1> DEFINE c == tx[r].cmd
<1>1. /\ c \in Command /\ c.op = "create" /\ NewTxns(c) = {c.txn}
      /\ c.txn \in Txns /\ c.status \in {"draft", "pending", "confirmed"}
  BY Committing, CommandShape, CommandNews DEF Create
<1>2. [status |-> c.status, version |-> 1] \in TxnRow
  BY <1>1 DEF TxnRow, Statuses
<1>3. PairOf(1, c.status) \in Pair
  BY <1>1 DEF PairOf, Pair, Postable, Statuses
<1>4. BooksTypeOK'
  BY <1>1, <1>2, <1>3 DEF Create, IInv, TypeOK, BooksTypeOK
<1>5. Frame(c)
  BY <1>1, <1>2, AbsentFacts DEF Frame, Create, IInv, TypeOK
<1>6. QED
  BY <1>4, <1>5

LEMMA UpdateFrame ==
  ASSUME IInv, NEW r \in Requests, At(r, "commit"), Update(tx[r].cmd)
  PROVE  Frame(tx[r].cmd) /\ BooksTypeOK'
<1> DEFINE c == tx[r].cmd
           new == [status  |-> IF c.status = None THEN txn[c.txn].status
                                                  ELSE c.status,
                   version |-> txn[c.txn].version + 1]
<1>1. /\ c \in Command /\ c.op = "update"
      /\ c.txn \in Txns /\ c.status \in {"draft", "pending", "confirmed", None}
      /\ txn[c.txn] \in TxnRow
  BY Committing, CommandShape DEF Update
<1>2. new \in TxnRow
  BY <1>1 DEF TxnRow, Statuses
<1>3. c.txn \in Rows(c)
  BY <1>1 DEF Rows
<1>4. txn' = [txn EXCEPT ![c.txn] = new] /\ UNCHANGED <<account, postings, recon>>
  BY DEF Update
<1>5. BooksTypeOK'
  BY <1>1, <1>2, <1>4 DEF IInv, TypeOK, BooksTypeOK
<1>6. Frame(c)
  BY <1>1, <1>2, <1>3, <1>4, AbsentFacts DEF Frame, IInv, TypeOK
<1>7. QED
  BY <1>5, <1>6

LEMMA VoidFrame ==
  ASSUME IInv, NEW r \in Requests, At(r, "commit"),
         Void(tx[r].cmd, tx[r].seen)
  PROVE  Frame(tx[r].cmd) /\ BooksTypeOK'
<1> DEFINE c == tx[r].cmd
           new == [status  |-> "voided", version |-> txn[c.txn].version + 1]
           back == PairOf(-1, tx[r].seen.status)
<1>1. /\ c \in Command /\ c.op = "void"
      /\ c.txn \in Txns /\ txn[c.txn] \in TxnRow
      /\ tx[r].seen.status \in {"pending", "confirmed"}
  BY Committing, CommandShape DEF Void
<1>2. new \in TxnRow
  BY <1>1 DEF TxnRow, Statuses
<1>3. back \in Pair
  BY <1>1 DEF PairOf, Pair, Postable, Statuses
<1>4. c.txn \in Rows(c)
  BY <1>1 DEF Rows
<1>5. /\ txn' = [txn EXCEPT ![c.txn] = new]
      /\ postings' = [postings EXCEPT ![c.txn] = Append(@, back)]
      /\ UNCHANGED <<account, recon>>
  BY DEF Void
<1>6. postings' \in [Txns -> Seq(Pair)]
  <2>1. Append(postings[c.txn], back) \in Seq(Pair)
    BY <1>1, <1>3 DEF IInv, TypeOK
  <2>2. QED
    BY <1>1, <1>5, <2>1 DEF IInv, TypeOK
<1>7. BooksTypeOK'
  BY <1>1, <1>2, <1>5, <1>6 DEF IInv, TypeOK, BooksTypeOK
<1>8. Frame(c)
  BY <1>1, <1>2, <1>4, <1>5, AbsentFacts DEF Frame, IInv, TypeOK
<1>9. QED
  BY <1>7, <1>8

LEMMA OpenFrame ==
  ASSUME IInv, NEW r \in Requests, At(r, "commit"), Open(tx[r].cmd)
  PROVE  Frame(tx[r].cmd) /\ BooksTypeOK'
<1> DEFINE c == tx[r].cmd
           new == [status |-> "open", account |-> c.account, claimed |-> {}]
<1>1. /\ c \in Command /\ c.op = "open" /\ NewRecons(c) = {c.recon}
      /\ c.recon \in Recons /\ c.account \in Accounts
      /\ recon[c.recon] = NoRecon
  BY Committing, CommandShape, CommandNews DEF Open
<1>2. new \in ReconRow
  BY <1>1 DEF ReconRow
<1>3. recon' = [recon EXCEPT ![c.recon] = new]
        /\ UNCHANGED <<account, txn, postings>>
  BY DEF Open
<1>4. BooksTypeOK'
  BY <1>1, <1>2, <1>3 DEF IInv, TypeOK, BooksTypeOK
<1>5. Frame(c)
  BY <1>1, <1>2, <1>3, AbsentFacts DEF Frame, IInv, TypeOK
<1>6. QED
  BY <1>4, <1>5

LEMMA SetAccountFrame ==
  ASSUME IInv, NEW r \in Requests, At(r, "commit"), SetAccount(tx[r].cmd)
  PROVE  Frame(tx[r].cmd) /\ BooksTypeOK'
<1> DEFINE c == tx[r].cmd
           new == IF c.op = "close" THEN "closed" ELSE c.status
<1>1. /\ c \in Command /\ c.op \in {"close", "updateAccount"}
      /\ c.account \in Accounts
      /\ c.op = "updateAccount" => c.status \in {"active", "archived"}
  BY Committing, CommandShape DEF SetAccount
<1>2. c.account \in Rows(c)
  BY <1>1 DEF Rows
<1>3. account' = [account EXCEPT ![c.account] = new]
        /\ UNCHANGED <<txn, postings, recon>>
  BY DEF SetAccount
<1>4. BooksTypeOK'
  BY <1>1, <1>3 DEF IInv, TypeOK, BooksTypeOK
<1>5. Frame(c)
  BY <1>1, <1>2, <1>3 DEF Frame, IInv, TypeOK
<1>6. QED
  BY <1>4, <1>5

(* Ticking a sequence of postings changes the account leg of each alone. *)
LEMMA TickFacts ==
  ASSUME NEW pairs \in Seq(Pair)
  PROVE  /\ Tick(pairs) \in Seq(Pair)
         /\ Len(Tick(pairs)) = Len(pairs)
         /\ \A i \in 1..Len(pairs) :
              /\ Tick(pairs)[i].sign = pairs[i].sign
              /\ pairs[i].account \in {"confirmed", "reconciled"} =>
                   Tick(pairs)[i].account = "reconciled"
<1>1. \A i \in 1..Len(pairs) : pairs[i] \in Pair
  OBVIOUS
<1>2. ASSUME NEW i \in 1..Len(pairs)
      PROVE  [pairs[i] EXCEPT !.account = "reconciled"] \in Pair
  BY <1>1 DEF Pair, Postable, Statuses
<1>3. \A i \in 1..Len(pairs) : Tick(pairs)[i] \in Pair
  BY <1>1, <1>2 DEF Tick
<1>4. Tick(pairs) \in [1..Len(pairs) -> Pair]
  BY <1>3 DEF Tick
<1>5. Tick(pairs) \in Seq(Pair) /\ Len(Tick(pairs)) = Len(pairs)
  BY <1>4
<1>6. ASSUME NEW i \in 1..Len(pairs)
      PROVE  /\ Tick(pairs)[i].sign = pairs[i].sign
             /\ pairs[i].account \in {"confirmed", "reconciled"} =>
                  Tick(pairs)[i].account = "reconciled"
  <2>1. pairs[i] \in Pair
    BY <1>1
  <2>2. CASE pairs[i].account = "confirmed"
    <3>1. Tick(pairs)[i] = [pairs[i] EXCEPT !.account = "reconciled"]
      BY <2>2 DEF Tick
    <3>2. QED
      BY <2>1, <3>1 DEF Pair
  <2>3. CASE pairs[i].account # "confirmed"
    BY <2>3 DEF Tick
  <2>4. QED
    BY <2>2, <2>3
<1>7. QED
  BY <1>5, <1>6

LEMMA CompleteFrame ==
  ASSUME IInv, NEW r \in Requests, At(r, "commit"),
         Complete(tx[r].cmd) \/ CompleteByHalf(tx[r].cmd)
  PROVE  Frame(tx[r].cmd) /\ BooksTypeOK'
<1> DEFINE c == tx[r].cmd
           done == [recon[c.recon] EXCEPT !.status = "completed",
                                          !.claimed = c.txns \cup NewTxns(c)]
<1>0. Reconcile(c)
  BY DEF Complete, CompleteByHalf
<1>1. /\ c \in Command /\ c.op = "complete" /\ c.recon \in Recons
      /\ c.txns \subseteq Txns /\ NewTxns(c) = {c.adjustment} \ {None}
      /\ NewTxns(c) \subseteq Txns
      /\ recon[c.recon] \in ReconRow /\ recon[c.recon].status = "open"
      /\ Writable(c, tx[r].seen)
  BY Committing, CommandShape, CommandNews, <1>0 DEF Reconcile
<1>2. \A t \in c.txns : txn[t] \in TxnRow /\ txn[t].status = "confirmed"
  BY <1>1, AbsentFacts DEF Writable, Reconcilable, IInv, TypeOK
<1>3. done \in ReconRow /\ done.account = recon[c.recon].account
  BY <1>1 DEF ReconRow
<1>4. recon' = [recon EXCEPT ![c.recon] = done] \/ recon' = recon
  BY <1>1 DEF Complete, CompleteByHalf, IInv, TypeOK, ReconRow
<1>5. \A t \in c.txns : [txn[t] EXCEPT !.status = "reconciled"] \in TxnRow
  BY <1>2 DEF TxnRow, Statuses
<1>6. [status |-> "reconciled", version |-> 1] \in TxnRow
  BY DEF TxnRow, Statuses
<1>7. \A t \in Txns : txn'[t] \in TxnRow \cup {Absent}
  BY <1>0, <1>5, <1>6 DEF Reconcile, IInv, TypeOK
<1>8. txn' \in [Txns -> TxnRow \cup {Absent}]
  BY <1>0, <1>7 DEF Reconcile
<1>9. PairOf(1, "reconciled") \in Pair
  BY DEF PairOf, Pair, Postable, Statuses
<1>10. \A t \in Txns : postings'[t] \in Seq(Pair)
  BY <1>0, <1>9, TickFacts DEF Reconcile, IInv, TypeOK
<1>11. postings' \in [Txns -> Seq(Pair)]
  BY <1>0, <1>10 DEF Reconcile
<1>12. BooksTypeOK'
  BY <1>0, <1>1, <1>3, <1>4, <1>8, <1>11 DEF Reconcile, IInv, TypeOK, BooksTypeOK
<1>13. \A t \in c.txns : t \in Rows(c)
  BY <1>1 DEF Rows
<1>14. \A t \in Txns \ (Rows(c) \cup NewTxns(c)) : t \notin c.txns
                                                   /\ t # c.adjustment
  BY <1>1, <1>13, LedgerAssumption
<1>15. \A t \in Txns : txn[t] # Absent => txn'[t] # Absent
  BY <1>0, <1>5, <1>6, AbsentFacts DEF Reconcile
<1>16. Frame(c)
  BY <1>0, <1>1, <1>3, <1>4, <1>14, <1>15, AbsentFacts
     DEF Frame, Reconcile, IInv, TypeOK
<1>17. QED
  BY <1>12, <1>16

LEMMA CommitFrame ==
  ASSUME IInv, NEW r \in Requests, Commit(r)
  PROVE  Frame(tx[r].cmd) /\ BooksTypeOK'
<1>1. At(r, "commit")
  BY DEF Commit
<1>2. CASE Transfer(tx[r].cmd)
  BY <1>2 DEF Transfer, books, Frame, BooksTypeOK, IInv, TypeOK
<1>3. QED
  BY <1>1, <1>2, CreateFrame, UpdateFrame, VoidFrame, OpenFrame, CompleteFrame,
     SetAccountFrame DEF Commit

(* The transactions whose rows a committing request holds exist. *)
LEMMA RowsPresent ==
  ASSUME IInv, NEW r \in Requests, At(r, "commit"),
         NEW t \in Txns, t \in Rows(tx[r].cmd)
  PROVE  txn[t] # Absent
<1> DEFINE c == tx[r].cmd
<1>1. c \in Command /\ Writable(c, tx[r].seen)
        /\ (c.op \in {"update", "void"} => txn[c.txn] \in TxnRow)
  BY Committing
<1>2. CASE c.op \in {"update", "void"}
  BY <1>1, <1>2, AbsentFacts DEF Rows
<1>3. CASE c.op = "complete"
  BY <1>1, <1>3, AbsentFacts DEF Rows, Writable, Reconcilable
<1>4. CASE c.op \in {"close", "updateAccount"}
  BY <1>1, <1>4, CommandShape, LedgerAssumption DEF Rows
<1>5. QED
  BY <1>1, <1>2, <1>3, <1>4 DEF Rows

(* A COMMIT takes nothing from the requests that are still running: what   *)
(* they inspected is behind their advisory locks, what they matched behind *)
(* their row locks, and what they insert nobody else inserts.              *)
LEMMA OthersSound ==
  ASSUME IInv, NEW r \in Requests, At(r, "commit"), Frame(tx[r].cmd),
         NEW s \in Requests, s # r, NEW y, y = tx[s]
  PROVE  Sound(y)'
<1> DEFINE c == tx[r].cmd
           d == y.cmd
<1>1. Sound(y) /\ Apart(tx[r], y)
  BY DEF IInv, Requesting
<1>2. /\ c \in Command
      /\ tx[r].rows = Rows(c)
      /\ Needs(c) \subseteq tx[r].locks
      /\ c.op = "complete" =>
           recon[c.recon] \in ReconRow /\ recon[c.recon].status = "open"
      /\ \A q \in NewRecons(c) : recon[q] = NoRecon
      /\ \A t \in NewTxns(c) : txn[t] = Absent
  BY Committing
<1>3. Runs(tx[r])
  BY DEF Runs, At
<1>4. CASE ~Runs(y)
  BY <1>1, <1>4 DEF Sound, Holds, Knows, Inserts, Inspected, Matched, Runs, Works
<1>5. CASE Runs(y)
  <2>1. d \in Command
    BY <1>1, <1>5 DEF Sound, Knows
  <2>2. d.op = "complete" => /\ recon[d.recon] \in ReconRow
                             /\ recon'[d.recon] # NoRecon
                             /\ recon'[d.recon].account = recon[d.recon].account
    BY <1>1, <1>5, <2>1, CommandShape DEF Sound, Knows, Frame, IInv, TypeOK
  <2>3. Needs(d)' = Needs(d)
    BY <2>2 DEF Needs
  <2>4. Holds(y)'
    BY <1>1, <2>3 DEF Sound, Holds, Rows, Runs, Works
  <2>5. Knows(y)'
    BY <1>1, <1>5, <2>1, <2>2, CommandShape DEF Sound, Knows, Frame
  <2>6. Inserts(y)'
    <3>1. ASSUME NEW t \in NewTxns(d) PROVE txn'[t] = Absent
      <4>1. t \in Txns /\ txn[t] = Absent /\ t \notin NewTxns(c)
        BY <1>1, <1>3, <1>5, <2>1, CommandNews DEF Sound, Inserts, Apart
      <4>2. t \notin Rows(c)
        BY <4>1, RowsPresent
      <4>3. QED
        BY <4>1, <4>2 DEF Frame
    <3>2. ASSUME NEW q \in NewRecons(d) PROVE recon'[q] = NoRecon
      <4>1. q \in Recons /\ recon[q] = NoRecon /\ q \notin NewRecons(c)
        BY <1>1, <1>3, <1>5, <2>1, CommandNews DEF Sound, Inserts, Apart
      <4>2. ~(c.op = "complete" /\ q = c.recon)
        BY <1>2, <4>1, AbsentFacts
      <4>3. QED
        BY <4>1, <4>2 DEF Frame
    <3>3. QED
      BY <3>1, <3>2 DEF Inserts
  <2>7. Inspected(y)'
    <3> SUFFICES ASSUME Works(y) PROVE Inspected(y)'
      BY DEF Inspected, Works
    <3>1. Needs(d) \subseteq y.locks /\ Inspected(y)
      BY <1>1 DEF Sound, Holds
    <3>2. Needs(c) \cap Needs(d) = {}
      BY <1>1, <1>2, <3>1 DEF Apart
    <3>3. ASSUME d.op \in Posting, NEW a \in Needs(d)
          PROVE  account'[a] # "closed"
      <4>1. a \in Accounts /\ account[a] # "closed"
        BY <3>1, <3>3 DEF Inspected, Needs
      <4>2. ~(c.op = "close" /\ a = c.account)
        BY <3>2, <4>1 DEF Needs
      <4>3. QED
        BY <4>1, <4>2 DEF Frame
    <3>4. ASSUME d.op = "complete" PROVE recon'[d.recon].status = "open"
      <4>1. d.recon \in Recons /\ recon[d.recon].status = "open"
        BY <2>1, <3>1, <3>4, CommandShape DEF Inspected
      <4>2. ~(c.op = "complete" /\ d.recon = c.recon)
        <5> SUFFICES ASSUME c.op = "complete", d.recon = c.recon PROVE FALSE
          OBVIOUS
        <5>1. recon[c.recon].account \in Accounts
          BY <1>2 DEF ReconRow
        <5>2. recon[c.recon].account \in Needs(c) \cap Needs(d)
          BY <3>4, <5>1 DEF Needs
        <5>3. QED
          BY <3>2, <5>2
      <4>3. d.recon \notin NewRecons(c)
        BY <1>2, <4>1, AbsentFacts
      <4>4. QED
        BY <4>1, <4>2, <4>3 DEF Frame
    <3>5. QED
      BY <2>3, <3>3, <3>4 DEF Inspected, Works
  <2>8. Matched(y)'
    <3> SUFFICES ASSUME y.pc = "commit" PROVE Matched(y)'
      BY DEF Matched
    <3>1. Writable(d, y.seen) /\ y.rows = Rows(d)
      BY <1>1 DEF Sound, Holds, Matched
    <3>2. Rows(c) \cap Rows(d) = {}
      BY <1>1, <1>2, <3>1 DEF Apart
    <3>3. ASSUME NEW t \in Txns, t \in Rows(d)
          PROVE  txn'[t] = txn[t] /\ postings'[t] = postings[t]
      <4>1. txn[t] # Absent
        BY <3>3, RowsPresent DEF At
      <4>2. t \notin NewTxns(c) /\ t \notin Rows(c)
        BY <1>2, <3>2, <3>3, <4>1
      <4>3. QED
        BY <4>2 DEF Frame
    <3>4. ASSUME d.op \in {"update", "void"}
          PROVE  txn'[d.txn] = txn[d.txn]
      <4>1. d.txn \in Txns /\ d.txn \in Rows(d)
        BY <2>1, <3>4, CommandShape DEF Rows
      <4>2. QED
        BY <3>3, <4>1
    <3>5. ASSUME d.op = "complete", NEW t \in d.txns
          PROVE  Reconcilable(t, recon[d.recon].account)'
      <4>1. t \in Txns /\ t \in Rows(d)
        BY <2>1, <3>5, CommandShape DEF Rows
      <4>2. Reconcilable(t, recon[d.recon].account)
        BY <3>1, <3>5 DEF Writable
      <4>3. txn'[t] = txn[t] /\ postings'[t] = postings[t]
        BY <3>3, <4>1
      <4>4. recon'[d.recon].account = recon[d.recon].account
        BY <2>2, <3>5
      <4>5. QED
        BY <4>2, <4>3, <4>4 DEF Reconcilable
    <3>6. ASSUME d.op \in {"close", "updateAccount"}
          PROVE  account'[d.account] = account[d.account]
      <4>1. d.account \in Accounts /\ d.account \in Rows(d)
        BY <2>1, <3>6, CommandShape DEF Rows
      <4>2. QED
        BY <3>2, <4>1 DEF Frame
    <3>7. Writable(d, y.seen)'
      BY <3>1, <3>4, <3>5, <3>6 DEF Writable
    <3>8. QED
      BY <3>7 DEF Matched
  <2>9. QED
    BY <2>4, <2>5, <2>6, <2>7, <2>8 DEF Sound
<1>6. QED
  BY <1>4, <1>5

LEMMA CommitRequesting ==
  ASSUME IInv, NEW r \in Requests, Commit(r)
  PROVE  tx' \in [Requests -> TxState] /\ Requesting'
<1>0. PICK outcome \in {"ok", "half"} : Finish(r, outcome)
  BY DEF Commit
<1> DEFINE x == [tx[r] EXCEPT !.pc = outcome, !.locks = {}, !.rows = {}]
<1>1. At(r, "commit") /\ Frame(tx[r].cmd) /\ tx[r] \in TxState
  BY CommitFrame DEF Commit, IInv, TypeOK
<1>2. x \in TxState
  BY <1>1 DEF TxState, PCs
<1>3. tx' = [tx EXCEPT ![r] = x]
  BY <1>0, <1>1 DEF Finish, TxState, IInv, TypeOK
<1>4. x.pc = outcome /\ x.locks = {} /\ x.rows = {}
  BY <1>1 DEF TxState
<1>5. tx'[r] = x /\ \A s \in Requests \ {r} : tx'[s] = tx[s]
  BY <1>3 DEF IInv, TypeOK
<1>6. Sound(tx[r])'
  BY <1>4, <1>5
     DEF Sound, Holds, Knows, Inserts, Inspected, Matched, Runs, Works
<1>7. ASSUME NEW s \in Requests \ {r} PROVE Sound(tx[s])'
  <2>1. PICK y : y = tx[s]
    OBVIOUS
  <2>2. Sound(y)'
    BY <1>1, <2>1, OthersSound
  <2>3. y = tx'[s]
    BY <1>5, <2>1
  <2>4. QED
    BY <2>2, <2>3 DEF Sound, Holds, Knows, Inserts, Inspected, Matched, Needs,
                      Writable, Reconcilable, Runs, Works
<1>8. ASSUME NEW s \in Requests, NEW u \in Requests, s # u
      PROVE  Apart(tx[s], tx[u])'
  BY <1>4, <1>5, <1>8 DEF IInv, Requesting, Apart, Runs
<1>9. QED
  BY <1>2, <1>3, <1>6, <1>7, <1>8 DEF Requesting, IInv, TypeOK

(* Nothing is claimed, or left by half, that is absent or still confirmed  *)
(* throughout.                                                             *)
LEMMA NotTicked ==
  ASSUME IInv, NEW t \in Txns,
         txn[t] = Absent \/ \E a \in Accounts : Reconcilable(t, a)
  PROVE  ~Ticked(t)
<1> SUFFICES ASSUME Ticked(t) PROVE FALSE
  OBVIOUS
<1>1. postings[t] # <<>> /\ postings[t][1].account = "reconciled"
  BY DEF Ticked
<1>2. postings[t] \in Seq(Pair)
  BY DEF IInv, TypeOK
<1>3. 1 \in 1..Len(postings[t])
  BY <1>1, <1>2
<1>4. txn[t] # Absent
  BY <1>1 DEF IInv, Books
<1>5. \A a \in Accounts : ~Reconcilable(t, a)
  BY <1>1, <1>3 DEF Reconcilable
<1>6. QED
  BY <1>4, <1>5

LEMMA NotClaimed ==
  ASSUME IInv, NEW t \in Txns,
         txn[t] = Absent \/ \E a \in Accounts : Reconcilable(t, a)
  PROVE  /\ \A q \in Recons : t \notin recon[q].claimed
         /\ \A s \in Requests : t \notin Taken(s)
  BY NotTicked DEF IInv, Claims

(* The books of one transaction, as a fact about its row and its postings. *)
Kept(row, pairs) ==
  /\ row = Absent <=> pairs = <<>>
  /\ {i \in 1..Len(pairs) : pairs[i].sign = -1} =
       IF row.status = "voided" THEN {Len(pairs)} ELSE {}

LEMMA BooksKept == Books <=> \A t \in Txns : Kept(txn[t], postings[t])
  BY DEF Books, Kept, Reversals

LEMMA NewIsKept ==
  ASSUME NEW row \in TxnRow, row.status # "voided", NEW status
  PROVE  Kept(row, <<PairOf(1, status)>>)
<1> DEFINE pairs == <<PairOf(1, status)>>
<1>1. Len(pairs) = 1 /\ pairs[1].sign = 1 /\ pairs # <<>>
  BY DEF PairOf
<1>2. {i \in 1..Len(pairs) : pairs[i].sign = -1} = {}
  BY <1>1
<1> HIDE DEF pairs
<1>3. Kept(row, pairs)
  BY <1>1, <1>2, AbsentFacts DEF Kept
<1>4. QED
  BY <1>3 DEF pairs

LEMMA CommitBooks ==
  ASSUME IInv, NEW r \in Requests, Commit(r)
  PROVE  Books'
<1> DEFINE c == tx[r].cmd
           seen == tx[r].seen
<1>1. /\ At(r, "commit") /\ c \in Command /\ Writable(c, seen)
      /\ c.op \in {"update", "void"} => txn[c.txn] \in TxnRow
      /\ c.op = "void" => seen.status \in {"pending", "confirmed"}
  BY Committing DEF Commit
<1>2. \A t \in Txns : Kept(txn[t], postings[t])
  BY BooksKept DEF IInv
<1>3. TypeOK
  BY DEF IInv
<1>4. SUFFICES ASSUME NEW t \in Txns PROVE Kept(txn'[t], postings'[t])
  BY DEF Books, Kept, Reversals
<1>5. CASE txn'[t] = txn[t] /\ postings'[t] = postings[t]
  BY <1>2, <1>5
<1>6. CASE Create(c)
  <2>1. [status |-> c.status, version |-> 1] \in TxnRow /\ c.status # "voided"
    BY <1>1, <1>6, CommandShape DEF Create, TxnRow, Statuses
  <2>2. CASE t = c.txn
    <3>1. /\ txn'[t] = [status |-> c.status, version |-> 1]
          /\ postings'[t] = <<PairOf(1, c.status)>>
      BY <1>3, <1>6, <2>2 DEF Create, TypeOK
    <3>2. QED
      BY <2>1, <3>1, NewIsKept
  <2>3. CASE t # c.txn
    BY <1>3, <1>5, <1>6, <2>3 DEF Create, TypeOK
  <2>4. QED
    BY <2>2, <2>3
<1>7. CASE Update(c)
  <2>1. CASE t = c.txn
    <3>1. c.status \in {"draft", "pending", "confirmed", None}
      BY <1>1, <1>7, CommandShape DEF Update
    <3>2. /\ txn[t] \in TxnRow /\ txn[t].status # "voided"
      BY <1>1, <1>7, <2>1 DEF Update, Writable
    <3>3. txn'[t] = [status  |-> IF c.status = None THEN txn[t].status
                                                    ELSE c.status,
                     version |-> txn[t].version + 1]
            /\ postings'[t] = postings[t]
      BY <1>3, <1>7, <2>1 DEF Update, TypeOK
    <3>4. txn'[t] \in TxnRow /\ txn'[t].status # "voided"
      BY <3>1, <3>2, <3>3, LedgerAssumption DEF TxnRow, Statuses
    <3>5. QED
      BY <1>2, <3>2, <3>3, <3>4, AbsentFacts DEF Kept
  <2>2. CASE t # c.txn
    BY <1>3, <1>5, <1>7, <2>2 DEF Update, TypeOK
  <2>3. QED
    BY <2>1, <2>2
<1>8. CASE Void(c, seen)
  <2>1. CASE t = c.txn
    <3> DEFINE back == PairOf(-1, seen.status)
               old == postings[t]
               new == Append(old, back)
    <3>1. txn[t] \in TxnRow /\ txn[t].status # "voided"
      BY <1>1, <1>8, <2>1 DEF Void, Writable
    <3>2. txn'[t] = [status |-> "voided", version |-> txn[t].version + 1]
            /\ postings'[t] = new
      BY <1>3, <1>8, <2>1 DEF Void, TypeOK
    <3>3. txn'[t] # Absent /\ txn'[t].status = "voided"
      BY <3>2 DEF Absent
    <3>4. back \in Pair /\ back.sign = -1
      BY <1>1, <1>8 DEF Void, PairOf, Pair, Postable, Statuses
    <3>5. old \in Seq(Pair)
      BY <1>3 DEF TypeOK
    <3>6. {i \in 1..Len(old) : old[i].sign = -1} = {}
      BY <1>2, <3>1 DEF Kept
    <3> HIDE DEF back, old
    <3>7. /\ Len(new) = Len(old) + 1 /\ Len(old) \in Nat
          /\ \A i \in 1..Len(old) : new[i] = old[i]
          /\ new[Len(old) + 1] = back
      BY <3>4, <3>5
    <3> HIDE DEF new
    <3>8. {i \in 1..Len(new) : new[i].sign = -1} = {Len(new)}
      <4>1. \A i \in 1..Len(old) : old[i].sign # -1
        BY <3>6
      <4>2. \A i \in 1..Len(new) : new[i].sign = -1 <=> i = Len(new)
        <5> TAKE i \in 1..Len(new)
        <5>1. CASE i \in 1..Len(old)
          BY <3>7, <4>1, <5>1
        <5>2. CASE i = Len(old) + 1
          BY <3>4, <3>7, <5>2
        <5>3. QED
          BY <3>7, <5>1, <5>2
      <4>3. Len(new) \in 1..Len(new)
        BY <3>7
      <4>4. QED
        BY <4>2, <4>3
    <3>9. new # <<>>
      BY <3>7
    <3>10. QED
      BY <3>2, <3>3, <3>8, <3>9 DEF Kept
  <2>2. CASE t # c.txn
    BY <1>3, <1>5, <1>8, <2>2 DEF Void, TypeOK
  <2>3. QED
    BY <2>1, <2>2
<1>9. CASE Reconcile(c)
  <2>1. CASE t \in c.txns
    <3> DEFINE old == postings[t]
               new == Tick(old)
    <3>1. txn'[t] = [txn[t] EXCEPT !.status = "reconciled"]
            /\ postings'[t] = new
      BY <1>9, <2>1 DEF Reconcile
    <3>2. txn[t].status = "confirmed"
      BY <1>1, <1>9, <2>1 DEF Reconcile, Writable, Reconcilable
    <3>3. txn[t] \in TxnRow
      BY <1>3, <3>2, AbsentFacts DEF TypeOK
    <3>4. txn'[t] # Absent /\ txn'[t].status = "reconciled"
      BY <3>1, <3>3 DEF TxnRow, Absent
    <3>5. old \in Seq(Pair) /\ old # <<>>
      BY <1>2, <1>3, <3>3, AbsentFacts DEF TypeOK, Kept
    <3>6. {i \in 1..Len(old) : old[i].sign = -1} = {}
      BY <1>2, <3>2 DEF Kept
    <3> HIDE DEF old
    <3>7. /\ Len(new) = Len(old) /\ new \in Seq(Pair)
          /\ \A i \in 1..Len(old) : new[i].sign = old[i].sign
      BY <3>5, TickFacts
    <3> HIDE DEF new
    <3>8. {i \in 1..Len(new) : new[i].sign = -1} = {}
      BY <3>6, <3>7
    <3>9. new # <<>>
      BY <3>5, <3>7
    <3>10. QED
      BY <3>1, <3>4, <3>8, <3>9 DEF Kept
  <2>2. CASE t \notin c.txns /\ t = c.adjustment
    <3> DEFINE row == [status |-> "reconciled", version |-> 1]
    <3>1. txn'[t] = row /\ postings'[t] = <<PairOf(1, "reconciled")>>
      BY <1>9, <2>2 DEF Reconcile
    <3>2. row \in TxnRow /\ row.status # "voided"
      BY DEF TxnRow, Statuses
    <3>3. QED
      BY <3>1, <3>2, NewIsKept
  <2>3. CASE t \notin c.txns /\ t # c.adjustment
    BY <1>5, <1>9, <2>3 DEF Reconcile
  <2>4. QED
    BY <2>1, <2>2, <2>3
<1>10. CASE Transfer(c) \/ Open(c) \/ SetAccount(c)
  BY <1>5, <1>10 DEF Transfer, books, Open, SetAccount
<1>11. QED
  BY <1>6, <1>7, <1>8, <1>9, <1>10
     DEF Commit, Complete, CompleteByHalf

(* Claims survive whatever else happens to the transactions. *)
LEMMA OkClaims ==
  ASSUME IInv, NEW r \in Requests, Commit(r),
         ~(Complete(tx[r].cmd) /\ Finish(r, "ok")),
         ~(CompleteByHalf(tx[r].cmd) /\ Finish(r, "half"))
  PROVE  Claims' /\ ClaimedOnce'
<1> DEFINE c == tx[r].cmd
           seen == tx[r].seen
<1>1. /\ At(r, "commit") /\ c \in Command /\ Writable(c, seen)
      /\ c.op \in {"update", "void"} => txn[c.txn] \in TxnRow
      /\ c.op = "complete" =>
           recon[c.recon] \in ReconRow /\ recon[c.recon].status = "open"
      /\ \A t \in NewTxns(c) : txn[t] = Absent
      /\ \A q \in NewRecons(c) : recon[q] = NoRecon
  BY Committing DEF Commit
<1>2. TypeOK /\ Claims /\ ClaimedOnce /\ Books
  BY DEF IInv
<1>3. \A s \in Requests : Taken(s)' = Taken(s)
  <2>1. tx' = [tx EXCEPT ![r] = [tx[r] EXCEPT !.pc = "ok", !.locks = {}, !.rows = {}]]
    BY <1>2 DEF Commit, Finish, TypeOK, TxState
  <2>2. [tx[r] EXCEPT !.pc = "ok", !.locks = {}, !.rows = {}].pc = "ok"
    BY <1>2 DEF TypeOK, TxState
  <2>. QED
    BY <1>1, <1>2, <2>1, <2>2, NothingTaken DEF At
<1>4. CASE UNCHANGED <<txn, postings, recon>>
  <2>1. \A t \in Txns : Ticked(t) => Ticked(t)'
    BY <1>4 DEF Ticked
  <2>. QED
    BY <1>2, <1>3, <1>4, <2>1, ClaimsKept
<1>5. CASE Create(c)
  <2>1. c.txn \in Txns /\ c.status # "reconciled" /\ txn[c.txn] = Absent
    BY <1>1, <1>5, CommandShape, CommandNews DEF Create
  <2>2. ~Ticked(c.txn)
    BY <2>1, NotTicked
  <2>3. /\ recon' = recon
        /\ \A t \in Txns \ {c.txn} : txn'[t] = txn[t] /\ postings'[t] = postings[t]
        /\ txn'[c.txn].status # "reconciled"
    BY <1>2, <1>5, <2>1 DEF Create, TypeOK
  <2>4. \A t \in Txns : Ticked(t) => Ticked(t)'
    BY <2>2, <2>3 DEF Ticked
  <2>5. QED
    BY <1>2, <1>3, <2>3, <2>4, ClaimsKept
<1>6. CASE Update(c)
  <2>1. c.txn \in Txns /\ c.status \in {"draft", "pending", "confirmed", None}
    BY <1>1, <1>6, CommandShape DEF Update
  <2>2. UNCHANGED <<recon, postings>>
    BY <1>6 DEF Update
  <2>3. ASSUME NEW t \in Txns, txn'[t].status = "reconciled"
        PROVE  txn[t].status = "reconciled"
    BY <1>2, <1>6, <2>1, <2>3 DEF Update, TypeOK
  <2>4. \A t \in Txns : Ticked(t) => Ticked(t)'
    BY <2>2 DEF Ticked
  <2>5. QED
    BY <1>2, <1>3, <2>2, <2>3, <2>4, ClaimsKept
<1>7. CASE Void(c, seen)
  <2>1. recon' = recon
    BY <1>7 DEF Void
  <2>2. ASSUME NEW t \in Txns, txn'[t].status = "reconciled"
        PROVE  txn[t].status = "reconciled"
    BY <1>2, <1>7, <2>2 DEF Void, TypeOK
  <2>3. ASSUME NEW t \in Txns, postings[t] # <<>>
        PROVE  postings'[t] # <<>> /\ postings'[t][1] = postings[t][1]
    <3>1. postings[t] \in Seq(Pair)
      BY <1>2 DEF TypeOK
    <3>2. CASE t = c.txn
      <4> DEFINE back == PairOf(-1, seen.status)
                 old == postings[t]
      <4>1. postings'[t] = Append(old, back)
        BY <1>2, <1>7, <3>2 DEF Void, TypeOK
      <4> HIDE DEF back
      <4>2. old \in Seq(Pair) /\ old # <<>> /\ Len(old) >= 1
        BY <2>3, <3>1
      <4> HIDE DEF old
      <4>3. Append(old, back) # <<>> /\ Append(old, back)[1] = old[1]
        BY <4>2
      <4>4. QED
        BY <4>1, <4>3 DEF old
    <3>3. CASE t # c.txn
      BY <1>2, <1>7, <2>3, <3>3 DEF Void, TypeOK
    <3>4. QED
      BY <3>2, <3>3
  <2>4. \A t \in Txns : Ticked(t) => Ticked(t)'
    BY <2>3 DEF Ticked
  <2>5. QED
    BY <1>2, <1>3, <2>1, <2>2, <2>4, ClaimsKept
<1>8. CASE Open(c)
  <2>1. c.recon \in Recons /\ recon[c.recon] = NoRecon
    BY <1>1, <1>8, CommandShape, CommandNews DEF Open
  <2>2. /\ UNCHANGED <<txn, postings>>
        /\ \A q \in Recons : /\ recon'[q].claimed = recon[q].claimed
                             /\ recon'[q].status = "completed" =>
                                  recon[q].status = "completed"
                             /\ recon'[q].status # "completed" =>
                                  recon[q].status # "completed"
    BY <1>2, <1>8, <2>1, AbsentFacts DEF Open, TypeOK
  <2>3. \A t \in Txns : Ticked(t) => Ticked(t)'
    BY <2>2 DEF Ticked
  <2>4. QED
    BY <1>2, <1>3, <2>2, <2>3, ClaimsKept
<1>9. QED
  BY <1>4, <1>5, <1>6, <1>7, <1>8 DEF Commit, Transfer, books, SetAccount

(* What a completion reconciles was not taken before, and is ticked now.   *)
LEMMA Reconciling ==
  ASSUME IInv, NEW r \in Requests, At(r, "commit"), Reconcile(tx[r].cmd)
  PROVE  LET c   == tx[r].cmd
             new == c.txns \cup NewTxns(c) IN
         /\ c.recon \in Recons /\ new \subseteq Txns
         /\ recon[c.recon] \in ReconRow /\ recon[c.recon].status = "open"
         /\ \A t \in new : /\ \A q \in Recons : t \notin recon[q].claimed
                           /\ \A s \in Requests : t \notin Taken(s)
                           /\ Ticked(t)'
         /\ \A t \in Txns \ new : txn'[t] = txn[t] /\ (Ticked(t) => Ticked(t)')
<1> DEFINE c == tx[r].cmd
           new == c.txns \cup NewTxns(c)
<1>1. /\ c \in Command /\ Writable(c, tx[r].seen) /\ c.op = "complete"
      /\ recon[c.recon] \in ReconRow /\ recon[c.recon].status = "open"
      /\ \A t \in NewTxns(c) : txn[t] = Absent
  BY Committing DEF Reconcile
<1>2. TypeOK /\ Books
  BY DEF IInv
<1>3. /\ c.recon \in Recons /\ c.txns \subseteq Txns
      /\ NewTxns(c) = {c.adjustment} \ {None} /\ NewTxns(c) \subseteq Txns
  BY <1>1, CommandShape, CommandNews
<1>4. \A t \in c.txns : Reconcilable(t, recon[c.recon].account)
  BY <1>1 DEF Writable
<1>5. recon[c.recon].account \in Accounts
  BY <1>1 DEF ReconRow
<1>6. \A t \in new : /\ \A q \in Recons : t \notin recon[q].claimed
                     /\ \A s \in Requests : t \notin Taken(s)
  BY <1>1, <1>3, <1>4, <1>5, NotClaimed
<1>7. ASSUME NEW t \in Txns \ new
      PROVE  txn'[t] = txn[t] /\ (Ticked(t) => Ticked(t)')
  <2>1. t \notin c.txns /\ t # c.adjustment
    BY <1>3, LedgerAssumption
  <2>2. txn'[t] = txn[t] /\ postings'[t] = postings[t]
    BY <2>1 DEF Reconcile
  <2>. QED
    BY <2>2 DEF Ticked
<1>8. ASSUME NEW t \in new
      PROVE  Ticked(t)'
  <2>1. CASE t \in c.txns
    <3>. DEFINE old == postings[t]
    <3>1. old \in Seq(Pair) /\ postings'[t] = Tick(old)
      BY <1>2, <1>3, <2>1 DEF Reconcile, TypeOK
    <3>2. txn[t] # Absent /\ old # <<>>
      BY <1>2, <1>3, <1>4, <2>1, AbsentFacts DEF Reconcilable, Books
    <3>3. 1 \in 1..Len(old)
      BY <3>1, <3>2
    <3>4. old[1].account = "confirmed"
      BY <1>4, <2>1, <3>3 DEF Reconcilable
    <3>. HIDE DEF old
    <3>5. /\ Tick(old)[1].account = "reconciled"
          /\ Tick(old) \in Seq(Pair) /\ Len(Tick(old)) = Len(old)
      BY <3>1, <3>3, <3>4, TickFacts
    <3>6. Tick(old) # <<>>
      BY <3>3, <3>5
    <3>. QED
      BY <3>1, <3>5, <3>6 DEF Ticked
  <2>2. CASE t \notin c.txns
    <3>1. postings'[t] = <<PairOf(1, "reconciled")>>
      BY <1>3, <2>2 DEF Reconcile
    <3>. QED
      BY <3>1 DEF PairOf, Ticked
  <2>. QED
    BY <2>1, <2>2
<1>. QED
  BY <1>1, <1>3, <1>6, <1>7, <1>8

(* A completion claims what it reconciles.                                 *)
LEMMA CompleteClaims ==
  ASSUME IInv, NEW r \in Requests, At(r, "commit"), Complete(tx[r].cmd), Finish(r, "ok")
  PROVE  Claims' /\ ClaimedOnce'
<1> DEFINE c == tx[r].cmd
           new == c.txns \cup NewTxns(c)
<1>1. /\ c.recon \in Recons /\ new \subseteq Txns
      /\ recon[c.recon] \in ReconRow /\ recon[c.recon].status = "open"
      /\ \A t \in new : /\ \A q \in Recons : t \notin recon[q].claimed
                        /\ \A s \in Requests : t \notin Taken(s)
                        /\ Ticked(t)'
      /\ \A t \in Txns \ new : txn'[t] = txn[t] /\ (Ticked(t) => Ticked(t)')
  BY Reconciling DEF Complete
<1>2. TypeOK /\ Claims /\ ClaimedOnce
  BY DEF IInv
<1>3. \A q \in Recons : recon[q].claimed \subseteq Txns
  BY <1>2, AbsentFacts DEF TypeOK, ReconRow
<1>4. /\ recon'[c.recon].claimed = new /\ recon'[c.recon].status = "completed"
      /\ \A q \in Recons \ {c.recon} : recon'[q] = recon[q]
      /\ recon[c.recon].claimed = {}
  BY <1>1, <1>2 DEF Complete, Claims, TypeOK, ReconRow
<1>5. \A s \in Requests : Taken(s)' = Taken(s)
  <2>1. tx' = [tx EXCEPT ![r] = [tx[r] EXCEPT !.pc = "ok", !.locks = {}, !.rows = {}]]
    BY <1>2 DEF Finish, TypeOK, TxState
  <2>2. [tx[r] EXCEPT !.pc = "ok", !.locks = {}, !.rows = {}].pc = "ok"
    BY <1>2 DEF TypeOK, TxState
  <2>. QED
    BY <1>2, <2>1, <2>2, NothingTaken DEF At
<1>. HIDE DEF new
<1>6. Claims'
  <2>1. ASSUME NEW q \in Recons
        PROVE  /\ recon'[q].status # "completed" => recon'[q].claimed = {}
               /\ \A t \in recon'[q].claimed : Ticked(t)'
    <3>1. CASE q = c.recon
      BY <1>1, <1>4, <3>1
    <3>2. CASE q # c.recon
      <4>1. recon'[q] = recon[q]
        BY <1>4, <3>2
      <4>2. \A t \in recon[q].claimed : t \in Txns /\ t \notin new /\ Ticked(t)
        BY <1>1, <1>2, <1>3 DEF Claims
      <4>3. \A t \in recon[q].claimed : Ticked(t)'
        BY <1>1, <4>2
      <4>. QED
        BY <1>2, <4>1, <4>3 DEF Claims
    <3>. QED
      BY <3>1, <3>2
  <2>2. ASSUME NEW s \in Requests, NEW t \in Taken(s)' PROVE t \in Txns /\ Ticked(t)'
    <3>1. t \in Txns \ new /\ Ticked(t)
      BY <1>1, <1>2, <1>5, <2>2 DEF Claims
    <3>. QED
      BY <1>1, <3>1
  <2>. QED
    BY <2>1, <2>2 DEF Claims
<1>7. ClaimedOnce'
  <2>1. ASSUME NEW t \in Txns, txn'[t].status = "reconciled"
        PROVE  \/ \E q \in Recons : t \in recon'[q].claimed
               \/ \E s \in Requests : t \in Taken(s)'
    <3>1. CASE t \in new
      BY <1>1, <1>4, <3>1
    <3>2. CASE t \notin new
      <4>1. txn[t].status = "reconciled"
        BY <1>1, <2>1, <3>2
      <4>2. \/ \E q \in Recons : t \in recon[q].claimed
            \/ \E s \in Requests : t \in Taken(s)
        BY <1>2, <4>1 DEF ClaimedOnce
      <4>. QED
        BY <1>4, <1>5, <4>2
    <3>. QED
      BY <3>1, <3>2
  <2>2. \A p, q \in Recons : p # q => recon'[p].claimed \cap recon'[q].claimed = {}
    BY <1>1, <1>2, <1>4 DEF ClaimedOnce
  <2>3. \A s, u \in Requests : s # u => Taken(s)' \cap Taken(u)' = {}
    BY <1>2, <1>5 DEF ClaimedOnce
  <2>4. \A q \in Recons, s \in Requests : recon'[q].claimed \cap Taken(s)' = {}
    <3>. SUFFICES ASSUME NEW q \in Recons, NEW s \in Requests,
                         NEW t, t \in recon'[q].claimed, t \in Taken(s)
                  PROVE  FALSE
      BY <1>5
    <3>1. CASE q = c.recon
      BY <1>1, <1>4, <3>1
    <3>2. CASE q # c.recon
      BY <1>2, <1>4, <3>2 DEF ClaimedOnce
    <3>. QED
      BY <3>1, <3>2
  <2>. QED
    BY <2>1, <2>2, <2>3, <2>4 DEF ClaimedOnce
<1>. QED
  BY <1>6, <1>7

(* One that loses the role before its last update takes what it has        *)
(* reconciled.                                                             *)
LEMMA HalfClaims ==
  ASSUME IInv, NEW r \in Requests, At(r, "commit"), CompleteByHalf(tx[r].cmd),
         Finish(r, "half")
  PROVE  Claims' /\ ClaimedOnce'
<1> DEFINE c == tx[r].cmd
           new == c.txns \cup NewTxns(c)
<1>1. /\ c.recon \in Recons /\ new \subseteq Txns
      /\ recon[c.recon] \in ReconRow /\ recon[c.recon].status = "open"
      /\ \A t \in new : /\ \A q \in Recons : t \notin recon[q].claimed
                        /\ \A s \in Requests : t \notin Taken(s)
                        /\ Ticked(t)'
      /\ \A t \in Txns \ new : txn'[t] = txn[t] /\ (Ticked(t) => Ticked(t)')
  BY Reconciling DEF CompleteByHalf
<1>2. TypeOK /\ Claims /\ ClaimedOnce /\ recon' = recon
  BY DEF IInv, CompleteByHalf
<1>3. \A q \in Recons : recon[q].claimed \subseteq Txns
  BY <1>2, AbsentFacts DEF TypeOK, ReconRow
<1>4. /\ tx'[r].pc = "half" /\ tx'[r].cmd = c
      /\ \A s \in Requests \ {r} : tx'[s] = tx[s]
  <2>1. tx' = [tx EXCEPT ![r] = [tx[r] EXCEPT !.pc = "half", !.locks = {}, !.rows = {}]]
    BY <1>2 DEF Finish, TypeOK, TxState
  <2>2. /\ [tx[r] EXCEPT !.pc = "half", !.locks = {}, !.rows = {}].pc = "half"
        /\ [tx[r] EXCEPT !.pc = "half", !.locks = {}, !.rows = {}].cmd = c
    BY <1>2 DEF TypeOK, TxState
  <2>. QED
    BY <1>2, <2>1, <2>2 DEF TypeOK
<1>5. Taken(r)' = new
  <2>1. NewTxns(tx'[r].cmd) = NewTxns(c)
    BY <1>4
  <2>. QED
    BY <1>4, <2>1 DEF Taken, At, NewTxns
<1>6. ASSUME NEW s \in Requests \ {r} PROVE Taken(s)' = Taken(s)
  <2>1. tx'[s] = tx[s]
    BY <1>4
  <2>. QED
    BY <2>1 DEF Taken, At, NewTxns
<1>. HIDE DEF new
<1>7. Claims'
  <2>1. ASSUME NEW q \in Recons
        PROVE  /\ recon'[q].status # "completed" => recon'[q].claimed = {}
               /\ \A t \in recon'[q].claimed : Ticked(t)'
    <3>1. \A t \in recon[q].claimed : t \in Txns /\ t \notin new /\ Ticked(t)
      BY <1>1, <1>2, <1>3 DEF Claims
    <3>2. \A t \in recon[q].claimed : Ticked(t)'
      BY <1>1, <3>1
    <3>. QED
      BY <1>2, <3>2 DEF Claims
  <2>2. ASSUME NEW s \in Requests, NEW t \in Taken(s)' PROVE t \in Txns /\ Ticked(t)'
    <3>1. CASE s = r
      BY <1>1, <1>5, <2>2, <3>1
    <3>2. CASE s # r
      <4>1. t \in Txns \ new /\ Ticked(t)
        BY <1>1, <1>2, <1>6, <2>2, <3>2 DEF Claims
      <4>. QED
        BY <1>1, <4>1
    <3>. QED
      BY <3>1, <3>2
  <2>. QED
    BY <2>1, <2>2 DEF Claims
<1>8. ClaimedOnce'
  <2>1. ASSUME NEW t \in Txns, txn'[t].status = "reconciled"
        PROVE  \/ \E q \in Recons : t \in recon'[q].claimed
               \/ \E s \in Requests : t \in Taken(s)'
    <3>1. CASE t \in new
      BY <1>5, <3>1
    <3>2. CASE t \notin new
      <4>1. txn[t].status = "reconciled"
        BY <1>1, <2>1, <3>2
      <4>2. \/ \E q \in Recons : t \in recon[q].claimed
            \/ \E s \in Requests : t \in Taken(s)
        BY <1>2, <4>1 DEF ClaimedOnce
      <4>3. Taken(r) = {}
        BY DEF Taken, At
      <4>. QED
        BY <1>2, <1>6, <4>2, <4>3
    <3>. QED
      BY <3>1, <3>2
  <2>2. \A p, q \in Recons : p # q => recon'[p].claimed \cap recon'[q].claimed = {}
    BY <1>2 DEF ClaimedOnce
  <2>3. \A s, u \in Requests : s # u => Taken(s)' \cap Taken(u)' = {}
    <3>. SUFFICES ASSUME NEW s \in Requests, NEW u \in Requests, s # u,
                         NEW t, t \in Taken(s)', t \in Taken(u)'
                  PROVE  FALSE
      OBVIOUS
    <3>1. CASE s = r
      BY <1>1, <1>5, <1>6, <3>1
    <3>2. CASE u = r
      BY <1>1, <1>5, <1>6, <3>2
    <3>3. CASE s # r /\ u # r
      BY <1>2, <1>6, <3>3 DEF ClaimedOnce
    <3>. QED
      BY <3>1, <3>2, <3>3
  <2>4. \A q \in Recons, s \in Requests : recon'[q].claimed \cap Taken(s)' = {}
    <3>. SUFFICES ASSUME NEW q \in Recons, NEW s \in Requests,
                         NEW t, t \in recon[q].claimed, t \in Taken(s)'
                  PROVE  FALSE
      BY <1>2
    <3>1. CASE s = r
      BY <1>1, <1>5, <3>1
    <3>2. CASE s # r
      BY <1>2, <1>6, <3>2 DEF ClaimedOnce
    <3>. QED
      BY <3>1, <3>2
  <2>. QED
    BY <2>1, <2>2, <2>3, <2>4 DEF ClaimedOnce
<1>. QED
  BY <1>7, <1>8

LEMMA CommitClaims ==
  ASSUME IInv, NEW r \in Requests, Commit(r)
  PROVE  Claims' /\ ClaimedOnce'
<1> DEFINE c == tx[r].cmd
<1>1. At(r, "commit")
  BY DEF Commit
<1>2. CASE Complete(c) /\ Finish(r, "ok")
  BY <1>1, <1>2, CompleteClaims
<1>3. CASE CompleteByHalf(c) /\ Finish(r, "half")
  BY <1>1, <1>3, HalfClaims
<1>4. CASE ~(Complete(c) /\ Finish(r, "ok")) /\ ~(CompleteByHalf(c) /\ Finish(r, "half"))
  BY <1>4, OkClaims
<1>. QED
  BY <1>2, <1>3, <1>4

-----------------------------------------------------------------------------
(* The invariant *)

LEMMA CommitStep ==
  ASSUME IInv, NEW r \in Requests, Commit(r)
  PROVE  IInv'
<1>1. TypeOK'
  BY CommitFrame, CommitRequesting DEF TypeOK, BooksTypeOK
<1>2. QED
  BY <1>1, CommitRequesting, CommitBooks, CommitClaims DEF IInv

LEMMA InitIInv == Init => IInv
<1> SUFFICES ASSUME Init PROVE IInv
  OBVIOUS
<1>1. TypeOK
  BY DEF Init, TypeOK, TxState, PCs
<1>2. Requesting
  BY DEF Init, Requesting, Sound, Holds, Knows, Inserts, Inspected, Matched,
         Apart, Runs, Works
<1>3. Books
  BY AbsentFacts DEF Init, Books, Reversals
<1>4. Claims /\ ClaimedOnce
  BY AbsentFacts DEF Init, Claims, ClaimedOnce, Taken, At
<1>5. QED
  BY <1>1, <1>2, <1>3, <1>4 DEF IInv

LEMMA StutterStep == IInv /\ UNCHANGED vars => IInv'
<1> SUFFICES ASSUME IInv, UNCHANGED vars PROVE IInv'
  OBVIOUS
<1>1. TypeOK' /\ Books' /\ Claims' /\ ClaimedOnce'
  <2>1. TypeOK' /\ Books'
    BY DEF vars, IInv, TypeOK, Books, Reversals
  <2>2. \A s \in Requests : Taken(s)' = Taken(s)
    BY DEF vars, Taken, At, NewTxns
  <2>3. \A t \in Txns : Ticked(t) => Ticked(t)'
    BY DEF vars, Ticked
  <2>. QED
    BY <2>1, <2>2, <2>3, ClaimsKept DEF vars, IInv
<1>2. ASSUME NEW s \in Requests PROVE Sound(tx[s])'
  <2>1. PICK y : y = tx[s]
    OBVIOUS
  <2>2. Sound(y)'
    BY <2>1, SoundStays DEF vars, books, IInv, Requesting
  <2>3. y = tx'[s]
    BY <2>1 DEF vars
  <2>4. QED
    BY <2>2, <2>3 DEF Sound, Holds, Knows, Inserts, Inspected, Matched, Needs,
                      Writable, Reconcilable, Runs, Works
<1>3. ASSUME NEW s \in Requests, NEW u \in Requests, s # u
      PROVE  Apart(tx[s], tx[u])'
  BY <1>3 DEF vars, IInv, Requesting, Apart, Runs
<1>4. QED
  BY <1>1, <1>2, <1>3 DEF IInv, Requesting

LEMMA StepIInv == IInv /\ [Next]_vars => IInv'
<1> SUFFICES ASSUME IInv, [Next]_vars PROVE IInv'
  OBVIOUS
<1>1. CASE UNCHANGED vars
  BY <1>1, StutterStep
<1>2. ASSUME NEW r \in Requests, Abort(r) PROVE IInv'
  BY <1>2, EndStep DEF Abort
<1>3. ASSUME NEW r \in Requests, Begin(r) \/ Step(r) PROVE IInv'
  BY <1>3, BeginStep, LockStep, InspectStep, WriteStep, CommitStep DEF Step
<1>4. QED
  BY <1>1, <1>2, <1>3 DEF Next

(* The inductive invariant of the books holds throughout. *)
THEOREM LedgerInvariance == Spec => []IInv
  BY InitIInv, StepIInv, PTL DEF Spec

(* Every variable keeps its type, for any accounts, requests and commands. *)
THEOREM LedgerTypeCorrect == Spec => []TypeOK
<1>1. IInv => TypeOK
  BY DEF IInv
<1>2. QED
  BY <1>1, LedgerInvariance, PTL

(* No transaction is reversed twice, and a voided one is reversed, however *)
(* many requests race to void it.                                          *)
THEOREM VoidedIsReversedOnce == Spec => []ReversedOnce
<1>1. IInv => ReversedOnce
  <2> SUFFICES ASSUME IInv, NEW t \in Txns
               PROVE  Cardinality(Reversals(t))
                        = IF txn[t].status = "voided" THEN 1 ELSE 0
    BY DEF ReversedOnce
  <2>1. Reversals(t) = IF txn[t].status = "voided" THEN {Len(postings[t])} ELSE {}
    BY DEF IInv, Books
  <2>2. QED
    BY <2>1, FS_Singleton, FS_EmptySet
<1>2. QED
  BY <1>1, LedgerInvariance, PTL

(* What is reconciled was claimed, by one reconciliation alone, or left so *)
(* by the one completion whose caller lost the role before its last update.*)
THEOREM ReconciledIsClaimedOnce == Spec => []ClaimedOnce
<1>1. IInv => ClaimedOnce
  BY DEF IInv
<1>2. QED
  BY <1>1, LedgerInvariance, PTL

(* Nothing is committed in an account that was closed meanwhile. *)
THEOREM ClosedAccountsGetNoWork == Spec => NoWorkInClosedAccounts
<1>1. IInv /\ [Next]_vars =>
        [\A r \in Requests :
           Commits(r) /\ tx[r].cmd.op \in {"create", "transfer", "open", "complete"}
             => \A a \in Needs(tx[r].cmd) : account[a] # "closed"]_vars
  <2> SUFFICES ASSUME IInv, NEW r \in Requests, tx[r].pc = "commit",
                      tx[r].cmd.op \in Posting, NEW a \in Needs(tx[r].cmd)
               PROVE  account[a] # "closed"
    BY DEF Commits, Posting
  <2>1. Inspected(tx[r])
    BY DEF IInv, Requesting, Sound
  <2>2. QED
    BY <2>1 DEF Inspected, Works
<1>2. QED
  BY <1>1, LedgerInvariance, PTL DEF Spec, NoWorkInClosedAccounts

(* A completed reconciliation and a closed account stay as they are. *)
THEOREM FinalIsFinal == Spec => FinalStays
<1> DEFINE Stays ==
      /\ \A q \in Recons : recon[q].status = "completed" => recon'[q] = recon[q]
      /\ \A a \in Accounts : account[a] = "closed" => account'[a] = "closed"
<1>1. IInv /\ [Next]_vars => [Stays]_vars
  <2> SUFFICES ASSUME IInv, Next PROVE Stays
    OBVIOUS
  <2>1. CASE UNCHANGED books
    BY <2>1 DEF books
  <2>2. ASSUME NEW r \in Requests, Commit(r) PROVE Stays
    <3> DEFINE c == tx[r].cmd
    <3>1. /\ c \in Command /\ Writable(c, tx[r].seen)
          /\ c.op = "complete" => recon[c.recon].status = "open"
          /\ \A q \in NewRecons(c) : recon[q] = NoRecon
      BY <2>2, Committing DEF Commit
    <3>2. TypeOK
      BY SMTT(40) DEF IInv
    <3>3. CASE Create(c) \/ Update(c) \/ Void(c, tx[r].seen) \/ Transfer(c)
      BY <3>3 DEF Create, Update, Void, Transfer, books
    <3>4. CASE Open(c)
      BY <3>1, <3>2, <3>4, CommandShape, CommandNews, AbsentFacts
         DEF Open, TypeOK
    <3>5. CASE Complete(c)
      BY <3>1, <3>2, <3>5, CommandShape DEF Complete, Reconcile, TypeOK
    <3>6. CASE SetAccount(c)
      BY <3>1, <3>2, <3>6, CommandShape DEF SetAccount, Writable, TypeOK
    <3>7. CASE CompleteByHalf(c)
      BY <3>7 DEF CompleteByHalf, Reconcile
    <3>8. QED
      BY <2>2, <3>3, <3>4, <3>5, <3>6, <3>7 DEF Commit
  <2>3. QED
    BY <2>1, <2>2 DEF Next, Step, Begin, Lock, Inspect, Write, Abort
<1>2. QED
  BY <1>1, LedgerInvariance, PTL DEF Spec, FinalStays

(* A set of naturals that is not empty has a least one. *)
LEMMA LeastNumber == ASSUME NEW T, T \subseteq Nat, T # {} PROVE \E x \in T : \A y \in T : x <= y
<1>1. \E x \in T : \A y \in T : ~ (<<y, x>> \in OpToRel(<,Nat))
  BY NatLessThanWellFounded, WFMin
<1>2. PICK x \in T : \A y \in T : ~ (<<y, x>> \in OpToRel(<,Nat))
  BY <1>1
<1>3. \A y \in T : ~(y < x)
  BY <1>2 DEF OpToRel
<1>. QED
  BY <1>3

(* Of any finite subsets of a set one contains none of the others. *)
LEMMA LeastSubset ==
  ASSUME NEW S, NEW F, F \subseteq FiniteSubsetsOf(S), F # {}
  PROVE  \E U \in F : \A V \in F : ~(V \subseteq U /\ V # U)
<1>1. PICK U \in F : \A V \in F : ~(<<V, U>> \in StrictSubsetOrdering(S))
  BY FS_StrictSubsetOrderingWellFounded, WFMin
<1>2. \A V \in F : <<V, U>> \in (SUBSET S) \X (SUBSET S)
  BY DEF FiniteSubsetsOf
<1>. QED
  BY <1>1, <1>2 DEF StrictSubsetOrdering

(* A finite set of integers that is not empty has a greatest one. *)
LEMMA Greatest ==
  ASSUME NEW S \in SUBSET Int, IsFiniteSet(S), S # {}
  PROVE  \E m \in S : \A n \in S : n <= m
<1>. DEFINE F == {T \in FiniteSubsetsOf(S) : T # {} /\ ~\E m \in T : \A n \in T : n <= m}
<1>. SUFFICES ASSUME F # {} PROVE FALSE
  BY DEF FiniteSubsetsOf
<1>1. PICK U \in F : \A V \in F : ~(V \subseteq U /\ V # U)
  <2>1. F \subseteq FiniteSubsetsOf(S)
    OBVIOUS
  <2>. HIDE DEF F
  <2>. QED
    BY <2>1, LeastSubset
<1>2. PICK x \in U : TRUE
  OBVIOUS
<1>3. U \ {x} \in FiniteSubsetsOf(S) /\ U \subseteq Int
  BY FS_RemoveElement DEF FiniteSubsetsOf
<1>4. U \ {x} \notin F
  BY <1>1, <1>2
<1>. QED
  BY <1>2, <1>3, <1>4

-----------------------------------------------------------------------------
(* What every step leaves of what the requests asked *)

\* A request that has not begun has asked nothing.
Unasked == \A r \in Requests : tx[r].pc = "new" => tx[r].cmd = None

\* The accounts are locked in the order of their ids.
InOrder(x) ==
  Runs(x) => \A a \in x.locks : \A b \in Needs(x.cmd) \ x.locks : a < b

\* The row and the postings of a transaction whose status no update sets.
Matches(row, pairs) ==
  /\ row = Absent => pairs = <<>>
  /\ row # Absent => Len(pairs) = (IF row.status = "voided" THEN 2 ELSE 1)
                     /\ pairs[1].sign = 1
  /\ row # Absent /\ row.status # "voided" =>
       (pairs[1].account \in Settled <=> row.status \in Settled)
  /\ row.status = "voided" =>
       /\ pairs[2].sign = -1
       /\ pairs[1].account \in Settled <=> pairs[2].account \in Settled

\* A status a void has read still stands, or is final.
SeenStands(x) ==
  Runs(x) /\ x.cmd.op = "void" /\ StatusKept(x.cmd.txn) =>
    txn[x.cmd.txn].status \in {x.seen.status, "reconciled", "voided"}

Ordered == \A r \in Requests : InOrder(tx[r])

Balanced ==
  /\ Unasked
  /\ \A r \in Requests : SeenStands(tx[r])
  /\ \A t \in Txns : StatusKept(t) => Matches(txn[t], postings[t])

\* A lock statement takes the first account that is still needed.
LocksNext(x, y) ==
  \/ y.locks = x.locks
  \/ \E a \in Needs(x.cmd) \ x.locks :
       /\ \A b \in Needs(x.cmd) \ x.locks : a <= b
       /\ y.locks = x.locks \cup {a}

(* What a step can do to the transaction of a request. *)
LEMMA TxMoves ==
  ASSUME IInv, [Next]_vars, NEW s \in Requests
  PROVE  \/ tx'[s] = tx[s]
         \/ /\ tx[s].pc = "new" /\ tx'[s].pc # "new"
            /\ tx'[s].cmd \in Command /\ tx'[s].locks = {}
            /\ tx'[s].cmd.op = "void" => tx'[s].seen = txn[tx'[s].cmd.txn]
            /\ UNCHANGED books
         \/ /\ Runs(tx[s]) /\ tx'[s].pc # "new"
            /\ tx'[s].cmd = tx[s].cmd /\ tx'[s].seen = tx[s].seen
            /\ Runs(tx'[s]) => LocksNext(tx[s], tx'[s])
<1> DEFINE Moved == \/ tx'[s] = tx[s]
                    \/ /\ tx[s].pc = "new" /\ tx'[s].pc # "new"
                       /\ tx'[s].cmd \in Command /\ tx'[s].locks = {}
                       /\ tx'[s].cmd.op = "void" =>
                            tx'[s].seen = txn[tx'[s].cmd.txn]
                       /\ UNCHANGED books
                    \/ /\ Runs(tx[s]) /\ tx'[s].pc # "new"
                       /\ tx'[s].cmd = tx[s].cmd /\ tx'[s].seen = tx[s].seen
                       /\ Runs(tx'[s]) => LocksNext(tx[s], tx'[s])
<1>1. tx \in [Requests -> TxState] /\ tx[s] \in TxState
  BY DEF IInv, TypeOK
<1>2. ASSUME NEW r \in Requests, NEW outcome \in {"ok", "refused", "half"},
             Runs(tx[r]), Finish(r, outcome)
      PROVE  Moved
  <2>1. CASE s = r
    <3>1. tx'[s] = [tx[s] EXCEPT !.pc = outcome, !.locks = {}, !.rows = {}]
      BY <1>1, <1>2, <2>1 DEF Finish
    <3>2. /\ tx'[s].pc = outcome
          /\ tx'[s].cmd = tx[s].cmd /\ tx'[s].seen = tx[s].seen
      BY <1>1, <3>1 DEF TxState
    <3>3. QED
      BY <1>2, <2>1, <3>2 DEF Runs
  <2>2. CASE s # r
    BY <1>1, <1>2, <2>2 DEF Finish
  <2>3. QED
    BY <2>1, <2>2
<1>3. ASSUME NEW r \in Requests, Begin(r) PROVE Moved
  <2>1. CASE s = r
    <3>1. PICK c \in Commands : tx' = [tx EXCEPT ![r] =
            [pc |-> IF RefusedAtOnce(c) THEN "refused" ELSE "lock",
             cmd |-> c,
             seen |-> IF c.op \in {"update", "void"} THEN txn[c.txn] ELSE Absent,
             locks |-> {}, rows |-> {}]]
      BY <1>3 DEF Begin
    <3> DEFINE new == [pc |-> IF RefusedAtOnce(c) THEN "refused" ELSE "lock",
             cmd |-> c,
             seen |-> IF c.op \in {"update", "void"} THEN txn[c.txn] ELSE Absent,
             locks |-> {}, rows |-> {}]
    <3>2. tx'[s] = new
      BY <1>1, <2>1, <3>1
    <3>3. /\ new.pc # "new" /\ new.cmd = c /\ new.locks = {}
          /\ c.op = "void" => new.seen = txn[c.txn]
      OBVIOUS
    <3> HIDE DEF new
    <3>4. tx[s].pc = "new" /\ UNCHANGED books
      BY <1>3, <2>1 DEF Begin, At
    <3>5. QED
      BY <3>2, <3>3, <3>4, LedgerAssumption
  <2>2. CASE s # r
    BY <1>1, <1>3, <2>2 DEF Begin
  <2>3. QED
    BY <2>1, <2>2
<1>4. ASSUME NEW r \in Requests, Lock(r) PROVE Moved
  <2>1. CASE s = r
    <3>1. PICK a \in Needs(tx[s].cmd) \ tx[s].locks :
            /\ \A b \in Needs(tx[s].cmd) \ tx[s].locks : a <= b
            /\ tx' = [tx EXCEPT ![s].locks = @ \cup {a}]
      BY <1>4, <2>1 DEF Lock
    <3>2. tx'[s] = [tx[s] EXCEPT !.locks = @ \cup {a}]
      BY <1>1, <3>1
    <3>3. /\ tx'[s].pc = tx[s].pc /\ tx'[s].cmd = tx[s].cmd
          /\ tx'[s].seen = tx[s].seen /\ tx'[s].locks = tx[s].locks \cup {a}
      BY <1>1, <3>2 DEF TxState
    <3>4. LocksNext(tx[s], tx'[s])
      BY <3>1, <3>3 DEF LocksNext
    <3>5. tx[s].pc = "lock"
      BY <1>4, <2>1 DEF Lock, At
    <3>6. QED
      BY <3>3, <3>4, <3>5 DEF Runs
  <2>2. CASE s # r
    BY <1>1, <1>4, <2>2 DEF Lock
  <2>3. QED
    BY <2>1, <2>2
<1>5. ASSUME NEW r \in Requests, Runs(tx[r]),
             tx' = [tx EXCEPT ![r].pc = "write"]
      PROVE  Moved
  <2>1. CASE s = r
    <3>1. /\ tx'[s].pc = "write" /\ tx'[s].cmd = tx[s].cmd
          /\ tx'[s].seen = tx[s].seen /\ tx'[s].locks = tx[s].locks
      BY <1>1, <1>5, <2>1 DEF TxState
    <3>2. QED
      BY <1>5, <2>1, <3>1 DEF LocksNext
  <2>2. CASE s # r
    BY <1>1, <1>5, <2>2
  <2>3. QED
    BY <2>1, <2>2
<1>6. ASSUME NEW r \in Requests, NEW rows, Runs(tx[r]),
             tx' = [tx EXCEPT ![r].pc = "commit", ![r].rows = rows]
      PROVE  Moved
  <2>1. CASE s = r
    <3>1. tx'[s] = [tx[s] EXCEPT !.pc = "commit", !.rows = rows]
      BY <1>1, <1>6, <2>1
    <3>2. /\ tx'[s].pc = "commit" /\ tx'[s].cmd = tx[s].cmd
          /\ tx'[s].seen = tx[s].seen /\ tx'[s].locks = tx[s].locks
      BY <1>1, <3>1 DEF TxState
    <3>3. QED
      BY <1>6, <2>1, <3>2 DEF LocksNext
  <2>2. CASE s # r
    BY <1>1, <1>6, <2>2
  <2>3. QED
    BY <2>1, <2>2
<1>7. ASSUME NEW r \in Requests, Inspect(r) \/ Write(r) \/ Commit(r) \/ Abort(r)
      PROVE  Moved
  <2>1. Runs(tx[r])
    BY <1>7 DEF Inspect, Write, Commit, Abort, At, Running, Runs
  <2>2. \/ Finish(r, "ok") \/ Finish(r, "refused") \/ Finish(r, "half")
        \/ tx' = [tx EXCEPT ![r].pc = "write"]
        \/ tx' = [tx EXCEPT ![r].pc = "commit", ![r].rows = Rows(tx[r].cmd)]
    BY <1>7 DEF Inspect, Write, Commit, Abort
  <2>3. QED
    BY <1>2, <1>5, <1>6, <2>1, <2>2
<1>8. CASE UNCHANGED vars
  BY <1>8 DEF vars
<1>9. QED
  BY <1>3, <1>4, <1>7, <1>8 DEF Next, Step

(* The books change on COMMIT alone. *)
LEMMA BooksMove ==
  ASSUME [Next]_vars
  PROVE  UNCHANGED books \/ \E r \in Requests : Commit(r)
  BY DEF Next, Step, Begin, Lock, Inspect, Write, Abort, vars, books

(* What a running request needs to lock does not change on the way. *)
LEMMA NeedsStay ==
  ASSUME IInv, [Next]_vars, NEW s \in Requests, Runs(tx[s]), NEW d, d = tx[s].cmd
  PROVE  Needs(d)' = Needs(d)
<1>1. CASE UNCHANGED books
  BY <1>1 DEF books, Needs
<1>2. ASSUME NEW r \in Requests, Commit(r) PROVE Needs(d)' = Needs(d)
  <2>1. Knows(tx[s])
    BY DEF IInv, Requesting, Sound
  <2>2. d \in Command /\ (d.op = "complete" => recon[d.recon] # NoRecon)
    BY <2>1 DEF Knows
  <2>3. d.op = "complete" => recon'[d.recon].account = recon[d.recon].account
    BY <1>2, <2>2, CommandShape, CommitFrame DEF Frame
  <2>4. QED
    BY <2>3 DEF Needs
<1>3. QED
  BY <1>1, <1>2, BooksMove

(* The accounts held stay before the ones still needed. *)
LEMMA OrderStep ==
  ASSUME IInv, Ordered, [Next]_vars
  PROVE  Ordered'
<1> SUFFICES ASSUME NEW s \in Requests PROVE InOrder(tx[s])'
  BY DEF Ordered
<1> DEFINE x == tx[s]
<1>1. \A d : Needs(d) \subseteq Nat
  BY LedgerAssumption DEF Needs
<1>2. SUFFICES ASSUME Runs(x') PROVE \A a \in x'.locks :
               \A b \in Needs(x.cmd)' \ x'.locks : a < b
  BY DEF InOrder, Runs
<1>3. x.pc = "new" => x'.locks = {} \/ x' = x
  BY TxMoves DEF Runs
<1>4. CASE Runs(x)
  <2>1. x'.cmd = x.cmd /\ LocksNext(x, x')
    BY <1>2, <1>4, TxMoves DEF Runs, LocksNext
  <2>2. PICK d : d = x.cmd
    OBVIOUS
  <2>3. Needs(d)' = Needs(d)
    BY <1>4, <2>2, NeedsStay
  <2>4. Needs(x.cmd)' = Needs(x.cmd)
    <3>1. x'.cmd = d
      BY <2>1, <2>2
    <3>2. Needs(x.cmd)' = Needs(d)'
      BY <3>1 DEF Needs
    <3>3. QED
      BY <2>2, <2>3, <3>2
  <2>5. \A a \in x.locks : \A b \in Needs(x.cmd) \ x.locks : a < b
    BY <1>4 DEF Ordered, InOrder
  <2>6. CASE x'.locks = x.locks
    BY <2>4, <2>5, <2>6
  <2>7. ASSUME NEW a \in Needs(x.cmd) \ x.locks,
               \A b \in Needs(x.cmd) \ x.locks : a <= b,
               x'.locks = x.locks \cup {a}
        PROVE  \A e \in x'.locks : \A b \in Needs(x.cmd)' \ x'.locks : e < b
    <3> DEFINE N == Needs(x.cmd)
               L == x.locks
    <3>1. N \subseteq Nat /\ x'.locks = L \cup {a} /\ Needs(x.cmd)' = N
      BY <1>1, <2>4, <2>7
    <3>2. /\ \A e \in L : \A b \in N \ L : e < b
          /\ a \in N \ L /\ \A b \in N \ L : a <= b
      BY <2>5, <2>7
    <3> HIDE DEF N, L
    <3>3. \A b \in N \ (L \cup {a}) : a < b
      BY <3>1, <3>2
    <3>4. QED
      BY <3>1, <3>2, <3>3
  <2>8. QED
    BY <2>1, <2>6, <2>7 DEF LocksNext
<1>5. CASE ~Runs(x)
  <2>1. x'.locks = {} \/ x' = x
    BY <1>5, TxMoves
  <2>2. QED
    BY <1>2, <1>5, <2>1
<1>6. QED
  BY <1>4, <1>5

(* No request is one of a circle that waits. *)
LEMMA OneWaitsForNobody ==
  ASSUME IInv, Ordered, IsFiniteSet(Requests),
         NEW R \in SUBSET {r \in Requests : Running(r)}, R # {}
  PROVE  \E r \in R : \A s \in R \ {r} : ~WaitsFor(r, s)
<1> DEFINE Lacks(r) == Needs(tx[r].cmd) \ tx[r].locks
           first(r) == CHOOSE a \in Lacks(r) : \A b \in Lacks(r) : a <= b
<1>1. ASSUME NEW r \in R PROVE Lacks(r) \subseteq Nat
  BY LedgerAssumption DEF Needs
<1>2. CASE \E r \in R : tx[r].pc = "commit"
  BY <1>2 DEF WaitsFor, Wanted, At
<1>3. CASE /\ \A r \in R : tx[r].pc # "commit"
           /\ \E r \in R : tx[r].pc = "write"
  <2>1. \A s \in R : tx[s].rows = {}
    BY <1>3 DEF IInv, Requesting, Sound, Holds
  <2>2. QED
    BY <1>3, <2>1 DEF WaitsFor, Wanted, At
<1>4. CASE \A r \in R : tx[r].pc = "lock"
  <2>1. CASE \E r \in R : Lacks(r) = {}
    BY <1>4, <2>1 DEF WaitsFor, Wanted, At
  <2>2. CASE \A r \in R : Lacks(r) # {}
    <3>1. ASSUME NEW r \in R
          PROVE  first(r) \in Lacks(r) /\ \A b \in Lacks(r) : first(r) <= b
      <4>1. \E a \in Lacks(r) : \A b \in Lacks(r) : a <= b
        <5>1. Lacks(r) \subseteq Nat /\ Lacks(r) # {}
          BY <1>1, <2>2
        <5> HIDE DEF Lacks
        <5>2. QED
          BY <5>1, LeastNumber
      <4> HIDE DEF Lacks
      <4>2. QED
        BY <4>1
    <3>2. ASSUME NEW r \in R
          PROVE  Wanted(r) = {first(r)} /\ first(r) \in Nat
      BY <1>1, <1>4, <2>2, <3>1 DEF Wanted, At
    <3> DEFINE firsts == {first(r) : r \in R}
    <3>3. IsFiniteSet(R)
      BY FS_Subset
    <3> HIDE DEF Lacks, first
    <3>4. IsFiniteSet(firsts) /\ firsts # {} /\ firsts \in SUBSET Int
      <4> DEFINE f == [r \in R |-> first(r)]
      <4>1. f \in Surjection(R, firsts)
        BY DEF Surjection
      <4>2. IsFiniteSet(firsts)
        <5> HIDE DEF f, firsts
        <5>1. QED
          BY <3>3, <4>1, FS_Surjection
      <4>3. QED
        BY <3>2, <4>2
    <3>5. PICK m \in firsts : \A n \in firsts : n <= m
      <4> HIDE DEF firsts
      <4>1. QED
        BY <3>4, Greatest
    <3>6. PICK r \in R : m = first(r)
      BY <3>5
    <3>7. ASSUME NEW s \in R \ {r}, WaitsFor(r, s) PROVE FALSE
      <4>1. first(r) \in tx[s].locks
        BY <1>4, <3>2, <3>7 DEF WaitsFor, At
      <4>2. first(s) \in Needs(tx[s].cmd) \ tx[s].locks
        BY <3>1 DEF Lacks
      <4>3. InOrder(tx[s]) /\ Runs(tx[s])
        BY <1>4 DEF Ordered, Runs
      <4>4. first(r) < first(s)
        BY <4>1, <4>2, <4>3 DEF InOrder
      <4>5. first(s) <= first(r)
        BY <3>5, <3>6
      <4>6. first(r) \in Nat /\ first(s) \in Nat
        BY <3>2
      <4>7. QED
        BY <4>4, <4>5, <4>6
    <3>8. QED
      BY <3>7
  <2>3. QED
    BY <2>1, <2>2
<1>5. \A r \in R : tx[r].pc \in {"lock", "write", "commit"}
  BY DEF Running
<1>6. QED
  BY <1>2, <1>3, <1>4, <1>5

(* However many requests cross - transfers, closings, voids and              *)
(* reconciliations of the same accounts and rows - no circle of them waits:  *)
(* of any that run, one waits for none of the others.                        *)
THEOREM WaitsAreNotCrossed ==
  ASSUME IsFiniteSet(Requests)
  PROVE  Spec => []NoCrossedWaits
<1>1. Init => Ordered
  BY DEF Init, Ordered, InOrder, Runs
<1>2. IInv /\ Ordered /\ [Next]_vars => Ordered'
  BY OrderStep
<1>3. IInv /\ Ordered => NoCrossedWaits
  BY OneWaitsForNobody DEF NoCrossedWaits
<1>4. QED
  BY <1>1, <1>2, <1>3, LedgerInvariance, PTL DEF Spec

-----------------------------------------------------------------------------
(* What the balance queries count *)

LEMMA CommandAsked == ASSUME NEW c \in Command PROVE c # None
  BY LedgerAssumption

(* A status no update has set by now was not set before. *)
LEMMA KeptBefore ==
  ASSUME IInv, Unasked, [Next]_vars, NEW t \in Txns, StatusKept(t)'
  PROVE  StatusKept(t)
<1> SUFFICES ASSUME NEW s \in Requests, tx[s].cmd # None
             PROVE  \/ tx[s].cmd.op # "update" \/ tx[s].cmd.txn # t
                    \/ tx[s].cmd.status = None
  BY DEF StatusKept
<1>1. tx'[s].cmd = tx[s].cmd
  BY TxMoves DEF Unasked
<1>2. QED
  BY <1>1 DEF StatusKept

LEMMA UnaskedStep ==
  ASSUME IInv, Unasked, [Next]_vars
  PROVE  Unasked'
<1> SUFFICES ASSUME NEW s \in Requests, tx'[s].pc = "new"
             PROVE  tx'[s].cmd = None
  BY DEF Unasked
<1>1. tx'[s] = tx[s]
  BY TxMoves
<1>2. QED
  BY <1>1 DEF Unasked

(* An update that commits does not set a status that is kept. *)
LEMMA KeptUpdate ==
  ASSUME IInv, [Next]_vars, NEW r \in Requests, Commit(r),
         Update(tx[r].cmd), NEW t, t = tx[r].cmd.txn, StatusKept(t)'
  PROVE  tx[r].cmd.status = None
<1> DEFINE c == tx[r].cmd
<1>1. c \in Command /\ c # None /\ c.op = "update"
  BY Committing, CommandAsked DEF Commit, Update
<1>2. tx[r].pc = "commit"
  BY DEF Commit, At
<1>3. tx'[r].cmd = c
  BY <1>2, TxMoves
<1>4. QED
  BY <1>1, <1>3 DEF StatusKept

(* A transaction that is there moves on to its end alone. *)
LEMMA StatusMoves ==
  ASSUME IInv, [Next]_vars, NEW t \in Txns, StatusKept(t)', txn[t] # Absent
  PROVE  /\ txn'[t].status \in {txn[t].status, "reconciled", "voided"}
         /\ txn[t].status = "reconciled" => txn'[t].status = "reconciled"
<1>1. CASE UNCHANGED books
  BY <1>1 DEF books
<1>2. ASSUME NEW r \in Requests, Commit(r)
      PROVE  /\ txn'[t].status \in {txn[t].status, "reconciled", "voided"}
             /\ txn[t].status = "reconciled" => txn'[t].status = "reconciled"
  <2> DEFINE c == tx[r].cmd
  <2>1. /\ c \in Command
        /\ \A u \in NewTxns(c) : txn[u] = Absent
        /\ txn \in [Txns -> TxnRow \cup {Absent}]
        /\ Writable(c, tx[r].seen)
    BY <1>2, Committing DEF Commit, IInv, TypeOK
  <2>2. CASE Create(c)
    BY <2>1, <2>2, CommandNews DEF Create
  <2>3. CASE Update(c)
    <3>1. CASE t = c.txn
      <4>1. c.status = None
        BY <1>2, <2>3, <3>1, KeptUpdate
      <4>2. QED
        BY <2>1, <2>3, <3>1, <4>1 DEF Update
    <3>2. CASE t # c.txn
      BY <2>1, <2>3, <3>2 DEF Update
    <3>3. QED
      BY <3>1, <3>2
  <2>4. CASE Void(c, tx[r].seen)
    BY <2>1, <2>4 DEF Void, Writable
  <2>5. CASE Reconcile(c)
    <3>1. txn[t] \in TxnRow
      BY <2>1
    <3>2. t # c.adjustment
      BY <2>1, <2>5, CommandNews, LedgerAssumption DEF Reconcile
    <3>3. txn'[t] = IF t \in c.txns THEN [txn[t] EXCEPT !.status = "reconciled"]
                                    ELSE txn[t]
      BY <2>5, <3>2 DEF Reconcile
    <3>4. QED
      BY <3>1, <3>3 DEF TxnRow
  <2>6. CASE Transfer(c) \/ Open(c) \/ SetAccount(c)
    BY <2>6 DEF Transfer, Open, SetAccount, books
  <2>7. QED
    BY <1>2, <2>2, <2>3, <2>4, <2>5, <2>6
       DEF Commit, Complete, CompleteByHalf
<1>3. QED
  BY <1>1, <1>2, BooksMove

LEMMA SeenStep ==
  ASSUME IInv, Unasked, [Next]_vars, NEW s \in Requests, SeenStands(tx[s])
  PROVE  SeenStands(tx[s])'
<1> SUFFICES ASSUME Runs(tx'[s]), tx'[s].cmd.op = "void",
                    StatusKept(tx[s].cmd.txn)'
             PROVE  txn'[tx'[s].cmd.txn].status
                      \in {tx'[s].seen.status, "reconciled", "voided"}
  BY DEF SeenStands, Runs
<1>1. PICK t : t = tx'[s].cmd.txn
  OBVIOUS
<1>2. StatusKept(t)'
  BY <1>1 DEF StatusKept
<1>3. CASE /\ UNCHANGED books
           /\ tx'[s].cmd.op = "void" => tx'[s].seen = txn[tx'[s].cmd.txn]
  BY <1>3 DEF books
<1>4. CASE /\ Runs(tx[s])
           /\ tx'[s].cmd = tx[s].cmd /\ tx'[s].seen = tx[s].seen
  <2>1. tx[s].cmd \in Command /\ t = tx[s].cmd.txn /\ txn[t] # Absent
    BY <1>1, <1>4 DEF IInv, Requesting, Sound, Knows
  <2>2. t \in Txns
    BY <1>4, <2>1, CommandShape
  <2>3. StatusKept(t)
    BY <1>2, <2>2, KeptBefore
  <2>4. txn[t].status \in {tx[s].seen.status, "reconciled", "voided"}
    BY <1>4, <2>1, <2>3 DEF SeenStands
  <2>5. txn'[t].status \in {txn[t].status, "reconciled", "voided"}
    BY <1>2, <2>1, <2>2, StatusMoves
  <2>6. QED
    BY <1>1, <1>4, <2>4, <2>5
<1>5. tx'[s] = tx[s] => Runs(tx[s])
  BY DEF Runs
<1>6. QED
  BY <1>3, <1>4, <1>5, TxMoves

(* The pairs of a transaction just made *)
LEMMA NewMatches ==
  ASSUME NEW status \in {"draft", "pending", "confirmed", "reconciled"},
         NEW row \in TxnRow, row.status = status
  PROVE  Matches(row, <<PairOf(1, status)>>)
<1> DEFINE pairs == <<PairOf(1, status)>>
<1>1. Len(pairs) = 1 /\ pairs[1].sign = 1 /\ pairs[1].account = status
  BY DEF PairOf
<1> HIDE DEF pairs
<1>2. Matches(row, pairs)
  BY <1>1, AbsentFacts DEF Matches
<1>3. QED
  BY <1>2 DEF pairs

(* ... reversed ... *)
LEMMA ReversedMatches ==
  ASSUME NEW old \in TxnRow, NEW pairs \in Seq(Pair), Matches(old, pairs),
         old.status # "voided",
         NEW row \in TxnRow, row.status = "voided"
  PROVE  Matches(row, Append(pairs, PairOf(-1, old.status)))
<1> DEFINE back == PairOf(-1, old.status)
           more == Append(pairs, back)
<1>1. back.sign = -1 /\ back.account = old.status
  BY DEF PairOf
<1>2. old # Absent /\ row # Absent
  BY AbsentFacts
<1>3. /\ Len(pairs) = 1 /\ pairs[1].sign = 1
      /\ pairs[1].account \in Settled <=> old.status \in Settled
  BY <1>2 DEF Matches
<1>4. back \in Pair
  BY DEF PairOf, Pair, Postable, TxnRow
<1> HIDE DEF back
<1>5. Len(more) = 2 /\ more[1] = pairs[1] /\ more[2] = back
  <2>1. Len(pairs) = 1
    BY <1>3
  <2>2. Len(more) = Len(pairs) + 1
    BY <1>4
  <2>3. more[1] = pairs[1]
    <3>1. 1 \in 1..Len(pairs) /\ pairs \in Seq(Pair) /\ back \in Pair
      BY <1>4, <2>1
    <3>2. \A i \in 1..Len(pairs) : Append(pairs, back)[i] = pairs[i]
      BY <3>1
    <3>3. QED
      BY <3>1, <3>2
  <2>4. more[Len(pairs) + 1] = back
    BY <1>4
  <2> HIDE DEF more
  <2>5. QED
    BY <2>1, <2>2, <2>3, <2>4
<1> HIDE DEF more
<1>6. Matches(row, more)
  BY <1>1, <1>2, <1>3, <1>5 DEF Matches
<1>7. QED
  BY <1>6 DEF more, back

(* ... and reconciled. *)
LEMMA TickedMatches ==
  ASSUME NEW old \in TxnRow, NEW pairs \in Seq(Pair), Matches(old, pairs),
         old.status = "confirmed", pairs[1].account = "confirmed",
         NEW row \in TxnRow, row.status = "reconciled"
  PROVE  Matches(row, Tick(pairs))
<1>1. old # Absent /\ row # Absent
  BY AbsentFacts
<1>2. Len(pairs) = 1 /\ pairs[1].sign = 1
  BY <1>1 DEF Matches
<1>3. 1 \in 1..Len(pairs)
  BY <1>2
<1>4. /\ Len(Tick(pairs)) = 1 /\ Tick(pairs)[1].sign = 1
      /\ Tick(pairs)[1].account = "reconciled"
  BY <1>2, <1>3, TickFacts
<1>5. QED
  BY <1>1, <1>4 DEF Matches, Settled

LEMMA MatchesStep ==
  ASSUME IInv, Balanced, [Next]_vars, NEW t \in Txns, StatusKept(t)'
  PROVE  Matches(txn'[t], postings'[t])
<1>1. Matches(txn[t], postings[t]) /\ Unasked
  BY KeptBefore DEF Balanced
<1>2. txn[t] \in TxnRow \cup {Absent} /\ postings[t] \in Seq(Pair)
  BY DEF IInv, TypeOK
<1>3. CASE txn'[t] = txn[t] /\ postings'[t] = postings[t]
  BY <1>1, <1>3
<1>4. ASSUME NEW r \in Requests, Commit(r)
      PROVE  Matches(txn'[t], postings'[t])
  <2> DEFINE c == tx[r].cmd
             seen == tx[r].seen
  <2>1. /\ c \in Command /\ Writable(c, seen)
        /\ \A u \in NewTxns(c) : txn[u] = Absent
        /\ c.op \in {"update", "void"} => txn[c.txn] \in TxnRow
        /\ txn \in [Txns -> TxnRow \cup {Absent}]
        /\ postings \in [Txns -> Seq(Pair)]
        /\ txn'[t] \in TxnRow \cup {Absent}
    BY <1>4, Committing, CommitFrame DEF Commit, IInv, TypeOK, BooksTypeOK
  <2>2. CASE Create(c) /\ t = c.txn
    <3>1. c.status \in {"draft", "pending", "confirmed"}
      BY <2>1, <2>2, CommandShape DEF Create
    <3>2. /\ txn'[t] = [status |-> c.status, version |-> 1]
          /\ postings'[t] = <<PairOf(1, c.status)>>
      BY <2>1, <2>2 DEF Create
    <3>3. txn'[t] \in TxnRow /\ txn'[t].status = c.status
      BY <3>1, <3>2 DEF TxnRow, Statuses
    <3>4. QED
      BY <3>1, <3>2, <3>3, NewMatches
  <2>3. CASE Update(c) /\ t = c.txn
    <3>1. c.status = None /\ c.op = "update"
      BY <1>4, <2>3, KeptUpdate DEF Update
    <3>2. /\ txn'[t] = [status |-> txn[t].status, version |-> txn[t].version + 1]
          /\ postings'[t] = postings[t]
      BY <2>1, <2>3, <3>1 DEF Update
    <3>3. txn[t] \in TxnRow
      BY <2>1, <2>3, <3>1
    <3>4. txn'[t].status = txn[t].status
      BY <3>2
    <3>5. txn[t] # Absent /\ txn'[t] # Absent
      BY <3>3, <3>4, AbsentFacts DEF TxnRow, Statuses
    <3>6. QED
      BY <1>1, <3>2, <3>4, <3>5 DEF Matches
  <2>4. CASE Void(c, seen) /\ t = c.txn
    <3>1. c.op = "void" /\ txn[t].status \in {"pending", "confirmed"}
      BY <2>1, <2>4 DEF Void, Writable
    <3>2. SeenStands(tx[r]) /\ Runs(tx[r])
      BY <1>4 DEF Balanced, Commit, At, Runs
    <3>3. txn[t].status \in {seen.status, "reconciled", "voided"}
      BY <2>4, <3>1, <3>2, <1>1, KeptBefore DEF SeenStands
    <3>4. txn[t].status = seen.status /\ txn[t].status # "voided"
      BY <3>1, <3>3, SMTT(40)
    <3>5. /\ txn'[t] = [status |-> "voided", version |-> txn[t].version + 1]
          /\ postings'[t] = Append(postings[t], PairOf(-1, txn[t].status))
      BY <2>1, <2>4, <3>4 DEF Void
    <3>6. txn'[t].status = "voided"
      BY <3>5
    <3>7. txn[t] \in TxnRow /\ txn'[t] \in TxnRow
      BY <2>1, <2>4, <3>1, <3>6, AbsentFacts
    <3>8. QED
      BY <1>1, <1>2, <3>4, <3>5, <3>6, <3>7, ReversedMatches
  <2>5. CASE Reconcile(c)
    <3>1. c.op = "complete"
      BY <2>5 DEF Reconcile
    <3>2. CASE t \in c.txns
      <4>1. Reconcilable(t, recon[c.recon].account)
        BY <2>1, <3>1, <3>2 DEF Writable
      <4>2. /\ txn'[t] = [txn[t] EXCEPT !.status = "reconciled"]
            /\ postings'[t] = Tick(postings[t])
        BY <2>5, <3>2 DEF Reconcile
      <4>3. txn[t].status = "confirmed" /\ txn[t] \in TxnRow
        BY <1>2, <4>1, AbsentFacts DEF Reconcilable
      <4>4. txn'[t].status = "reconciled" /\ txn'[t] \in TxnRow
        BY <4>2, <4>3 DEF TxnRow, Statuses
      <4>5. txn[t] # Absent
        BY <4>3, AbsentFacts
      <4>6. Len(postings[t]) = 1
        BY <1>1, <4>3, <4>5 DEF Matches
      <4>7. postings[t][1].account = "confirmed"
        BY <4>1, <4>6 DEF Reconcilable
      <4>8. QED
        BY <1>1, <1>2, <4>2, <4>3, <4>4, <4>7, TickedMatches
    <3>3. CASE t \notin c.txns /\ t = c.adjustment
      <4>1. /\ txn'[t] = [status |-> "reconciled", version |-> 1]
            /\ postings'[t] = <<PairOf(1, "reconciled")>>
        BY <2>5, <3>3 DEF Reconcile
      <4>2. txn'[t] \in TxnRow /\ txn'[t].status = "reconciled"
        BY <4>1 DEF TxnRow, Statuses
      <4>3. QED
        BY <4>1, <4>2, NewMatches
    <3>4. CASE t \notin c.txns /\ t # c.adjustment
      BY <1>3, <2>5, <3>4 DEF Reconcile
    <3>5. QED
      BY <3>2, <3>3, <3>4
  <2>6. CASE Transfer(c) \/ Open(c) \/ SetAccount(c)
    BY <1>3, <2>6 DEF Transfer, Open, SetAccount, books
  <2>7. CASE (Create(c) \/ Update(c) \/ Void(c, seen)) /\ t # c.txn
    <3>1. txn'[t] = txn[t] /\ postings'[t] = postings[t]
      BY <2>1, <2>7 DEF Create, Update, Void
    <3>2. QED
      BY <1>3, <3>1, SMTT(40)
  <2>8. QED
    BY <1>4, <2>2, <2>3, <2>4, <2>5, <2>6, <2>7
       DEF Commit, Complete, CompleteByHalf
<1>5. QED
  BY <1>3, <1>4, BooksMove DEF books

LEMMA BalancedStep ==
  ASSUME IInv, Balanced, [Next]_vars
  PROVE  Balanced'
<1>1. Unasked'
  BY UnaskedStep DEF Balanced
<1>2. \A r \in Requests : SeenStands(tx[r])'
  BY SeenStep DEF Balanced
<1>3. ASSUME NEW t \in Txns, StatusKept(t)' PROVE Matches(txn'[t], postings'[t])
  BY <1>3, MatchesStep
<1>4. \A t \in Txns : StatusKept(t)' => Matches(txn[t], postings[t])'
  BY <1>3 DEF Matches
<1>5. QED
  BY <1>1, <1>2, <1>4 DEF Balanced

LEMMA InitBalanced == Init => Balanced
<1> SUFFICES ASSUME Init PROVE Balanced
  OBVIOUS
<1>1. Unasked /\ \A r \in Requests : SeenStands(tx[r])
  BY DEF Init, Unasked, SeenStands, Runs
<1>2. \A t \in Txns : Matches(txn[t], postings[t])
  BY SMTT(40) DEF Init, Matches, Absent
<1>3. QED
  BY <1>1, <1>2 DEF Balanced

(* A claim stands: what was claimed is reconciled still. *)
Standing ==
  \A q \in Recons : \A t \in recon[q].claimed :
    StatusKept(t) => txn[t].status = "reconciled"

LEMMA ClaimsOnCommit ==
  ASSUME IInv, NEW r \in Requests, Commit(r),
         NEW q \in Recons, NEW t \in recon'[q].claimed, t \notin recon[q].claimed
  PROVE  t \in Txns /\ txn'[t].status = "reconciled"
<1> DEFINE c == tx[r].cmd
<1>1. /\ c \in Command /\ Writable(c, tx[r].seen)
      /\ c.op = "complete" => recon[c.recon] \in ReconRow
      /\ \A p \in NewRecons(c) : recon[p] = NoRecon
      /\ recon \in [Recons -> ReconRow \cup {NoRecon}]
      /\ txn \in [Txns -> TxnRow \cup {Absent}]
  BY Committing DEF Commit, IInv, TypeOK
<1>2. CASE UNCHANGED recon
  BY <1>2
<1>3. CASE Open(c)
  BY <1>1, <1>3, CommandShape, AbsentFacts, SMTT(40) DEF Open
<1>4. CASE Complete(c)
  <2>1. c.op = "complete" /\ c.recon \in Recons
          /\ NewTxns(c) = {c.adjustment} \ {None} /\ NewTxns(c) \subseteq Txns
          /\ c.txns \subseteq Txns
    BY <1>1, <1>4, CommandShape, CommandNews, SMTT(40) DEF Complete, Reconcile
  <2>2. t \in c.txns \cup NewTxns(c)
    BY <1>1, <1>4, <2>1 DEF Complete, ReconRow
  <2>3. \A u \in c.txns : txn[u] \in TxnRow
    BY <1>1, <2>1, AbsentFacts DEF Writable, Reconcilable
  <2>4. QED
    BY <1>4, <2>1, <2>2, <2>3, SMTT(40) DEF Complete, Reconcile, TxnRow
<1>5. QED
  BY <1>2, <1>3, <1>4
     DEF Commit, CompleteByHalf, Create, Update, Void, Transfer, SetAccount, books

LEMMA StandingStep ==
  ASSUME IInv, Unasked, Standing, [Next]_vars
  PROVE  Standing'
<1> SUFFICES ASSUME NEW q \in Recons, NEW t \in recon'[q].claimed,
                    StatusKept(t)'
             PROVE  txn'[t].status = "reconciled"
  BY DEF Standing
<1>1. CASE t \in recon[q].claimed
  <2>1. recon[q].claimed \subseteq Txns /\ postings[t] # <<>>
    BY <1>1, AbsentFacts DEF IInv, TypeOK, Claims, Ticked, ReconRow
  <2>2. t \in Txns /\ txn[t] # Absent
    BY <1>1, <2>1 DEF IInv, Books
  <2>3. StatusKept(t)
    BY <2>2, KeptBefore
  <2>4. QED
    BY <1>1, <2>2, <2>3, StatusMoves DEF Standing
<1>2. CASE t \notin recon[q].claimed
  <2>1. \E r \in Requests : Commit(r)
    BY <1>2, BooksMove DEF books
  <2>2. QED
    BY <1>2, <2>1, ClaimsOnCommit
<1>3. QED
  BY <1>1, <1>2

(* The pairs of a transaction count for what its status says. *)
LEMMA Counting ==
  ASSUME NEW t \in Txns, txn[t] \in TxnRow \cup {Absent},
         postings[t] \in Seq(Pair), Matches(txn[t], postings[t])
  PROVE  Counted(t, 1) - Counted(t, -1)
           = IF txn[t].status \in Settled THEN 1 ELSE 0
<1> DEFINE pairs == postings[t]
           Those(sign) == {i \in 1..Len(pairs) :
                             pairs[i].sign = sign /\ pairs[i].account \in Settled}
<1>1. Counted(t, 1) = Cardinality(Those(1))
        /\ Counted(t, -1) = Cardinality(Those(-1))
  BY DEF Counted
<1>2. CASE txn[t] = Absent
  <2>1. Len(pairs) = 0
    BY <1>2 DEF Matches
  <2>2. Those(1) = {} /\ Those(-1) = {}
    BY <2>1
  <2>3. txn[t].status \notin Settled
    BY <1>2, AbsentFacts DEF Settled
  <2>4. Cardinality(Those(1)) = 0 /\ Cardinality(Those(-1)) = 0
    BY <2>2, FS_EmptySet
  <2>5. QED
    BY <1>1, <2>3, <2>4
<1>3. CASE txn[t] # Absent /\ txn[t].status # "voided"
  <2>1. /\ Len(pairs) = 1 /\ pairs[1].sign = 1
        /\ pairs[1].account \in Settled <=> txn[t].status \in Settled
    BY <1>3 DEF Matches
  <2> HIDE DEF pairs
  <2>2. Those(-1) = {}
    BY <2>1
  <2>3. Those(1) = IF txn[t].status \in Settled THEN {1} ELSE {}
    BY <2>1
  <2>4. Cardinality(Those(-1)) = 0
    BY <2>2, FS_EmptySet
  <2>5. Cardinality(Those(1)) = IF txn[t].status \in Settled THEN 1 ELSE 0
    BY <2>3, FS_EmptySet, FS_Singleton
  <2>6. QED
    BY <1>1, <2>4, <2>5
<1>4. CASE txn[t] # Absent /\ txn[t].status = "voided"
  <2>1. /\ Len(pairs) = 2 /\ pairs[1].sign = 1 /\ pairs[2].sign = -1
        /\ pairs[1].account \in Settled <=> pairs[2].account \in Settled
    BY <1>4 DEF Matches
  <2> HIDE DEF pairs
  <2>2. Those(1) = IF pairs[1].account \in Settled THEN {1} ELSE {}
    BY <2>1
  <2>3. Those(-1) = IF pairs[1].account \in Settled THEN {2} ELSE {}
    BY <2>1
  <2>4. Cardinality(Those(1)) = IF pairs[1].account \in Settled THEN 1 ELSE 0
    BY <2>2, FS_EmptySet, FS_Singleton
  <2>5. Cardinality(Those(-1)) = IF pairs[1].account \in Settled THEN 1 ELSE 0
    BY <2>3, FS_EmptySet, FS_Singleton
  <2>6. txn[t].status \notin Settled
    BY <1>4 DEF Settled
  <2>7. QED
    BY <1>1, <2>4, <2>5, <2>6
<1>5. QED
  BY <1>2, <1>3, <1>4

(* A transaction whose status no update has set counts in the balance of its *)
(* account exactly while it is confirmed or reconciled, whoever races to     *)
(* void and to reconcile it.                                                 *)
THEOREM BooksAgreeWithStatuses == Spec => []BooksMatchStatuses
<1>1. IInv /\ Balanced /\ [Next]_vars => Balanced'
  BY BalancedStep
<1>2. IInv /\ Balanced => BooksMatchStatuses
  BY Counting DEF BooksMatchStatuses, Balanced, IInv, TypeOK
<1>3. QED
  BY <1>1, <1>2, InitBalanced, LedgerInvariance, PTL DEF Spec

(* What a completed reconciliation claimed stays reconciled and is never     *)
(* reversed, also by a request that read it before, unless an update asked   *)
(* for another status.                                                       *)
THEOREM ClaimsStand == Spec => []ClaimStands
<1>1. Init => Standing
  BY AbsentFacts DEF Init, Standing
<1>2. IInv /\ Balanced /\ [Next]_vars => Balanced'
  BY BalancedStep
<1>3. IInv /\ Balanced /\ Standing /\ [Next]_vars => Standing'
  BY StandingStep DEF Balanced
<1>4. IInv /\ Standing => ClaimStands
  <2> SUFFICES ASSUME IInv, Standing, NEW q \in Recons,
                      NEW t \in recon[q].claimed, StatusKept(t)
               PROVE  txn[t].status = "reconciled" /\ Reversals(t) = {}
    BY DEF ClaimStands
  <2>1. recon[q].claimed \subseteq Txns
    BY AbsentFacts DEF IInv, TypeOK, ReconRow
  <2>2. QED
    BY <2>1 DEF Standing, IInv, Books
<1>5. QED
  BY <1>1, <1>2, <1>3, <1>4, InitBalanced, LedgerInvariance, PTL DEF Spec
=============================================================================
