------------------------------ MODULE Imports ------------------------------
(***************************************************************************)
(* Bank files of one workspace.  An import waits for its columns to be     *)
(* mapped, is committed into transactions of an account, and may be rolled *)
(* back, which voids them.  Commits and rollbacks of different people, for *)
(* the same file or for files that overlap, run beside each other and      *)
(* beside people who edit, void and reconcile the transactions, and beside *)
(* one who takes the role of the caller away.                              *)
(*                                                                         *)
(* Row security looks at the role again for each statement: once it is     *)
(* lost, an INSERT raises and a conditional UPDATE matches no row.  A      *)
(* commit or a rollback whose last update matches no row answers a         *)
(* conflict and does not roll back.  That no status makes it miss rests on *)
(* the locks taken before; that the caller still has a role rests on       *)
(* nothing, so one who loses it just then leaves half of the work behind.  *)
(***************************************************************************)
EXTENDS Naturals, FiniteSets

CONSTANTS
  Files,        \* import jobs
  Lines,        \* valid rows of files
  LinesOf,      \* those of each file
  LineRow,      \* what each says; several lines may say the same
  Amounts,
  Texts,        \* dates and descriptions
  Accounts,
  Commits,      \* requests to commit an import
  Rollbacks,    \* requests to roll one back
  FileOf,       \* the import of a request
  AccountOf,    \* the account a commit is for
  SkipsDuplicates, \* commits with skipDuplicateCandidates
  MaxEdits      \* bound: edits, voids and reconciliations by other people

Importers == Commits \cup Rollbacks
Nowhere == "nowhere"

\* What findExistingBatch compares: the amount, and the date and description.
Rows == [amount : Amounts, text : Texts]

ASSUME ImportsAssumption ==
  /\ Commits \cap Rollbacks = {} /\ Nowhere \notin Importers \cup Accounts
  /\ FileOf \in [Importers -> Files] /\ AccountOf \in [Commits -> Accounts]
  /\ LinesOf \in [Files -> SUBSET Lines] /\ LineRow \in [Lines -> Rows]
  /\ SkipsDuplicates \subseteq Commits /\ MaxEdits \in Nat

VARIABLES
  import,      \* import_jobs.status and account_id
  entries,     \* imported transactions: the commit and line they come from
  entry,       \* their status, version and row, and every row they have had
  closed,      \* closed accounts
  barred,      \* requests whose caller has lost the role of an editor for good
  wsLock,      \* holder of the advisory lock of the workspace
  accLock,     \* holder of the advisory lock of each account
  importer,    \* each request: its pc, what it has read or prepared
  edits        \* what other people have done to transactions

importVars == <<import, entries, entry, closed, barred, wsLock, accLock, importer,
                edits>>

Keys == Commits \X Lines

\* `had` is history: the rows a transaction has been, the present one included.
Entry == [status : {"draft", "confirmed", "reconciled", "voided"}, version : Nat,
          row : Rows, had : SUBSET Rows]

\* "half" is a conflict answered after transactions were written or voided.
Outcomes == {"ok", "half", "replayed", "conflict", "forbidden", "invalid",
             "closed", "failed"}
Stretches == {"locked", "ready", "write", "voided"}

ImportTypeOK ==
  /\ import \in [Files -> [status : {"awaiting_mapping", "completed", "rolled_back"},
                           account : Accounts \cup {Nowhere}]]
  /\ entries \subseteq Keys
  /\ entry \in [entries -> Entry]
  /\ closed \subseteq Accounts
  /\ barred \subseteq Importers
  /\ edits \in Nat
  /\ wsLock \in Importers \cup {Nowhere}
  /\ accLock \in [Accounts -> Importers \cup {Nowhere}]
  /\ \A p \in Importers :
       /\ importer[p].pc \in {"new"} \cup Stretches \cup Outcomes
       /\ importer[p].rows \subseteq Lines
       /\ DOMAIN importer[p].seen \subseteq Keys

Unseen == [k \in {} |-> 0]

ImportInit ==
  /\ import = [f \in Files |-> [status |-> "awaiting_mapping", account |-> Nowhere]]
  /\ entries = {}
  /\ entry = Unseen
  /\ closed = {}
  /\ barred = {}
  /\ wsLock = Nowhere
  /\ accLock = [a \in Accounts |-> Nowhere]
  /\ edits = 0
  /\ importer = [p \in Importers |-> [pc |-> "new", rows |-> {}, seen |-> Unseen]]

books == <<import, entries, entry>>
others == <<closed, barred, edits>>

ImporterAt(p, pc) == importer[p].pc = pc
Became(p, pc) == importer' = [importer EXCEPT ![p].pc = pc]

\* The transaction ends, by COMMIT or by ROLLBACK, and drops its locks.
Answer(p, outcome) ==
  /\ importer' = [importer EXCEPT ![p] = [pc |-> outcome, rows |-> {}, seen |-> Unseen]]
  /\ wsLock' = IF wsLock = p THEN Nowhere ELSE wsLock
  /\ accLock' = [a \in Accounts |-> IF accLock[a] = p THEN Nowhere ELSE accLock[a]]
  /\ UNCHANGED others

Refused(p, outcome) == Answer(p, outcome) /\ UNCHANGED books

\* Faulty variant: the workspace is not locked.
NoWorkspaceLock(p) ==
  /\ ImporterAt(p, "new")
  /\ Became(p, "locked")
  /\ UNCHANGED <<books, others, wsLock, accLock>>

LockWorkspace(p) ==
  /\ ImporterAt(p, "new")
  /\ wsLock = Nowhere
  /\ wsLock' = p
  /\ Became(p, "locked")
  /\ UNCHANGED <<books, others, accLock>>

Hold(p, a) ==
  /\ accLock[a] = Nowhere
  /\ accLock' = [accLock EXCEPT ![a] = p]
  /\ UNCHANGED wsLock

\* Another request of the same key has been carried out: each file has one
\* key for its commit to each account and one for its rollback.
CarriedOut(p) ==
  \E q \in Importers \ {p} :
    /\ importer[q].pc = "ok" /\ FileOf[q] = FileOf[p]
    /\ q \in Commits <=> p \in Commits
    /\ p \in Commits => AccountOf[q] = AccountOf[p]

\* commitImport, until its rows are prepared: the account is locked and
\* looked at before the role and the record of the key.  A mapping or a row
\* that does not parse is refused.
PrepareCommit(p) ==
  LET a == AccountOf[p]
      status == import[FileOf[p]].status IN
  /\ p \in Commits
  /\ ImporterAt(p, "locked")
  /\ accLock[a] = Nowhere
  /\ \/ a \in closed /\ Refused(p, "closed")
     \/ a \notin closed /\ p \in barred /\ Refused(p, "forbidden")
     \/ /\ a \notin closed /\ p \notin barred
        /\ \/ CarriedOut(p) /\ Refused(p, "replayed")
           \/ /\ ~CarriedOut(p)
              /\ \/ status = "completed" /\ Refused(p, "conflict")
                 \/ status # "completed" /\ Refused(p, "invalid")
                 \/ /\ status = "awaiting_mapping"
                    /\ Hold(p, a)
                    /\ Became(p, "ready")
                    /\ UNCHANGED <<books, others>>

Of(a) == {k \in entries : AccountOf[k[1]] = a}

\* Faulty variant: transactions that have been voided are no candidates.
InAccountNotVoided(a) == {entry[k].row : k \in {e \in Of(a) : entry[e].status # "voided"}}

\* Voided transactions count as candidates too; equal lines of the file do not.
InAccount(a) == {entry[k].row : k \in Of(a)}

Importable(p) ==
  {l \in LinesOf[FileOf[p]] :
     p \in SkipsDuplicates => LineRow[l] \notin InAccount(AccountOf[p])}

\* findRows, findExistingBatch and createImportedTransactions, uncommitted.
\* One who is no editor any more is refused by the INSERT; one who is no
\* member any more sees no row, and completes nothing.
Import(p) ==
  /\ p \in Commits
  /\ ImporterAt(p, "ready")
  /\ \/ p \in barred /\ Importable(p) # {} /\ Refused(p, "failed")
     \/ p \in barred /\ Refused(p, "conflict")
     \/ /\ p \in barred => Importable(p) = {}
        /\ importer' = [importer EXCEPT ![p].pc = "write", ![p].rows = Importable(p)]
        /\ UNCHANGED <<books, others, wsLock, accLock>>

\* complete, the terminal job and the record, and COMMIT.  The transactions
\* are committed also where the status of the import, or row security, makes
\* the update miss.
CommitImport(p) ==
  LET f == FileOf[p]
      new == {p} \X importer[p].rows
      completes == import[f].status = "awaiting_mapping" /\ p \notin barred IN
  /\ p \in Commits
  /\ ImporterAt(p, "write")
  /\ entries' = entries \cup new
  /\ entry' = [k \in entries \cup new |->
       IF k \in new
         THEN [status |-> "confirmed", version |-> 1,
               row |-> LineRow[k[2]], had |-> {LineRow[k[2]]}]
         ELSE entry[k]]
  /\ import' = IF completes
       THEN [import EXCEPT ![f] = [status |-> "completed", account |-> AccountOf[p]]]
       ELSE import
  /\ Answer(p, IF completes THEN "ok" ELSE IF new = {} THEN "conflict" ELSE "half")

OfFile(f) == {k \in entries : FileOf[k[1]] = f}

\* rollbackImport, until it has read the transactions: the status is read
\* before and again after the account is locked.
PrepareRollback(p) ==
  LET f == FileOf[p] IN
  /\ p \in Rollbacks
  /\ ImporterAt(p, "locked")
  /\ \/ p \in barred /\ Refused(p, "forbidden")
     \/ /\ p \notin barred
        /\ \/ CarriedOut(p) /\ Refused(p, "replayed")
           \/ /\ ~CarriedOut(p) /\ import[f].status = "rolled_back"
              /\ Refused(p, "conflict")
           \/ import[f].status = "awaiting_mapping" /\ Refused(p, "invalid")
           \/ /\ ~CarriedOut(p) /\ import[f].status = "completed"
              /\ accLock[import[f].account] = Nowhere
              /\ IF import[f].account \in closed THEN Refused(p, "closed")
                 ELSE /\ Hold(p, import[f].account)
                      /\ Became(p, "ready")
                      /\ UNCHANGED <<books, others>>

\* One who is no member any more sees no transaction, and completes nothing.
ReadImported(p) ==
  /\ p \in Rollbacks
  /\ ImporterAt(p, "ready")
  /\ \/ p \in barred /\ Refused(p, "conflict")
     \/ IF \E k \in OfFile(FileOf[p]) : entry[k].status = "reconciled"
          THEN Refused(p, "invalid")
          ELSE /\ importer' = [importer EXCEPT ![p].pc = "write",
                    ![p].seen = [k \in OfFile(FileOf[p]) |-> entry[k]]]
               /\ UNCHANGED <<books, others, wsLock, accLock>>

Voiding(p) == {k \in DOMAIN importer[p].seen : importer[p].seen[k].status # "voided"}

\* voidTransaction: still to be voided, at the version that was read.
Voidable(p, k) ==
  /\ entry[k].status = "confirmed"
  /\ entry[k].version = importer[p].seen[k].version

\* Every transaction is voided, uncommitted, its row locked, or nothing is.
VoidImported(p) ==
  /\ p \in Rollbacks
  /\ ImporterAt(p, "write")
  /\ IF \A k \in Voiding(p) : Voidable(p, k) /\ p \notin barred
       THEN /\ Became(p, "voided")
            /\ UNCHANGED <<books, others, wsLock, accLock>>
       ELSE Refused(p, "invalid")

VoidThese(keys) ==
  entry' = [k \in entries |->
    IF k \in keys THEN [entry[k] EXCEPT !.status = "voided", !.version = @ + 1]
    ELSE entry[k]]

\* complete, the terminal job and the record, and COMMIT, which again keeps
\* what was voided where the update misses.
RollbackImport(p) ==
  LET f == FileOf[p]
      completes == import[f].status = "completed" /\ p \notin barred IN
  /\ p \in Rollbacks
  /\ ImporterAt(p, "voided")
  /\ VoidThese(Voiding(p))
  /\ import' = IF completes
       THEN [import EXCEPT ![f].status = "rolled_back"] ELSE import
  /\ UNCHANGED entries
  /\ Answer(p, IF completes THEN "ok"
               ELSE IF Voiding(p) = {} THEN "conflict" ELSE "half")

\* A deadline, a lost record, a lost connection; a role lost before the
\* terminal job or the record is inserted.
AbortImport(p) ==
  /\ importer[p].pc \in Stretches
  /\ Refused(p, "failed")

-----------------------------------------------------------------------------
(* Other people *)

\* An administrator takes the caller's role away: updateMemberRole and
\* removeMember lock nothing that an import holds.
LoseImporterRole(p) ==
  /\ importer[p].pc \in Stretches
  /\ p \notin barred
  /\ barred' = barred \cup {p}
  /\ UNCHANGED <<books, closed, wsLock, accLock, importer, edits>>

\* Other people's changes, as many as MaxEdits.
Touched ==
  /\ edits < MaxEdits
  /\ edits' = edits + 1
  /\ UNCHANGED <<import, entries, closed, barred, wsLock, accLock, importer>>

RowLocked(k) == \E p \in Rollbacks : ImporterAt(p, "voided") /\ k \in Voiding(p)

\* PATCH takes no lock of the account; it may change the date, the description
\* and the status, and where it has read the row before, a reconciled one too.
EditEntry(k) ==
  /\ ~RowLocked(k)
  /\ entry[k].status # "voided"
  /\ \E text \in Texts, status \in {"draft", "confirmed", entry[k].status} :
       LET row == [entry[k].row EXCEPT !.text = text] IN
       entry' = [entry EXCEPT ![k] = [status |-> status, version |-> @.version + 1,
                                      row |-> row, had |-> @.had \cup {row}]]
  /\ Touched

\* A void and a completed reconciliation take the lock; the latter does not
\* move the version on.
SettleEntry(k) ==
  /\ ~RowLocked(k)
  /\ accLock[AccountOf[k[1]]] = Nowhere
  /\ entry[k].status = "confirmed"
  /\ \/ entry' = [entry EXCEPT ![k].status = "voided", ![k].version = @ + 1]
     \/ entry' = [entry EXCEPT ![k].status = "reconciled"]
  /\ Touched

AccountCloses(a) ==
  /\ accLock[a] = Nowhere
  /\ a \notin closed
  /\ closed' = closed \cup {a}
  /\ UNCHANGED <<books, barred, wsLock, accLock, importer, edits>>

ImportNext ==
  \/ \E p \in Importers :
       \/ LockWorkspace(p) \/ PrepareCommit(p) \/ Import(p) \/ CommitImport(p)
       \/ PrepareRollback(p) \/ ReadImported(p) \/ VoidImported(p)
       \/ RollbackImport(p) \/ AbortImport(p) \/ LoseImporterRole(p)
  \/ \E k \in entries : EditEntry(k) \/ SettleEntry(k)
  \/ \E a \in Accounts : AccountCloses(a)

ImportSpec == ImportInit /\ [][ImportNext]_importVars

-----------------------------------------------------------------------------
(* Properties *)

ByHalf(k) == importer[k[1]].pc = "half"
Whole(f) == {k \in OfFile(f) : ~ByHalf(k)}

RowsHad(a) == UNION {entry[k].had : k \in Of(a)}

(* An import and the books agree, but for what is done by half.  Only one  *)
(* who lost the role on the way leaves work by half; nobody who was        *)
(* refused otherwise, or failed, leaves a transaction behind.  Apart from  *)
(* transactions by half, an import that waits has none, and one that was   *)
(* committed has those of a single commit, which left out only lines whose *)
(* row was in its account.  Once rolled back no transaction of the file    *)
(* counts, not even those by half.                                         *)
FileIsWhole(f) ==
  /\ \A j, k \in Whole(f) : j[1] = k[1]
  /\ import[f].status = "awaiting_mapping" => Whole(f) = {}
  /\ import[f].status # "awaiting_mapping" =>
       \A l \in LinesOf[f] : LineRow[l] \in RowsHad(import[f].account)
  /\ import[f].status = "rolled_back" =>
       \A k \in OfFile(f) : entry[k].status = "voided"

ImportsAreWhole ==
  /\ \A p \in Importers : importer[p].pc = "half" => p \in barred
  /\ \A k \in entries : importer[k[1]].pc \in {"ok", "half"}
  /\ \A f \in Files : FileIsWhole(f)

(* A row that is in an account is not imported again by a commit that      *)
(* skips duplicates, although the files overlap, are committed at the same *)
(* time or by half, or the row has been voided or rolled back since: two   *)
(* such commits leave the same row twice only where an edit has changed a  *)
(* date or description meanwhile.  Equal lines of one file are             *)
(* transactions of their own, imported together or not at all.             *)
RowsAreImportedOnce ==
  \A j, k \in entries :
    /\ /\ j[1] # k[1] /\ AccountOf[j[1]] = AccountOf[k[1]]
       /\ {j[1], k[1]} \subseteq SkipsDuplicates
       => ~ \E r \in Rows : entry[j].had = {r} /\ entry[k].had = {r}
    /\ \A l \in LinesOf[FileOf[k[1]]] :
         LineRow[l] = LineRow[k[2]] => <<k[1], l>> \in entries
=============================================================================
