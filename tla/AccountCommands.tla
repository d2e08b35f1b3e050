-------------------------- MODULE AccountCommands --------------------------
(***************************************************************************)
(* The commands about accounts and what is posted into them: accounts,     *)
(* transactions, transfers, exchanges, reconciliations, and the catalogs   *)
(* and exchange rates they refer to.                                       *)
(***************************************************************************)
EXTENDS CommandSteps

(* Accounts *)

ReadAccount == Find("account", "notFound")

\* Insert, and the adjustment of an opening balance with its postings; the
\* trigger on accounts refuses a currency without a rate.
InsertAccount == <<Throwing(Ask("currencyUnsupported")), Insert("account"), Insert("transaction")>>

CreateAccount == <<Writer, Replay>> \o InsertAccount \o <<Record(201)>>

PostAccounts ==
  Endpoint({400, 422}, CreateAccount, 201,
    [forbidden |-> 403, currencyUnsupported |-> 422, keyConflict |-> 409])

GoneOrClosed == [absent |-> "notFound", closed |-> "closed", stale |-> "versionConflict"]

\* The status is checked by the read before it and, if the command changes it,
\* by the check constraint on closed_at; without If-Match the rest is written
\* whatever the row has become.
WriteAccount == PutVersion("account", {"open"}, "open", "header", GoneOrClosed)

UpdateAccount ==
  <<Writer, ReadAccount, Is("account", {"open"}, "closed"),
    Match("account", "versionConflict"), WriteAccount>>

PatchAccount ==
  Endpoint({400, 412, 422}, UpdateAccount, 200,
    [forbidden |-> 403, closed |-> 403, notFound |-> 404, versionConflict |-> 412])

\* The lock of the account, and its drafts and pending transactions.
HasUnsettledTransactions == <<LockOn("account"), Ask("unsettled")>>

WriteClosed == PutVersion("account", {"open", "closed"}, "closed", "header", GoneOrClosed)

\* Faulty variant: the record of the key is not written.
CloseAccountUnrecorded ==
  <<Writer, Replay, ReadAccount, Is("account", {"open"}, "closed"),
    Match("account", "versionConflict")>>
  \o HasUnsettledTransactions \o <<WriteClosed>>

CloseAccount ==
  <<Writer, Replay, ReadAccount, Is("account", {"open"}, "closed"),
    Match("account", "versionConflict")>>
  \o HasUnsettledTransactions \o <<WriteClosed, Record(200)>>

PostAccountClose ==
  Endpoint({400, 412}, CloseAccount, 200,
    [forbidden |-> 403, closed |-> 409, notFound |-> 404, unsettled |-> 409,
     keyConflict |-> 409, versionConflict |-> 412])

GetAccount ==
  Endpoint({400}, <<Member, ReadAccount>>, 200, [forbidden |-> 403, notFound |-> 404])

GetAccountBalance ==
  Endpoint({400, 422}, <<Member, ReadAccount>>, 200,
           [forbidden |-> 403, notFound |-> 404])

-----------------------------------------------------------------------------
(* Transactions, transfers and exchanges *)

\* Faulty variant: the account is read before its lock is taken.
ReadAndLockAccount == <<Find("account", "accountUnresolved"), LockOn("account")>>

LockAndReadAccount == <<LockOn("account"), Find("account", "accountUnresolved")>>

OpenAccount == <<Is("account", {"open"}, "accountClosed"), Ask("currencyMismatch")>>

InsertTransaction ==
  <<Throwing(Ask("categoryNotFound")), Throwing(Ask("payeeNotFound")),
    Throwing(Ask("receiptLinked")), Insert("transaction")>>

CreateTransaction ==
  <<Writer, Replay>> \o LockAndReadAccount \o OpenAccount \o InsertTransaction
  \o <<Record(201)>>

PostTransactions ==
  Endpoint({400, 422}, CreateTransaction, 201,
    [forbidden |-> 403, accountUnresolved |-> 422, accountClosed |-> 422,
     currencyMismatch |-> 422, categoryNotFound |-> 422, payeeNotFound |-> 422,
     keyConflict |-> 409, receiptLinked |-> 409])

ReadTransaction == Find("transaction", "notFound")

\* Nothing that is voided or reconciled changes.
TransactionKinds ==
  [absent |-> "notFound", voided |-> "voided", frozen |-> "reconciled",
   stale |-> "versionConflict"]

\* Nor is a draft voided.
VoidKinds ==
  [absent |-> "notFound", draft |-> "draft", voided |-> "voided",
   frozen |-> "reconciled", stale |-> "versionConflict"]

\* The version is that of If-Match or else the one just read.
WriteTransaction ==
  <<Throwing(Ask("categoryNotFound")), Throwing(Ask("payeeNotFound")),
    PutVersion("transaction", {"draft", "posted", "frozen", "voided"}, "posted", "read",
               TransactionKinds)>>

UpdateTransaction ==
  <<Writer, Replay, ReadTransaction, Is("transaction", {"draft", "posted", "frozen"}, "voided"),
    Is("transaction", {"draft", "posted"}, "reconciled"),
    Match("transaction", "versionConflict")>>
  \o WriteTransaction \o <<Record(200)>>

PatchTransaction ==
  Endpoint({400, 412, 422}, UpdateTransaction, 200,
    [forbidden |-> 403, voided |-> 409, notFound |-> 404, versionConflict |-> 412,
     reconciled |-> 409, categoryNotFound |-> 422, payeeNotFound |-> 422,
     keyConflict |-> 409])

\* The lock of the account, the status and the compensating postings.
WriteVoided ==
  <<LockOn("account"),
    PutVersion("transaction", {"posted"}, "voided", "read", VoidKinds),
    Insert("transaction")>>

VoidTransaction ==
  <<Writer, Replay, ReadTransaction, Is("transaction", {"posted", "frozen", "voided"}, "draft"),
    Is("transaction", {"posted", "frozen"}, "voided"),
    Is("transaction", {"posted"}, "reconciled"),
    Match("transaction", "versionConflict")>>
  \o WriteVoided \o <<Record(200)>>

PostTransactionVoid ==
  Endpoint({400, 412, 422}, VoidTransaction, 200,
    [forbidden |-> 403, notFound |-> 404, draft |-> 409, voided |-> 409,
     reconciled |-> 409, versionConflict |-> 412, keyConflict |-> 409])

GetTransaction ==
  Endpoint({400}, <<Member, ReadTransaction>>, 200, [forbidden |-> 403, notFound |-> 404])

\* Both accounts are locked, in the order of their ids, before they are read;
\* here the two are one row.
LockAndReadAccounts == LockAndReadAccount

MoveBetweenAccounts ==
  <<Writer, Replay>> \o LockAndReadAccounts \o OpenAccount
  \o <<Insert("transaction"), Record(201)>>

BetweenAccounts ==
  [forbidden |-> 403, accountUnresolved |-> 422, accountClosed |-> 422,
   currencyMismatch |-> 422, keyConflict |-> 409]

CreateTransfer == MoveBetweenAccounts
CreateExchange == MoveBetweenAccounts

PostTransfers == Endpoint({400, 422}, CreateTransfer, 201, BetweenAccounts)
PostCurrencyExchanges == Endpoint({400, 422}, CreateExchange, 201, BetweenAccounts)

-----------------------------------------------------------------------------
(* Reconciliations *)

\* One open reconciliation of an account: reconciliations_one_open_per_account_idx.
InsertReconciliation ==
  <<Throwing(Ask("accountNotFound")), Throwing(Ask("amountOutOfRange")),
    InsertUnique("reconciliation", "openExists")>>

CreateReconciliation ==
  <<Writer, Replay, LockOn("account"), Find("account", "accountNotFound"),
    Is("account", {"open"}, "accountClosed"), Ask("currencyMismatch"),
    Ask("futureStatementDate"), Ask("amountOutOfRange")>>
  \o InsertReconciliation \o <<Record(201)>>

PostReconciliations ==
  Endpoint({400, 422}, CreateReconciliation, 201,
    [forbidden |-> 403, keyConflict |-> 409, openExists |-> 409,
     accountNotFound |-> 422, accountClosed |-> 422, currencyMismatch |-> 422,
     futureStatementDate |-> 422, amountOutOfRange |-> 422])

FindReconciliation == Find("reconciliation", "notFound")

GetReconciliation ==
  Endpoint({400}, <<Member, FindReconciliation>>, 200,
           [forbidden |-> 403, notFound |-> 404])

\* Find the account, lock it, and read again.
LockAndReadCompletion ==
  <<FindReconciliation, LockOn("account"),
    Throwing(Find("account", "transactionsInvalid")),
    Throwing(Is("account", {"open"}, "transactionsInvalid")), FindReconciliation>>

\* The transactions that are frozen, and the adjustment of the difference.
ReconcileTransactions ==
  <<Throwing(Ask("transactionsInvalid")), Insert("transaction")>>

\* Faulty variant: the reconciliation is looked at after its transactions.
CompleteReconciliationLate ==
  <<Writer, Replay>> \o LockAndReadCompletion
  \o <<Ask("adjustmentInvalid"), Throwing(Ask("amountOutOfRange")),
       Ask("transactionsInvalid")>>
  \o ReconcileTransactions
  \o <<PutIf("reconciliation", {"open"}, "final",
             [absent |-> "alreadyFinal", final |-> "alreadyFinal"]),
       Record(200)>>

\* That no row is completed is returned after the writes: the lock of the account
\* and the second read exclude it, unless the caller has lost the role since.
CompleteReconciliation ==
  <<Writer, Replay>> \o LockAndReadCompletion
  \o <<Is("reconciliation", {"open"}, "alreadyFinal"), Ask("adjustmentInvalid"),
       Throwing(Ask("amountOutOfRange")), Ask("transactionsInvalid")>>
  \o ReconcileTransactions
  \o <<PutIf("reconciliation", {"open"}, "final",
             [absent |-> "alreadyFinal", final |-> "alreadyFinal"]),
       Record(200)>>

PostReconciliationComplete ==
  Endpoint({400, 422}, CompleteReconciliation, 200,
    [forbidden |-> 403, notFound |-> 404, alreadyFinal |-> 409, keyConflict |-> 409,
     transactionsInvalid |-> 422, adjustmentInvalid |-> 422, amountOutOfRange |-> 422])

-----------------------------------------------------------------------------
(* Catalogs and exchange rates: names and rates are unique *)

InsertTag      == InsertUnique("tag", "conflict")
InsertPayee    == InsertUnique("payee", "conflict")
InsertCategory == InsertUnique("category", "conflict")
InsertRate     == InsertUnique("rate", "alreadyRecorded")

CreateTag      == <<Writer, Replay, InsertTag, Record(201)>>
CreatePayee    == <<Writer, Replay, InsertPayee, Record(201)>>
CreateCategory ==
  <<Writer, Replay, Throwing(Ask("parentNotFound")), InsertCategory, Record(201)>>
CreateRate     == <<Writer, Replay, InsertRate, Record(201)>>

Named == [forbidden |-> 403, keyConflict |-> 409, conflict |-> 409]

PostTags   == Endpoint({400, 422}, CreateTag, 201, Named)
PostPayees == Endpoint({400, 422}, CreatePayee, 201, Named)

PostCategories ==
  Endpoint({400, 422}, CreateCategory, 201,
    [forbidden |-> 403, keyConflict |-> 409, conflict |-> 409, parentNotFound |-> 422])

PostExchangeRates ==
  Endpoint({400, 422}, CreateRate, 201,
    [forbidden |-> 403, keyConflict |-> 409, alreadyRecorded |-> 409])

AccountOperations ==
  [createAccount          |-> PostAccounts,
   updateAccount          |-> PatchAccount,
   closeAccount           |-> PostAccountClose,
   getAccount             |-> GetAccount,
   getAccountBalance      |-> GetAccountBalance,
   createTransaction      |-> PostTransactions,
   updateTransaction      |-> PatchTransaction,
   voidTransaction        |-> PostTransactionVoid,
   getTransaction         |-> GetTransaction,
   createTransfer         |-> PostTransfers,
   createCurrencyExchange |-> PostCurrencyExchanges,
   createReconciliation   |-> PostReconciliations,
   getReconciliation      |-> GetReconciliation,
   completeReconciliation |-> PostReconciliationComplete,
   createTag              |-> PostTags,
   createPayee            |-> PostPayees,
   createCategory         |-> PostCategories,
   createExchangeRate     |-> PostExchangeRates]
=============================================================================
