-------------------------- MODULE PlanningCommands --------------------------
(***************************************************************************)
(* The commands about plans and what is computed from the books: budgets,  *)
(* funds, debts, recurring rules, scenarios, reports, forecasts, exports.  *)
(***************************************************************************)
EXTENDS CommandSteps

(* Budgets *)

\* The trigger on budgets refuses a currency without a rate.
CreateBudget ==
  <<Writer, Replay, Ask("invalidSource"), Ask("tooManyAllocations"),
    Throwing(Ask("currencyUnsupported")), Insert("budget"), Record(201)>>

PostBudgets ==
  Endpoint({400, 422}, CreateBudget, 201,
    [forbidden |-> 403, keyConflict |-> 409, invalidSource |-> 422,
     tooManyAllocations |-> 422, currencyUnsupported |-> 422])

FindBudget == Find("budget", "notFound")

GetBudget ==
  Endpoint({400}, <<Member, FindBudget>>, 200, [forbidden |-> 403, notFound |-> 404])

\* update ... where version is the one that was read, if the request has If-Match.
WriteBudget ==
  PutVersion("budget", {"present"}, Same, "header",
             [absent |-> "preconditionFailed", stale |-> "preconditionFailed"])

UpdateBudget ==
  <<Writer, Replay, FindBudget, Match("budget", "preconditionFailed"),
    WriteBudget, Record(200)>>

PatchBudget ==
  Endpoint({400, 422}, UpdateBudget, 200,
    [forbidden |-> 403, notFound |-> 404, preconditionFailed |-> 412,
     keyConflict |-> 409])

\* The version and then the allocations, which are deleted and written again.
UpdateBudgetAllocations ==
  <<Writer, Replay, FindBudget, Match("budget", "preconditionFailed"),
    Ask("invalidAllocations"), WriteBudget, Record(200)>>

PutBudgetAllocations ==
  Endpoint({400, 422}, UpdateBudgetAllocations, 200,
    [forbidden |-> 403, notFound |-> 404, preconditionFailed |-> 412,
     invalidAllocations |-> 422, keyConflict |-> 409])

-----------------------------------------------------------------------------
(* Funds and debts *)

CreateFund ==
  <<Writer, Replay, LockOn("account"), Find("account", "linkedAccountNotFound"),
    Insert("fund"), Record(201)>>

PostFunds ==
  Endpoint({400, 422}, CreateFund, 201,
    [forbidden |-> 403, keyConflict |-> 409, linkedAccountNotFound |-> 422])

\* A transaction with its postings and its link to the fund or the debt.
PayFromAccount(table) ==
  <<Writer, Replay, Find(table, "notFound"), Ask("currencyMismatch"), LockOn("account"),
    Find("account", "accountNotFound"), Is("account", {"open"}, "accountClosed"),
    Ask("accountCurrencyMismatch"), Insert("transaction"), Record(201)>>

FromAccount ==
  [forbidden |-> 403, notFound |-> 404, currencyMismatch |-> 422,
   accountNotFound |-> 422, accountClosed |-> 422, accountCurrencyMismatch |-> 422,
   keyConflict |-> 409]

ContributeToFund  == PayFromAccount("fund")
CreateDebtPayment == PayFromAccount("debt")

PostFundContributions == Endpoint({400, 422}, ContributeToFund, 201, FromAccount)

CreateDebt == <<Writer, Replay, Insert("debt"), Record(201)>>

PostDebts == Endpoint({400, 422}, CreateDebt, 201, [forbidden |-> 403, keyConflict |-> 409])

PostDebtPayments == Endpoint({400, 422}, CreateDebtPayment, 201, FromAccount)

-----------------------------------------------------------------------------
(* Recurring rules and scenarios *)

CreateRecurringRule ==
  <<Writer, Replay, Ask("categoryNotFound"), Ask("payeeNotFound"), Ask("tagNotFound"),
    Throwing(Ask("accountNotFound")), Insert("rule"), Record(201)>>

PostRecurringRules ==
  Endpoint({400, 422}, CreateRecurringRule, 201,
    [forbidden |-> 403, keyConflict |-> 409, accountNotFound |-> 422,
     categoryNotFound |-> 422, payeeNotFound |-> 422, tagNotFound |-> 422])

CreateScenario == <<Writer, Replay, Insert("scenario"), Record(201)>>

PostScenarios ==
  Endpoint({400, 422}, CreateScenario, 201, [forbidden |-> 403, keyConflict |-> 409])

\* The run is inserted, and becomes the last one of the scenario.
RunScenario ==
  <<Writer, Replay, Find("scenario", "notFound"), Ask("forbidden"), Ask("missingRate"),
    Insert("scenarioRun"), Put("scenario", {"present"}, Same), Record(200)>>

PostScenarioRuns ==
  Endpoint({400, 422}, RunScenario, 200,
    [forbidden |-> 403, notFound |-> 404, missingRate |-> 422, keyConflict |-> 409])

-----------------------------------------------------------------------------
(* Reports, forecasts and exports: a row and the job that fills it *)

CreateReportDefinition == <<Writer, Replay, Insert("definition"), Record(201)>>

PostReportDefinitions ==
  Endpoint({400, 422}, CreateReportDefinition, 201,
           [forbidden |-> 403, keyConflict |-> 409])

\* A run of a definition, or of the definition the request holds.
CreateReportRun ==
  <<Writer, Replay, Ask("unprocessable"), Ask("forbidden"), Insert("job"),
    Insert("report"), Record(202)>>

PostReportRuns ==
  Endpoint({400, 422}, CreateReportRun, 202,
           [forbidden |-> 403, keyConflict |-> 409, unprocessable |-> 422])

GetReportRun ==
  Endpoint({400}, <<Member, Find("report", "notFound")>>, 200,
           [forbidden |-> 403, notFound |-> 404])

CreateBalanceForecast ==
  <<Writer, Replay, Ask("forbidden"), Ask("unprocessable"), Insert("job"),
    Insert("forecast"), Record(202)>>

PostForecasts ==
  Endpoint({400, 422}, CreateBalanceForecast, 202,
           [forbidden |-> 403, keyConflict |-> 409, unprocessable |-> 422])

GetForecast ==
  Endpoint({400}, <<Member, Find("forecast", "notFound")>>, 200,
           [forbidden |-> 403, notFound |-> 404])

\* A resource that cannot be exported is refused before the transaction begins.
CreateExportJob ==
  <<Ask("unsupported"), Writer, Replay, Insert("job"), Insert("export"), Record(202)>>

PostExportJobs ==
  Endpoint({400, 422}, CreateExportJob, 202,
           [forbidden |-> 403, keyConflict |-> 409, unsupported |-> 422])

GetExportJob ==
  Endpoint({400}, <<Member, Find("export", "notFound")>>, 200,
           [forbidden |-> 403, notFound |-> 404])

PlanningOperations ==
  [createBudget            |-> PostBudgets,
   getBudget               |-> GetBudget,
   updateBudget            |-> PatchBudget,
   updateBudgetAllocations |-> PutBudgetAllocations,
   createFund              |-> PostFunds,
   contributeToFund        |-> PostFundContributions,
   createDebt              |-> PostDebts,
   createDebtPayment       |-> PostDebtPayments,
   createRecurringRule     |-> PostRecurringRules,
   createScenario          |-> PostScenarios,
   runScenario             |-> PostScenarioRuns,
   createReportDefinition  |-> PostReportDefinitions,
   createReportRun         |-> PostReportRuns,
   getReportRun            |-> GetReportRun,
   createBalanceForecast   |-> PostForecasts,
   getForecast             |-> GetForecast,
   createExportJob         |-> PostExportJobs,
   getExportJob            |-> GetExportJob]
=============================================================================
