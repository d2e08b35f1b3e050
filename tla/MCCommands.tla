----------------------------- MODULE MCCommands -----------------------------
\* Small instances of the modules about commands that meet, of which a behaviour
\* runs one: the catalogue of commands, imports, lists, approvals, devices, the
\* dates of recurring rules and the browsers of renders that try once each.
EXTENDS Commands, Imports, Paging, Approvals, CliDevices, Occurrence,
        PdfRenderer, TLC
CONSTANTS f1, f2, l1, l2, l3,              \* files and their lines
          c1, c2, c3, acc1, acc2,          \* commits and accounts
          d1, d2, d3, s1, s2               \* decisions and subjects

VARIABLE part   \* the module that runs

sumVars == <<part, commandVars, importVars, pageVars, approvalVars, deviceVars,
             scheduleVars, renderVars>>

(* Commands: each alone, sent twice and under a key used before, and the     *)
(* pairs that write the same rows or check what the other writes             *)

Rivals ==
  {<<"closeAccount", "updateAccount">>, <<"closeAccount", "closeAccount">>,
   <<"closeAccount", "createTransaction">>, <<"closeAccount", "createTransfer">>,
   <<"closeAccount", "createReconciliation">>,
   <<"closeAccount", "completeReconciliation">>,
   <<"closeAccount", "contributeToFund">>, <<"closeAccount", "createDebtPayment">>,
   <<"closeAccount", "createFund">>,
   <<"updateTransaction", "voidTransaction">>,
   <<"updateTransaction", "updateTransaction">>,
   <<"voidTransaction", "voidTransaction">>,
   <<"completeReconciliation", "completeReconciliation">>,
   <<"createReconciliation", "createReconciliation">>,
   <<"createCategory", "createCategory">>,
   <<"updateBudget", "updateBudgetAllocations">>, <<"updateBudget", "updateBudget">>,
   <<"updateWorkspace", "deleteWorkspace">>, <<"deleteWorkspace", "deleteWorkspace">>,
   <<"updateWorkspace", "updateWorkspace">>,
   <<"createInvitation", "createInvitation">>,
   <<"createInvitation", "revokeInvitation">>,
   <<"revokeInvitation", "revokeInvitation">>,
   <<"updateProfile", "updateProfile">>, <<"revokeMcpGrant", "revokeMcpGrant">>,
   <<"setDefaultModel", "revokeCredential">>,
   <<"setDefaultModel", "updateCredential">>,
   <<"updateCredential", "revokeCredential">>,
   <<"setDefaultModel", "setDefaultModel">>}

Commanded == {o \in DOMAIN Operations :
                \E i \in 1..Len(Operations[o].steps) :
                  Operations[o].steps[i].do \in {"insert", "unique", "put", "put_if"}}

MCScenarios ==
  {[kind |-> "alone", ops |-> <<o, o>>] : o \in DOMAIN Operations}
  \cup [kind : {"retry", "reuse"}, ops : {<<o, o>> : o \in Commanded}]
  \cup [kind : {"rivals"}, ops : Rivals]

(* The others *)

MCFileOf    == [p \in Importers |-> IF p = c3 THEN f2 ELSE f1]
MCAccountOf == [p \in Commits |-> IF p = c2 THEN acc2 ELSE acc1]

\* Every line says the same, two of them in one file; those two are alike.
MCLinesOf   == [f \in Files |-> IF f = f1 THEN {l1, l2} ELSE {l3}]
MCLineRow   == [l \in Lines |-> [amount |-> 1, text |-> "x"]]
MCSymmetry  == Permutations({l1, l2})

MCDecider == [d \in Deciders |-> IF d = d3 THEN s2 ELSE s1]
MCDecides == [d \in Deciders |-> IF d = d3 THEN "rejected" ELSE "approved"]
MCKey     == [d \in Deciders |-> "k"]

\* The lists whose cursors keep every digit of the order.
MCLists == DOMAIN Lists \ {"mcpGrants", "conversations"}

\* Rules of every kind; years round 2096, a leap year, and 2100, which is none.
MCRules ==
  {daily, weekly, biweekly, monthly, yearly, Plain("DAILY", 3), Plain("MONTHLY", 5)}
  \cup {[Plain("WEEKLY", n) EXCEPT !.byDay = days] :
           n \in {1, 3}, days \in {{0}, {6}, {1, 3, 5}}}
  \cup {[Plain("MONTHLY", n) EXCEPT !.byMonthDay = d] : n \in {1, 7}, d \in {15, 31, -1, -30}}
  \cup {[Plain("YEARLY", n) EXCEPT !.byMonth = m, !.byMonthDay = d] :
           n \in {1, 2}, m \in {0, 2}, d \in {0, 30, -29}}

\* 31 January and 29 February 2096, 30 December 2099, and a Wednesday.
MCStarts == {30, 59, 1459, 500}
MCDelays == {-3, 0, 28, 60, 365, 700}

\* Of a module that does not run, one initial state.
SumInit ==
  /\ part \in {"commands", "imports", "lists", "approvals", "devices", "schedules",
              "renders"}
  /\ CommandInit
  /\ part # "commands" =>
       /\ scene = [kind |-> "alone", ops |-> <<"onboard", "onboard">>]
       /\ \A t \in DOMAIN rows : rows[t].state = "absent"
  /\ PageInit
  /\ part # "lists" => list = "tags"
  /\ ImportInit /\ ApprovalInit /\ DeviceInit /\ RendererInit
  /\ IF part = "schedules" THEN ScheduleInit
     ELSE /\ schedule = [rule |-> daily, start |-> 30, now |-> 30, ends |-> 0]
          /\ occurrence = schedule.start /\ iterations = 0 /\ verdict = "new"

SumNext ==
  /\ UNCHANGED part
  /\ \/ part = "commands"  /\ CommandNext
     \/ part = "imports"   /\ ImportNext
     \/ part = "lists"     /\ PageNext
     \/ part = "approvals" /\ ApprovalNext
     \/ part = "devices"   /\ DeviceNext
     \/ part = "schedules" /\ ScheduleNext
     \/ part = "renders"   /\ RendererNext
  /\ part # "commands"  => UNCHANGED commandVars
  /\ part # "imports"   => UNCHANGED importVars
  /\ part # "lists"     => UNCHANGED pageVars
  /\ part # "approvals" => UNCHANGED approvalVars
  /\ part # "devices"   => UNCHANGED deviceVars
  /\ part # "schedules" => UNCHANGED scheduleVars
  /\ part # "renders"   => UNCHANGED renderVars

SumSpec == SumInit /\ [][SumNext]_sumVars
=============================================================================
