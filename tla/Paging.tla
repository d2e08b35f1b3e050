------------------------------- MODULE Paging -------------------------------
(***************************************************************************)
(* Lists read page by page.  Every list is ordered by an instant and then  *)
(* by id; a page is one statement in a read transaction, asks for a row    *)
(* more than its limit, and answers a cursor made of the instant and the   *)
(* id of its last row.  Rows are written, changed and moved between pages; *)
(* an instant is that of the start of a transaction, so that a row may     *)
(* appear behind the cursor of a walk that has passed it.                  *)
(*                                                                         *)
(* PostgreSQL keeps instants in microseconds.  Most lists render a cursor  *)
(* with to_char in microseconds; two render it with toISOString, in        *)
(* milliseconds.  A list is what three places of the code make of it: the  *)
(* order of its statement, the cursor its service makes, and the binding   *)
(* its query expects of a cursor.                                          *)
(***************************************************************************)
EXTENDS Naturals, FiniteSets

CONSTANTS
  ListNames,     \* the lists looked at
  MaxRow,        \* rows; their numbers stand for the order of their ids
  LastPlace,     \* instants are 0..LastPlace, in microseconds
  MaxLimit,      \* rows a page shows at most
  MaxChanges     \* bound: changes of a row's place or of what a filter sees

ASSUME PagingAssumption ==
  /\ MaxRow \in Nat /\ LastPlace \in Nat /\ MaxLimit \in Nat \ {0}
  /\ MaxChanges \in Nat

VARIABLES
  list,       \* the list being read
  row,        \* the rows committed: their place, and whether the filter shows them
  member,     \* the reader is an active member of the workspace
  changes,    \* changes made
  walk        \* a client following cursors

pageVars == <<list, row, member, changes, walk>>

-----------------------------------------------------------------------------
(* The lists.  Micro and Milli are the grain of a cursor, in microseconds  *)
(* (a millisecond is two here).                                            *)

Micro == 1
Milli == 2

\* The order of a statement: by creation, which never changes, as it is for
\* all but transactions; whether the client may filter by what can change.
ByCreation(filters) == [downward |-> FALSE, moves |-> FALSE, filters |-> filters]

WorkspaceRows        == ByCreation(FALSE)
RosterRows           == ByCreation(FALSE)
InvitationRows       == ByCreation(FALSE)
AccountRows          == ByCreation(TRUE)
TransactionRows      == [downward |-> TRUE, moves |-> TRUE, filters |-> TRUE]
TagRows              == ByCreation(FALSE)
PayeeRows            == ByCreation(FALSE)
CategoryRows         == ByCreation(FALSE)
BudgetRows           == ByCreation(TRUE)
FundRows             == ByCreation(FALSE)
DebtRows             == ByCreation(FALSE)
ScenarioRows         == ByCreation(FALSE)
ReportDefinitionRows == ByCreation(FALSE)
RecurringRuleRows    == ByCreation(FALSE)
SubscriptionRows     == ByCreation(TRUE)
NotificationRows     == ByCreation(TRUE)
McpGrantRows         == ByCreation(FALSE)
ConversationRows     == ByCreation(FALSE)

\* What a service asks of the reader and puts in a cursor.
ForMembers(binds, grain) == [members |-> TRUE, binds |-> binds, grain |-> grain]
ForTheSubject(grain)     == [members |-> FALSE, binds |-> {}, grain |-> grain]

ListWorkspaces            == ForTheSubject(Micro)
ListWorkspaceMembers      == ForMembers({"workspace"}, Micro)
ListWorkspaceInvitations  == ForMembers({}, Micro)
ListAccounts              == ForMembers({}, Micro)
ListTransactions          == ForMembers({}, Micro)
ListTags                  == ForMembers({"workspace"}, Micro)
ListPayees                == ForMembers({"workspace"}, Micro)
ListCategories            == ForMembers({"workspace"}, Micro)
ListBudgets               == ForMembers({"workspace", "filter"}, Micro)
ListFunds                 == ForMembers({"workspace"}, Micro)
ListDebts                 == ForMembers({"workspace"}, Micro)
ListScenarios             == ForMembers({"workspace"}, Micro)
ListReportDefinitions     == ForMembers({"workspace"}, Micro)
ListRecurringRules        == ForMembers({"workspace"}, Micro)
ListSubscriptions         == ForMembers({"workspace", "filter"}, Micro)
ListNotifications         == ForTheSubject(Micro)
ListMcpGrants             == ForTheSubject(Milli)
ListAgentConversations    == ForMembers({"workspace"}, Milli)

\* What the query of a request expects a cursor to be bound to.
WorkspacesQuery           == {}
MembersQuery              == {"workspace"}
InvitationsQuery          == {}
AccountListQuery          == {}
TransactionListQuery      == {}
CatalogListQuery          == {"workspace"}
BudgetListQuery           == {"workspace", "filter"}
FundListQuery             == {"workspace"}
DebtListQuery             == {"workspace"}
ScenarioListQuery         == {"workspace"}
ReportListQuery           == {"workspace"}
RecurringRuleListQuery    == {"workspace"}
SubscriptionListQuery     == {"workspace", "filter"}
NotificationListQuery     == {}
McpGrantsQuery            == {}
ConversationsQuery        == {"workspace"}

Listing(rows, service, query) == [rows |-> rows, service |-> service, query |-> query]

Lists == [
  workspaces    |-> Listing(WorkspaceRows, ListWorkspaces, WorkspacesQuery),
  members       |-> Listing(RosterRows, ListWorkspaceMembers, MembersQuery),
  invitations   |-> Listing(InvitationRows, ListWorkspaceInvitations, InvitationsQuery),
  accounts      |-> Listing(AccountRows, ListAccounts, AccountListQuery),
  transactions  |-> Listing(TransactionRows, ListTransactions, TransactionListQuery),
  tags          |-> Listing(TagRows, ListTags, CatalogListQuery),
  payees        |-> Listing(PayeeRows, ListPayees, CatalogListQuery),
  categories    |-> Listing(CategoryRows, ListCategories, CatalogListQuery),
  budgets       |-> Listing(BudgetRows, ListBudgets, BudgetListQuery),
  funds         |-> Listing(FundRows, ListFunds, FundListQuery),
  debts         |-> Listing(DebtRows, ListDebts, DebtListQuery),
  scenarios     |-> Listing(ScenarioRows, ListScenarios, ScenarioListQuery),
  reports       |-> Listing(ReportDefinitionRows, ListReportDefinitions, ReportListQuery),
  recurring     |-> Listing(RecurringRuleRows, ListRecurringRules, RecurringRuleListQuery),
  subscriptions |-> Listing(SubscriptionRows, ListSubscriptions, SubscriptionListQuery),
  notifications |-> Listing(NotificationRows, ListNotifications, NotificationListQuery),
  mcpGrants     |-> Listing(McpGrantRows, ListMcpGrants, McpGrantsQuery),
  conversations |-> Listing(ConversationRows, ListAgentConversations, ConversationsQuery)]

ListRows == Lists[list].rows
Svc      == Lists[list].service
Expected == Lists[list].query

-----------------------------------------------------------------------------
RowIds == 1..MaxRow
Absent   == [place |-> 0, shown |-> FALSE, there |-> FALSE]
NoCursor == [at |-> 0, id |-> 0, binds |-> {}, first |-> TRUE]

PageTypeOK ==
  /\ list \in ListNames
  /\ row \in [RowIds -> [place : 0..LastPlace, shown : BOOLEAN, there : BOOLEAN]]
  /\ member \in BOOLEAN
  /\ changes \in 0..MaxChanges
  /\ walk.pc \in {"new", "going", "done", "refused", "forbidden"}
  /\ walk.seen \in [RowIds -> Nat]
  /\ walk.kept \subseteq RowIds

PageInit ==
  /\ list \in ListNames
  /\ row = [r \in RowIds |-> Absent]
  /\ member = TRUE
  /\ changes = 0
  /\ walk = [pc |-> "new", cursor |-> NoCursor, seen |-> [r \in RowIds |-> 0],
             kept |-> {}, strayed |-> FALSE]

\* A transaction that writes a row commits; its place is when it began.
WriteRow(r) ==
  /\ ~row[r].there
  /\ \E p \in 0..LastPlace :
       row' = [row EXCEPT ![r] = [place |-> p, shown |-> TRUE, there |-> TRUE]]
  /\ UNCHANGED <<list, member, changes, walk>>

\* A change of a status, or of the date of a transaction: the walk owes
\* nothing for this row any more.
ChangeRow(r) ==
  /\ row[r].there
  /\ changes < MaxChanges
  /\ changes' = changes + 1
  /\ \/ /\ ListRows.filters
        /\ row' = [row EXCEPT ![r].shown = ~@]
     \/ /\ ListRows.moves
        /\ \E p \in 0..LastPlace \ {row[r].place} : row' = [row EXCEPT ![r].place = p]
  /\ walk' = [walk EXCEPT !.kept = @ \ {r}]
  /\ UNCHANGED <<list, member>>

Suspend ==
  /\ member
  /\ member' = FALSE
  /\ UNCHANGED <<list, row, changes, walk>>

Visible == {r \in RowIds : row[r].there /\ row[r].shown}

\* (created_at, id) > ($1, $2), or for transactions
\* occurred_at < $1 or (occurred_at = $1 and id > $2)
After(place, id, cursor) ==
  \/ IF ListRows.downward THEN place < cursor.at ELSE place > cursor.at
  \/ place = cursor.at /\ id > cursor.id

\* Faulty variant: the cursor compares instants alone.
RemainingInstants ==
  {r \in Visible : walk.cursor.first \/ After(row[r].place, MaxRow + 1 - r,
                    [walk.cursor EXCEPT !.id = MaxRow + 1])}

Remaining == {r \in Visible : walk.cursor.first \/ After(row[r].place, r, walk.cursor)}

Earlier(r, S) ==
  {s \in S : After(row[r].place, r, [at |-> row[s].place, id |-> s])}

\* order by ... limit n
FirstOf(S, n) == {r \in S : Cardinality(Earlier(r, S)) < n}

\* encodeCursor of the last row: its instant, cut to the grain of the list.
EncodeCursor(r) ==
  [at |-> (row[r].place \div Svc.grain) * Svc.grain, id |-> r,
   binds |-> Svc.binds, first |-> FALSE]

\* decodeCursor: the shape is the one expected, and what it binds is the same.
\* "changed" is what the client asks for now that it did not before.
Accepts(cursor, changed) ==
  cursor.first \/ (cursor.binds = Expected /\ cursor.binds \cap changed = {})

\* One request for the next page.  A client that changes the workspace or the
\* filter and keeps its cursor is refused, or is owed nothing.
ReadPage(limit, changed) ==
  /\ walk.pc \in {"new", "going"}
  /\ walk.pc = "new" => changed = {}
  /\ LET page == FirstOf(Remaining, limit)
         more == Cardinality(Remaining) > limit
         last == CHOOSE r \in page : Earlier(r, page) = page \ {r}
     IN walk' =
       IF ~Accepts(walk.cursor, changed)
         THEN [walk EXCEPT !.pc = "refused", !.strayed = changed # {}]
       ELSE IF Svc.members /\ ~member
         THEN [walk EXCEPT !.pc = "forbidden"]
       ELSE [pc |-> IF more THEN "going" ELSE "done",
             cursor |-> IF more THEN EncodeCursor(last) ELSE walk.cursor,
             seen |-> [r \in RowIds |-> walk.seen[r] + (IF r \in page THEN 1 ELSE 0)],
             kept |-> IF walk.pc = "new" THEN Visible
                      ELSE IF changed # {} THEN {} ELSE walk.kept,
             strayed |-> walk.strayed]
  /\ UNCHANGED <<list, row, member, changes>>

PageNext ==
  \/ \E r \in RowIds : WriteRow(r) \/ ChangeRow(r)
  \/ Suspend
  \/ \E limit \in 1..MaxLimit, changed \in SUBSET {"workspace", "filter"} :
       ReadPage(limit, changed)

PageSpec == PageInit /\ [][PageNext]_pageVars

-----------------------------------------------------------------------------
(* A walk to the end of a list shows every row that was there when it      *)
(* began and has not changed since, and shows it once: rows may share an   *)
(* instant, appear behind the walk, move or leave the filter meanwhile,    *)
(* and the limit may differ from page to page.  A client that keeps to its *)
(* list is never refused the cursor it was given.                          *)
WalksListEachRowOnce ==
  /\ \A r \in walk.kept : walk.seen[r] <= 1 /\ (walk.pc = "done" => walk.seen[r] = 1)
  /\ walk.pc = "refused" => walk.strayed
=============================================================================
