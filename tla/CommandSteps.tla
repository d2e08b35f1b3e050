---------------------------- MODULE CommandSteps ----------------------------
(***************************************************************************)
(* What the commands of the API are made of.  A service is the sequence of *)
(* the statements and checks of its transaction, in the order of the code; *)
(* a step that does not go through refuses the command with a kind, which  *)
(* the controller turns into a status.  An endpoint is a controller around *)
(* a service: the statuses it rejects malformed requests with, the status  *)
(* of success and the status of every kind it handles.                     *)
(*                                                                         *)
(* A step names the table it reads or writes.  Of each table the steps     *)
(* tell apart the one row a command is about and the rows it adds.         *)
(***************************************************************************)
EXTENDS Integers, Sequences

\* The states of the row a command is about; "absent" also stands for a row
\* that row level security hides.
RowStates ==
  [account        |-> {"absent", "open", "closed"},
   reconciliation |-> {"absent", "open", "final"},
   workspace      |-> {"absent", "shared", "personal"},
   membership     |-> {"absent", "active", "suspended"},
   invitation     |-> {"absent", "pending", "expired", "revoked"},
   grant          |-> {"absent", "active", "revoked"},
   credential     |-> {"absent", "active", "inactive", "revoked"},
   transaction    |-> {"absent", "draft", "posted", "frozen", "voided"},
   profile        |-> {"absent", "present"},
   budget         |-> {"absent", "present"},
   fund           |-> {"absent", "present"},
   debt           |-> {"absent", "present"},
   scenario       |-> {"absent", "present"},
   scenarioRun    |-> {"absent", "present"},
   definition     |-> {"absent", "present"},
   notification   |-> {"absent", "present"},
   defaultModel   |-> {"absent", "present"},
   category       |-> {"absent", "present"},
   payee          |-> {"absent", "present"},
   tag            |-> {"absent", "present"},
   rate           |-> {"absent", "present"},
   rule           |-> {"absent", "present"},
   export         |-> {"absent", "present"},
   report         |-> {"absent", "present"},
   forecast       |-> {"absent", "present"},
   conversation   |-> {"absent", "present"},
   job            |-> {"absent", "present"}]

Tables == DOMAIN RowStates

-----------------------------------------------------------------------------
(* Steps that read *)

\* A check of what the steps do not tell apart (a role, a currency, a limit,
\* a row hidden from the caller): it may refuse.
Ask(kind) == [do |-> "ask", kind |-> kind]

\* Read the record of the key, and answer from it or refuse its reuse.
Replay == [do |-> "replay", kind |-> "keyConflict", keeps |-> FALSE]

\* The same, by a service that also records its refusals under the key.
ReplayAny == [do |-> "replay", kind |-> "keyConflict", keeps |-> TRUE]

\* Read the row, which must be there.
Find(table, kind) == [do |-> "find", table |-> table, kind |-> kind]

\* Read the row, if it is there.
Look(table) == [do |-> "find", table |-> table]

\* Take the advisory lock of the row.
LockOn(table) == [do |-> "lock", table |-> table]

\* The row, as it was read, must be in one of these states.
Is(table, states, kind) ==
  [do |-> "is", table |-> table, in |-> states, kind |-> kind]

\* The row, as it was read, must have a version If-Match names, when the
\* request has that header.
Match(table, kind) == [do |-> "match", table |-> table, kind |-> kind]

(* Steps that write *)

\* The step refuses by an exception, which rolls the transaction back.
Throwing(step) == [f \in DOMAIN step \cup {"throws"} |->
                     IF f = "throws" THEN TRUE ELSE step[f]]

Insert(table) == [do |-> "insert", table |-> table]

\* An insert that a unique index may refuse, under a savepoint.
InsertSaved(table, kind) == [do |-> "unique", table |-> table, kind |-> kind]

\* The same without one: the failed statement dooms the transaction.
InsertUnique(table, kind) == Throwing(InsertSaved(table, kind))

\* A write that leaves the state as it is.
Same == "same"

\* update, delete or upsert of the row where it is in these states; that no row
\* is written is no error.
Put(table, states, state) ==
  [do |-> "put", table |-> table, in |-> states, to |-> state]

\* A write that only tidies up, and may stay when the command is refused.
Tidy(table, states, state) ==
  [do |-> "put", table |-> table, in |-> states, to |-> state, tidies |-> TRUE]

\* The row is written where it is in these states; if no row is, the command is
\* refused with the kind of the state it is found in then.
PutIf(table, states, state, zero) ==
  [do |-> "put_if", table |-> table, in |-> states, to |-> state, zero |-> zero,
   version |-> "any"]

\* The same, and where the version is one If-Match names ("header"); or, when
\* there is no such header, the version that was read ("read"); or a version the
\* request must name ("sent").
PutVersion(table, states, state, version, zero) ==
  [do |-> "put_if", table |-> table, in |-> states, to |-> state, zero |-> zero,
   version |-> version]

\* Write the status of the answer under the key.
Record(status) == [do |-> "record", status |-> status]

-----------------------------------------------------------------------------

Endpoint(rejects, service, ok, answers) ==
  [rejects |-> rejects, steps |-> service, ok |-> ok, answers |-> answers]

\* The roles that may write in a workspace, and any role.
Writer == Ask("forbidden")
Member == Ask("forbidden")
=============================================================================
