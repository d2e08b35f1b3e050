-------------------------- MODULE CommandCatalogue --------------------------
(***************************************************************************)
(* The catalogue of the API: each operation by its name, with its steps    *)
(* and the status it answers each refusal with.                            *)
(***************************************************************************)
EXTENDS AccountCommands, IdentityCommands, PlanningCommands, TLC

Operations ==
  AccountOperations @@ IdentityOperations @@ PlanningOperations

\* Rows their owner may update in any role.
OwnTables == {"profile", "grant", "notification"}

\* Commands that write before an update which row security may hide.
LeftByHalf == {"completeReconciliation", "revokeCredential"}

NoAnswer == 0   \* no status yet
=============================================================================
