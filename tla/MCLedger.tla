------------------------------ MODULE MCLedger ------------------------------
\* Small instances of Ledger; and TLC finds the shapes of all commands, those of
\* the ledger and the others, as OperationShapes assumes them.
EXTENDS Ledger, OperationShapes, TLC

CONSTANTS t1, t2, q1, q2, Patch

Posts(T, S)  == [op : {"create"}, txn : T, status : S]
Voids(T, V)  == [op : {"void"}, txn : T, versions : V]
Edits(T, V)  == [op : {"update"}, txn : T, versions : V, status : Patch]
Opens(Q, A)  == [op : {"open"}, recon : Q, account : A]
Closes(A)    == [op : {"close"}, account : A]
Completes(Q, C, J) == [op : {"complete"}, recon : Q, txns : C, adjustment : J]

\* Requests are told apart by what they ask alone, reconciliations not at all.
MCSymmetry == Permutations(Requests) \cup Permutations({q1, q2})

\* The transactions are of account 1, account 2 is there for transfers.
MCHome == [t \in {t1, t2} |-> 1]

\* Everything that may happen to a transaction, and what crosses it.
MCLife ==
  Posts({t1}, {"pending", "confirmed"}) \cup Voids({t1}, {{}, {1, 2}})
  \cup Edits({t1}, {{}, {1, 2}})
  \cup Opens({q1, q2}, {1}) \cup Closes({1})
  \cup [op : {"updateAccount"}, account : {1}, status : {"archived"}]
  \cup Completes({q1, q2}, {{}, {t1}}, {None, t2})
  \cup {[op |-> "transfer", from |-> a, to |-> 3 - a] : a \in {1, 2}}
=============================================================================
