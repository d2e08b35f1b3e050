----------------------------- MODULE MCJobQueue -----------------------------
(***************************************************************************)
(* Small instances of JobQueue.                                            *)
(***************************************************************************)
EXTENDS JobQueue, TLC

CONSTANTS j1, j2, w1, w2, w3, a1, a2

MCCreator == [j \in Jobs |-> IF j = j2 /\ a2 \in Actors THEN a2 ELSE a1]

MCRunKind    == [j \in Jobs |-> "run"]
MCInsertKind == [j \in Jobs |-> "insert"]
MCBothKinds  == [j \in Jobs |-> IF j = j1 THEN "run" ELSE "insert"]

Slots == Permutations(Workers)
=============================================================================
