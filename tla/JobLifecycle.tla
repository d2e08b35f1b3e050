---------------------------- MODULE JobLifecycle ----------------------------
(***************************************************************************)
(* What the job subsystem promises to the services that enqueue and to the *)
(* clients that poll, with no word about leases, workers or retries:       *)
(*                                                                         *)
(*   - an accepted job ends once, as completed, failed or dead-lettered;   *)
(*   - its effect happens exactly when it completes, and once;             *)
(*   - its message is dropped only after the job has ended.                *)
(*                                                                         *)
(* JobQueue implements this specification (Contract in JobQueue).          *)
(***************************************************************************)
EXTENDS Naturals

CONSTANT Jobs

VARIABLES
  outcome,      \* "none", "pending", or how the job ended
  effects,      \* committed effects of the job
  outstanding   \* the jobs whose message has not been dropped

vars == <<outcome, effects, outstanding>>

Ends == {"completed", "failed", "dead_letter"}

Init ==
  /\ outcome = [j \in Jobs |-> "none"]
  /\ effects = [j \in Jobs |-> 0]
  /\ outstanding = {}

\* A request is answered 202.
Accept(j) ==
  /\ outcome[j] = "none"
  /\ outcome' = [outcome EXCEPT ![j] = "pending"]
  /\ outstanding' = outstanding \cup {j}
  /\ UNCHANGED effects

Succeed(j) ==
  /\ outcome[j] = "pending"
  /\ outcome' = [outcome EXCEPT ![j] = "completed"]
  /\ effects' = [effects EXCEPT ![j] = @ + 1]
  /\ UNCHANGED outstanding

GiveUp(j) ==
  /\ outcome[j] = "pending"
  /\ \E e \in Ends \ {"completed"} : outcome' = [outcome EXCEPT ![j] = e]
  /\ UNCHANGED <<effects, outstanding>>

Settle(j) ==
  /\ outcome[j] \in Ends
  /\ j \in outstanding
  /\ outstanding' = outstanding \ {j}
  /\ UNCHANGED <<outcome, effects>>

Finish(j) == Succeed(j) \/ GiveUp(j)

Next == \E j \in Jobs : Accept(j) \/ Finish(j) \/ Settle(j)

Safety == Init /\ [][Next]_vars

\* An accepted job does not stay pending for ever.
Spec == Safety /\ \A j \in Jobs : WF_vars(Finish(j))
=============================================================================
