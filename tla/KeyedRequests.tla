---------------------------- MODULE KeyedRequests ----------------------------
(***************************************************************************)
(* What an idempotency key promises to the clients that use it, with no    *)
(* word about locks, statements or stored records.  Each attempt takes     *)
(* effect at one moment, or none:                                          *)
(*                                                                         *)
(*   - the operation is executed if no execution is younger than the       *)
(*     lifetime of a record when the attempt arrives;                      *)
(*   - otherwise the latest execution answers: it is replayed if it was of *)
(*     the same payload, and a conflict if not.                            *)
(*                                                                         *)
(* A client is told once, of just that or of a failure, unless it is told  *)
(* first that the outcome is unknown.                                      *)
(*                                                                         *)
(* IdempotentCommands implements this specification (Keyed there).         *)
(***************************************************************************)
EXTENDS Integers

CONSTANTS Attempts, Payload, Ttl

VARIABLES
  now,       \* the time
  effects,   \* the executions of the operation: by whom, and as of when
  asked,     \* of each attempt, how far it is and when it arrived
  told       \* what each client has been told

vars == <<now, effects, asked, told>>

Untold == [kind |-> "none"]

Init ==
  /\ now = 0
  /\ effects = {}
  /\ asked = [a \in Attempts |-> [stage |-> "new", at |-> 0]]
  /\ told = [a \in Attempts |-> Untold]

Tick == now' = now + 1 /\ UNCHANGED <<effects, asked, told>>

Arrive(a) ==
  /\ asked[a].stage = "new"
  /\ asked' = [asked EXCEPT ![a] = [stage |-> "open", at |-> now]]
  /\ UNCHANGED <<now, effects, told>>

\* The attempt is over; its client is told, if it has not been answered yet.
End(a, answer) ==
  /\ asked[a].stage = "open"
  /\ asked' = [asked EXCEPT ![a].stage = "over"]
  /\ told' = [told EXCEPT ![a] = IF @ = Untold THEN answer ELSE @]
  /\ UNCHANGED now

Execute(a) ==
  /\ \A e \in effects : e.at + Ttl <= asked[a].at
  /\ effects' = effects \cup {[by |-> a, at |-> asked[a].at]}
  /\ End(a, [kind |-> "executed", of |-> a])

Recall(a) ==
  \E e \in effects :
    /\ \A f \in effects : f.at <= e.at
    /\ e.at + Ttl > asked[a].at
    /\ End(a, [kind |-> IF Payload[e.by] = Payload[a] THEN "replayed" ELSE "conflict",
               of   |-> e.by])
    /\ UNCHANGED effects

Fail(a) == End(a, [kind |-> "failed"]) /\ UNCHANGED effects

Doubt(a) ==
  /\ asked[a].stage = "open" /\ told[a] = Untold
  /\ told' = [told EXCEPT ![a] = [kind |-> "unknown"]]
  /\ UNCHANGED <<now, effects, asked>>

Next ==
  \/ Tick
  \/ \E a \in Attempts : Arrive(a) \/ Execute(a) \/ Recall(a) \/ Fail(a) \/ Doubt(a)

Spec == Init /\ [][Next]_vars
=============================================================================
