--------------------------- MODULE WorkspaceRoster ---------------------------
(***************************************************************************)
(* What the memberships of a workspace promise to those who manage them,   *)
(* with no word about statements, row locks or triggers: a request         *)
(*                                                                         *)
(*   - is allowed by the role its caller has at one moment of it;          *)
(*   - takes effect at another, whole, over the row as it is then, which   *)
(*     has the version it names and is one that role may touch, before and *)
(*     after;                                                              *)
(*   - leaves an active owner, and everybody else's row as it was;         *)
(*   - or has no effect.                                                   *)
(*                                                                         *)
(* WorkspaceMembers implements this specification (Roster there).          *)
(***************************************************************************)
EXTENDS Naturals

CONSTANTS Members, Founding, AskedRoles

VARIABLES
  roster,    \* the rows
  request    \* what each member has asked, and by which role it is allowed

vars == <<roster, request>>

Gone == [role |-> "none", status |-> "none", version |-> 0]
Idle == [stage |-> "idle"]

Init ==
  /\ roster \in Founding
  /\ request = [c \in Members |-> Idle]

Removal(m) == [op |-> "remove", target |-> m, role |-> "none", version |-> 0]

Changes(m) ==
  {[op |-> "update", target |-> m, role |-> r, version |-> v] :
     r \in AskedRoles, v \in {0, roster[m].version}}

Ask(c) ==
  /\ request[c].stage = "idle"
  /\ \E m \in Members :
       /\ roster[m] # Gone
       /\ \E ask \in {Removal(m)} \cup Changes(m) :
            request' = [request EXCEPT ![c] = [stage |-> "asked", ask |-> ask]]
  /\ UNCHANGED roster

Allow(c) ==
  /\ request[c].stage = "asked"
  /\ roster[c].status = "active"
  /\ roster[c].role \in {"owner", "administrator"}
  /\ request' = [request EXCEPT ![c] =
       [stage |-> "allowed", ask |-> request[c].ask, by |-> roster[c].role]]
  /\ UNCHANGED roster

MayTouch(by, r) == by = "owner" \/ (by = "administrator" /\ r.role # "owner")

Outcome(ask, r) ==
  IF ask.op = "remove" THEN Gone
  ELSE [r EXCEPT !.role = ask.role, !.version = @ + 1]

Apply(c) ==
  LET ask == request[c].ask
      old == roster[ask.target]
      new == Outcome(ask, old)
  IN /\ request[c].stage = "allowed"
     /\ old # Gone
     /\ ask.version \in {0, old.version}
     /\ MayTouch(request[c].by, old) /\ MayTouch(request[c].by, new)
     /\ roster' = [roster EXCEPT ![ask.target] = new]
     /\ \E m \in Members : roster'[m].role = "owner" /\ roster'[m].status = "active"
     /\ request' = [request EXCEPT ![c] = Idle]

\* Refused, or failed.
Drop(c) ==
  /\ request[c].stage # "idle"
  /\ request' = [request EXCEPT ![c] = Idle]
  /\ UNCHANGED roster

Next == \E c \in Members : Ask(c) \/ Allow(c) \/ Apply(c) \/ Drop(c)

Spec == Init /\ [][Next]_vars
=============================================================================
