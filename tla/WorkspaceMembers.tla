-------------------------- MODULE WorkspaceMembers --------------------------
(***************************************************************************)
(* The memberships of one family or shared workspace: updateWorkspaceMember *)
(* and removeWorkspaceMember, the row-level policies of                    *)
(* workspace_memberships, and the guard that keeps an active owner.        *)
(*                                                                         *)
(* A request is one READ COMMITTED transaction of its caller.  The lock of *)
(* the subject admits one at a time per caller; the statements of different *)
(* callers interleave.  Every statement sees the rows committed when it    *)
(* starts and its transaction's own write.  A statement that locks or      *)
(* changes a row waits for the transaction that holds it and then decides  *)
(* again by the row that one left behind, but with the caller's role as it *)
(* was when the statement began.                                           *)
(***************************************************************************)
EXTENDS Integers, FiniteSets

CONSTANTS
  Members,      \* membership ids, in the order rows are locked
  Founding,     \* the possible first rows: functions of Members
  AskedRoles,   \* roles a request may ask for
  MaxRequests   \* bound: how many requests are made

Roles == {"owner", "administrator", "editor", "viewer"}
Row   == [role : Roles, status : {"active", "suspended"}, version : Nat]
Gone  == [role |-> "none", status |-> "none", version |-> 0]

ASSUME MembersAssumption ==
  /\ Members \subseteq Nat
  /\ IsFiniteSet(Members)
  /\ Founding \subseteq [Members -> Row]
  /\ \A f \in Founding :
       \E m \in Members : f[m].role = "owner" /\ f[m].status = "active"
  /\ AskedRoles \subseteq Roles
  /\ MaxRequests \in Nat

VARIABLES
  row,     \* the committed rows
  tx,      \* the open transaction of each caller
  made     \* requests made so far

vars == <<row, tx, made>>

PCs == {"idle", "caller", "target", "retain", "retaining", "write", "writing",
        "trigger", "triggering", "commit"}

NoTx == [pc |-> "idle", locks |-> {}]

Request ==
  [op : {"update"}, target : Members, role : Roles, version : Nat]
  \cup [op : {"remove"}, target : Members, role : {"none"}, version : {0}]

OpenTx ==
  [pc    : PCs \ {"idle"},
   ask   : Request,
   seen  : Roles \cup {"none"},  \* the caller's role when it was checked
   acts  : Roles \cup {"none"},  \* and when the writing statement began
   todo  : SUBSET Members,       \* rows the statement has yet to lock
   kept  : SUBSET Members,       \* rows it has locked and counts
   locks : SUBSET Members,       \* rows this transaction holds
   mine  : {Gone} \cup Row]      \* what it has written over its target

TypeOK ==
  /\ row \in [Members -> {Gone} \cup Row]
  /\ tx \in [Members -> {NoTx} \cup OpenTx]
  /\ made \in 0..MaxRequests

Init ==
  /\ row \in Founding
  /\ tx = [c \in Members |-> NoTx]
  /\ made = 0

-----------------------------------------------------------------------------
At(c, pc)   == tx[c].pc = pc
Target(c)   == tx[c].ask.target
Goto(c, pc) == tx' = [tx EXCEPT ![c].pc = pc]

\* The transaction ends, its locks are dropped.
End(c) == tx' = [tx EXCEPT ![c] = NoTx]

ActiveOwner(r) == r.role = "owner" /\ r.status = "active"
MayManage(r)   == r.role \in {"owner", "administrator"} /\ r.status = "active"

\* workspace_actor_active_role of a statement that begins now.
ActorRole(c) == IF row[c].status = "active" THEN row[c].role ELSE "none"

\* RLS of both commands: an administrator does not touch an owner.
MayTouch(actor, r) ==
  /\ actor \in {"owner", "administrator"}
  /\ r.role # "owner" \/ actor = "owner"

\* The row as the transaction sees it.
Seen(c, m) ==
  IF tx[c].pc \in {"trigger", "triggering"} /\ m = Target(c)
    THEN tx[c].mine ELSE row[m]

Free(c, m) == \A d \in Members \ {c} : m \notin tx[d].locks

Matches(c, r) == tx[c].ask.version \in {0, r.version}

-----------------------------------------------------------------------------
(* The request and its checks *)

\* An update may carry the version its client saw (If-Match), or none (0).
Asks(m) ==
  {[op |-> "remove", target |-> m, role |-> "none", version |-> 0]}
  \cup {[op |-> "update", target |-> m, role |-> r, version |-> v] :
           r \in AskedRoles, v \in {0, row[m].version}}

Ask(c) ==
  /\ At(c, "idle")
  /\ made < MaxRequests
  /\ made' = made + 1
  /\ \E m \in {m \in Members : row[m] # Gone} : \E ask \in Asks(m) :
       tx' = [tx EXCEPT ![c] =
         [pc |-> "caller", ask |-> ask, seen |-> "none", acts |-> "none",
          todo |-> {}, kept |-> {}, locks |-> {}, mine |-> Gone]]
  /\ UNCHANGED row

\* Not a member, suspended, or neither owner nor administrator: refused.
CheckCaller(c) ==
  /\ At(c, "caller")
  /\ IF MayManage(row[c])
       THEN tx' = [tx EXCEPT ![c].pc = "target", ![c].seen = row[c].role]
       ELSE End(c)
  /\ UNCHANGED <<row, made>>

\* Refused for an invisible target, an administrator who reaches for an
\* owner or for the owner role, or a version that has moved on.
CheckTarget(c) ==
  LET ask == tx[c].ask
      r   == row[Target(c)]
      refused == \/ r = Gone
                 \/ ~MayManage(row[c]) /\ Target(c) # c
                 \/ tx[c].seen = "administrator"
                      /\ (r.role = "owner" \/ ask.role = "owner")
                 \/ ~Matches(c, r)
  IN /\ At(c, "target")
     /\ IF refused THEN End(c)
        ELSE Goto(c, IF r.role = "owner" /\ ask.role # "owner"
                       THEN "retain" ELSE "write")
     /\ UNCHANGED <<row, made>>

-----------------------------------------------------------------------------
(* select ... where role = 'owner' and status = 'active' order by id       *)
(* for update: run by the guard function and by the deferred trigger       *)

Scan(c) ==
  /\ At(c, "retain") \/ At(c, "trigger")
  /\ tx' = [tx EXCEPT
       ![c].pc   = IF @ = "retain" THEN "retaining" ELSE "triggering",
       ![c].todo = {m \in Members : ActiveOwner(Seen(c, m))},
       ![c].kept = {}]
  /\ UNCHANGED <<row, made>>

NextRow(c) == {m \in tx[c].todo : \A n \in tx[c].todo : m <= n}

\* The row is counted if it still belongs to an active owner once locked.
LockRow(c) ==
  /\ At(c, "retaining") \/ At(c, "triggering")
  /\ \E m \in NextRow(c) :
       /\ Free(c, m)
       /\ tx' = [tx EXCEPT
            ![c].todo  = @ \ {m},
            ![c].kept  = IF ActiveOwner(Seen(c, m)) THEN @ \cup {m} ELSE @,
            ![c].locks = @ \cup {m}]
  /\ UNCHANGED <<row, made>>

\* collaborative_workspace_retains_active_owner: another owner remains.
Retain(c) ==
  /\ At(c, "retaining")
  /\ tx[c].todo = {}
  /\ IF tx[c].kept \ {Target(c)} # {} THEN Goto(c, "write") ELSE End(c)
  /\ UNCHANGED <<row, made>>

-----------------------------------------------------------------------------
(* update or delete under row-level security *)

\* The statement's snapshot: the caller's role, and whether the row matches.
WriteBegins(c) ==
  /\ At(c, "write")
  /\ IF /\ row[Target(c)] # Gone
        /\ MayTouch(ActorRole(c), row[Target(c)])
        /\ Matches(c, row[Target(c)])
       THEN tx' = [tx EXCEPT ![c].pc = "writing", ![c].acts = ActorRole(c)]
       ELSE End(c)
  /\ UNCHANGED <<row, made>>

Written(c) ==
  LET ask == tx[c].ask
      r   == row[Target(c)]
  IN IF ask.op = "remove" THEN Gone
     ELSE [r EXCEPT !.role = ask.role, !.version = @ + 1]

\* Faulty variant: what the statement saw when it began is not checked again.
WriteRowStale(c) ==
  /\ At(c, "writing")
  /\ Free(c, Target(c))
  /\ tx' = [tx EXCEPT ![c].pc = "trigger", ![c].mine = Written(c),
                      ![c].locks = @ \cup {Target(c)}]
  /\ UNCHANGED <<row, made>>

\* Once the row is free the statement decides again by its latest version;
\* no row left to change, and a role the caller may not give, end it.
WriteRow(c) ==
  /\ At(c, "writing")
  /\ Free(c, Target(c))
  /\ IF /\ row[Target(c)] # Gone
        /\ MayTouch(tx[c].acts, row[Target(c)])
        /\ Matches(c, row[Target(c)])
        /\ MayTouch(tx[c].acts, Written(c))
       THEN tx' = [tx EXCEPT ![c].pc = "trigger",
                             ![c].mine = Written(c),
                             ![c].locks = @ \cup {Target(c)}]
       ELSE End(c)
  /\ UNCHANGED <<row, made>>

\* Faulty variant: the trigger is left out.
SkipTrigger(c) ==
  /\ At(c, "triggering")
  /\ tx[c].todo = {}
  /\ Goto(c, "commit")
  /\ UNCHANGED <<row, made>>

\* set constraints all immediate: the trigger counts the owners that remain;
\* none is a check_violation, rolled back to the savepoint.
Trigger(c) ==
  /\ At(c, "triggering")
  /\ tx[c].todo = {}
  /\ IF tx[c].kept # {} THEN Goto(c, "commit") ELSE End(c)
  /\ UNCHANGED <<row, made>>

Commit(c) ==
  /\ At(c, "commit")
  /\ row' = [row EXCEPT ![Target(c)] = tx[c].mine]
  /\ End(c)
  /\ UNCHANGED made

\* Connection, deadline or process lost before COMMIT.
Abort(c) ==
  /\ ~At(c, "idle")
  /\ End(c)
  /\ UNCHANGED <<row, made>>

Wants(c, m) ==
  \/ At(c, "writing") /\ m = Target(c)
  \/ (At(c, "retaining") \/ At(c, "triggering")) /\ m \in NextRow(c)

WaitsFor(c, d) ==
  c # d /\ \E m \in tx[d].locks : Wants(c, m)

\* Faulty variant: statements wait without a timeout or a detector.
WaitForEver(c) == FALSE /\ UNCHANGED vars

\* Transactions that wait for each other: PostgreSQL's detector, or the
\* statement timeout, ends one.
Deadlock(c) ==
  /\ \E S \in SUBSET Members :
       c \in S /\ \A x \in S : \E y \in S : WaitsFor(x, y)
  /\ End(c)
  /\ UNCHANGED <<row, made>>

Step(c) ==
  \/ CheckCaller(c) \/ CheckTarget(c) \/ Scan(c) \/ LockRow(c) \/ Retain(c)
  \/ WriteBegins(c) \/ WriteRow(c) \/ Trigger(c) \/ Commit(c) \/ Deadlock(c)

Next == \E c \in Members : Ask(c) \/ Step(c) \/ Abort(c)

Spec == Init /\ [][Next]_vars

\* The server carries on with every statement that can go on.
FairSpec == Spec /\ \A c \in Members : WF_vars(Step(c))

-----------------------------------------------------------------------------
(* Properties *)

(* However demotions, removals and promotions of several members interleave, *)
(* a collaborative workspace never loses its last active owner.              *)
AnOwnerRemains == \E m \in Members : ActiveOwner(row[m])

(* An administrator neither demotes, removes nor makes an owner, even if the *)
(* member is promoted by somebody else while the request waits for the row.  *)
OwnersAreOutOfReach ==
  [][\A c \in Members :
       At(c, "commit") /\ row' # row /\ At(c, "idle")'
         => MayTouch(tx[c].acts, row[Target(c)])
            /\ MayTouch(tx[c].acts, row'[Target(c)])]_vars

\* A request is allowed by the role its caller has when the statement that
\* writes begins.
RequestOf(x) ==
  IF x.pc = "idle" THEN [stage |-> "idle"]
  ELSE IF x.pc \in {"writing", "trigger", "triggering", "commit"}
    THEN [stage |-> "allowed", ask |-> x.ask, by |-> x.acts]
    ELSE [stage |-> "asked", ask |-> x.ask]

Roster == INSTANCE WorkspaceRoster WITH
  roster  <- row,
  request <- [c \in Members |-> RequestOf(tx[c])]

(* However the statements of requests interleave and wait for each other's  *)
(* rows, each request takes effect as a whole at its COMMIT, over the row as *)
(* it is then: with the version of its If-Match, so that no update is lost,  *)
(* and with nobody else's row changed (WorkspaceRoster).                     *)
ImplementsRoster == Roster!Spec

(* Requests whose row locks cross are not stuck for ever.                    *)
EveryRequestEnds ==
  \A c \in Members : At(c, "caller") ~> At(c, "idle")
=============================================================================
