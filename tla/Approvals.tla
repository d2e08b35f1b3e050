----------------------------- MODULE Approvals -----------------------------
(***************************************************************************)
(* One approval an agent asks for before it uses a tool.  Owners and       *)
(* administrators confirm or reject it, under subjects and idempotency     *)
(* keys of their own, until it expires; they may retry a decision whose    *)
(* answer they did not get.  Requests of one subject are serialised by the *)
(* subject lock, requests of two are not: both may read a pending approval *)
(* before either updates it.                                               *)
(*                                                                         *)
(* A request reads the clock of its process between its statements, so     *)
(* the time it decides by may be past when its update runs.                *)
(***************************************************************************)
EXTENDS Naturals

CONSTANTS
  Deciders,     \* requests to decide
  Decider,      \* the subject of a request
  Decides,      \* "approved" or "rejected", by its route
  DecisionKey,  \* its idempotency key
  ExpiresAt,    \* expires_at of the approval
  LastTick      \* bound: how far time goes

Pending == [status |-> "pending"]
NoTime == LastTick + 1

ASSUME ApprovalsAssumption ==
  /\ Decides \in [Deciders -> {"approved", "rejected"}]
  /\ ExpiresAt \in Nat /\ LastTick \in Nat

VARIABLES
  wall,       \* the clock of the processes and of the database
  approval,   \* status, and the request that decided
  decision    \* each request: pc, its reading of the clock, whether its hash fits

approvalVars == <<wall, approval, decision>>

Ended == {"ok", "replayed", "conflict", "forbidden", "failed"}

ApprovalTypeOK ==
  /\ wall \in 0..LastTick
  /\ approval \in {Pending} \cup [status : {"approved", "rejected"}, by : Deciders]
  /\ decision \in [Deciders -> [pc : {"new", "begun", "decide", "updated"} \cup Ended,
                                now : 0..NoTime]]

ApprovalInit ==
  /\ wall = 0
  /\ approval = Pending
  /\ decision = [d \in Deciders |-> [pc |-> "new", now |-> NoTime]]

PassTime ==
  /\ wall < LastTick
  /\ wall' = wall + 1
  /\ UNCHANGED <<approval, decision>>

Settle(d, pc) ==
  /\ decision' = [decision EXCEPT ![d].pc = pc]
  /\ UNCHANGED <<wall, approval>>

Deciding(d) == decision[d].pc \in {"begun", "decide", "updated"}

\* The lock of the subject.
BeginDecision(d) ==
  /\ decision[d].pc = "new"
  /\ \A e \in Deciders : Deciding(e) => Decider[e] # Decider[d]
  /\ Settle(d, "begun")

\* The record of the key was written by this request: same subject and route.
RecordOf(d) ==
  {e \in Deciders : /\ approval # Pending /\ approval.by = e
                    /\ Decider[e] = Decider[d] /\ DecisionKey[e] = DecisionKey[d]
                    /\ Decides[e] = Decides[d]}

\* decideApproval until the update, in its order: role, reuse of the key,
\* expiry, replay, status, hash of the arguments.  A decision is replayed only
\* while it stands and the approval has not expired.
ReadApproval(d) ==
  /\ decision[d].pc = "begun"
  /\ \/ Settle(d, "forbidden")
     \/ Settle(d, "conflict")        \* another payload, or hashes differ
     \/ /\ wall >= ExpiresAt
        /\ Settle(d, "conflict")
     \/ /\ wall < ExpiresAt /\ RecordOf(d) # {}
        /\ Settle(d, IF approval.status = Decides[d] THEN "replayed" ELSE "conflict")
     \/ /\ wall < ExpiresAt /\ RecordOf(d) = {} /\ approval # Pending
        /\ Settle(d, "conflict")
     \/ /\ wall < ExpiresAt /\ approval = Pending
        /\ decision' = [decision EXCEPT ![d] = [pc |-> "decide", now |-> wall]]
        /\ UNCHANGED <<wall, approval>>

\* Faulty variant: the update is by id and workspace alone.
ById(d) == TRUE

\* where status = 'pending' and expires_at > the reading of the clock
Decidable(d) == approval = Pending /\ ExpiresAt > decision[d].now

\* The update waits for the row another request has updated.
UpdateDecision(d) ==
  /\ decision[d].pc = "decide"
  /\ \A e \in Deciders : decision[e].pc # "updated"
  /\ Settle(d, IF Decidable(d) THEN "updated" ELSE "conflict")

\* The record, and COMMIT.
CommitDecision(d) ==
  /\ decision[d].pc = "updated"
  /\ approval' = [status |-> Decides[d], by |-> d]
  /\ decision' = [decision EXCEPT ![d].pc = "ok"]
  /\ UNCHANGED wall

AbortDecision(d) == Deciding(d) /\ Settle(d, "failed")

\* COMMIT succeeds and its answer is lost: the subject retries.
LoseDecision(d) ==
  /\ decision[d].pc = "updated"
  /\ approval' = [status |-> Decides[d], by |-> d]
  /\ decision' = [decision EXCEPT ![d].pc = "failed"]
  /\ UNCHANGED wall

ApprovalNext ==
  \/ PassTime
  \/ \E d \in Deciders :
       \/ BeginDecision(d) \/ ReadApproval(d) \/ UpdateDecision(d)
       \/ CommitDecision(d) \/ AbortDecision(d) \/ LoseDecision(d)

ApprovalSpec == ApprovalInit /\ [][ApprovalNext]_approvalVars

(* Whoever was told that his decision was taken, now or by a replay, can   *)
(* rely on it: it is the one decision of the approval, and it still is     *)
(* when somebody else decides the other way at the same time.              *)
AnswersMatchTheDecision ==
  \A d \in Deciders :
    /\ decision[d].pc = "ok" => approval # Pending /\ approval.by = d
    /\ decision[d].pc = "replayed" =>
         /\ approval # Pending /\ approval.status = Decides[d]
         /\ Decider[approval.by] = Decider[d]
=============================================================================
