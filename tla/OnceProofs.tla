----------------------------- MODULE OnceProofs -----------------------------
(***************************************************************************)
(* What happens once, for any number of requests, subjects, devices,       *)
(* people, polls, uploads, deliveries, files, rows and pages: an approval  *)
(* is decided once, a device is given one token, a receipt one             *)
(* transaction, a row of a file is imported once, a walk of a list shows a *)
(* row once and a rule meets each of its dates once.                       *)
(***************************************************************************)
EXTENDS Approvals, CliDevices, Receipts, Imports, Paging, Occurrence,
        FiniteSetTheorems, WellFoundedInduction, TLAPS

-----------------------------------------------------------------------------
(* Approvals *)

\* One request at most has updated the row, and the row was pending then.
OneUpdate ==
  /\ \A d, e \in Deciders :
       decision[d].pc = "updated" /\ decision[e].pc = "updated" => d = e
  /\ \A d \in Deciders : decision[d].pc = "updated" => approval = Pending

ApprovalInv == ApprovalTypeOK /\ OneUpdate /\ AnswersMatchTheDecision

(* A decided approval is not a pending one. *)
LEMMA DecidedIsNotPending ==
  ASSUME NEW d \in Deciders
  PROVE  [status |-> Decides[d], by |-> d] # Pending
  BY ApprovalsAssumption DEF Pending

(* The invariant holds of an approval nobody has decided. *)
LEMMA ApprovalInitInv == ApprovalInit => ApprovalInv
  BY ApprovalsAssumption
     DEF ApprovalInit, ApprovalInv, ApprovalTypeOK, OneUpdate,
         AnswersMatchTheDecision, NoTime, Ended

(* A request that goes on without touching the approval keeps the          *)
(* invariant, if it may be where it goes.                                  *)
LEMMA SettleKeeps ==
  ASSUME ApprovalInv, NEW d \in Deciders,
         NEW pc \in {"begun", "updated", "replayed", "conflict", "forbidden", "failed"},
         Settle(d, pc),
         pc = "updated" => /\ \A e \in Deciders : decision[e].pc # "updated"
                           /\ approval = Pending,
         pc = "replayed" => /\ approval # Pending
                            /\ approval.status = Decides[d]
                            /\ Decider[approval.by] = Decider[d]
  PROVE  ApprovalInv'
<1>1. /\ decision' = [decision EXCEPT ![d].pc = pc]
      /\ UNCHANGED <<wall, approval>>
  BY DEF Settle
<1>2. /\ decision'[d].pc = pc
      /\ \A e \in Deciders : e # d => decision'[e] = decision[e]
  BY <1>1 DEF ApprovalInv, ApprovalTypeOK
<1>3. ApprovalTypeOK'
  BY <1>1 DEF ApprovalInv, ApprovalTypeOK, Ended
<1>4. OneUpdate'
  BY <1>1, <1>2 DEF ApprovalInv, OneUpdate
<1>5. AnswersMatchTheDecision'
  BY <1>1, <1>2 DEF ApprovalInv, AnswersMatchTheDecision
<1>. QED
  BY <1>3, <1>4, <1>5 DEF ApprovalInv

(* The COMMIT of the request that has updated the row, answered or not. *)
LEMMA DecisionKeeps ==
  ASSUME ApprovalInv, NEW d \in Deciders, NEW pc \in {"ok", "failed"},
         decision[d].pc = "updated",
         approval' = [status |-> Decides[d], by |-> d],
         decision' = [decision EXCEPT ![d].pc = pc],
         UNCHANGED wall
  PROVE  ApprovalInv'
<1>1. /\ decision'[d].pc = pc
      /\ \A e \in Deciders : e # d => decision'[e] = decision[e]
  BY DEF ApprovalInv, ApprovalTypeOK
<1>2. approval = Pending /\ approval' # Pending /\ approval'.by = d
  BY DecidedIsNotPending DEF ApprovalInv, OneUpdate
<1>3. ApprovalTypeOK'
  <2>1. approval' \in [status : {"approved", "rejected"}, by : Deciders]
    BY ApprovalsAssumption
  <2>. QED
    BY <2>1 DEF ApprovalInv, ApprovalTypeOK, Ended
<1>4. OneUpdate'
  BY <1>1 DEF ApprovalInv, OneUpdate
<1>5. AnswersMatchTheDecision'
  BY <1>1, <1>2 DEF ApprovalInv, AnswersMatchTheDecision
<1>. QED
  BY <1>3, <1>4, <1>5 DEF ApprovalInv

(* Every step of a request that decides an approval keeps the invariant. *)
LEMMA ApprovalStepInv == ApprovalInv /\ [ApprovalNext]_approvalVars => ApprovalInv'
<1>. SUFFICES ASSUME ApprovalInv, [ApprovalNext]_approvalVars PROVE ApprovalInv'
  OBVIOUS
<1>1. CASE PassTime
  BY <1>1, ApprovalsAssumption
     DEF PassTime, ApprovalInv, ApprovalTypeOK, OneUpdate, AnswersMatchTheDecision
<1>2. ASSUME NEW d \in Deciders, BeginDecision(d) PROVE ApprovalInv'
  BY <1>2, SettleKeeps DEF BeginDecision
<1>3. ASSUME NEW d \in Deciders, ReadApproval(d) PROVE ApprovalInv'
  <2>1. CASE Settle(d, "forbidden") \/ Settle(d, "conflict")
    BY <2>1, SettleKeeps
  <2>2. CASE RecordOf(d) # {} /\ Settle(d, "replayed") /\ approval.status = Decides[d]
    <3>1. PICK e \in Deciders :
            approval # Pending /\ approval.by = e /\ Decider[e] = Decider[d]
      BY <2>2 DEF RecordOf
    <3>. QED
      BY <2>2, <3>1, SettleKeeps
  <2>3. CASE /\ decision' = [decision EXCEPT ![d] = [pc |-> "decide", now |-> wall]]
             /\ UNCHANGED <<wall, approval>>
    <3>1. /\ decision'[d] = [pc |-> "decide", now |-> wall]
          /\ \A e \in Deciders : e # d => decision'[e] = decision[e]
      BY <2>3 DEF ApprovalInv, ApprovalTypeOK
    <3>2. ApprovalTypeOK'
      BY <2>3, ApprovalsAssumption DEF ApprovalInv, ApprovalTypeOK, NoTime
    <3>3. OneUpdate' /\ AnswersMatchTheDecision'
      BY <2>3, <3>1 DEF ApprovalInv, OneUpdate, AnswersMatchTheDecision
    <3>. QED
      BY <3>2, <3>3 DEF ApprovalInv
  <2>. QED
    BY <1>3, <2>1, <2>2, <2>3 DEF ReadApproval
<1>4. ASSUME NEW d \in Deciders, UpdateDecision(d) PROVE ApprovalInv'
  BY <1>4, SettleKeeps DEF UpdateDecision, Decidable
<1>5. ASSUME NEW d \in Deciders, CommitDecision(d) PROVE ApprovalInv'
  BY <1>5, DecisionKeeps DEF CommitDecision
<1>6. ASSUME NEW d \in Deciders, AbortDecision(d) PROVE ApprovalInv'
  BY <1>6, SettleKeeps DEF AbortDecision
<1>7. ASSUME NEW d \in Deciders, LoseDecision(d) PROVE ApprovalInv'
  BY <1>7, DecisionKeeps DEF LoseDecision
<1>8. CASE UNCHANGED approvalVars
  BY <1>8 DEF approvalVars, ApprovalInv, ApprovalTypeOK, OneUpdate,
              AnswersMatchTheDecision
<1>. QED
  BY <1>1, <1>2, <1>3, <1>4, <1>5, <1>6, <1>7, <1>8 DEF ApprovalNext

(* The inductive invariant of an approval: who has updated it found it      *)
(* pending, and nobody else has.                                           *)
THEOREM ApprovalInvariance == ApprovalSpec => []ApprovalInv
<1>. QED
  BY ApprovalInitInv, ApprovalStepInv, PTL DEF ApprovalSpec

(* The variables of the approvals have their types.                        *)
THEOREM ApprovalTypeCorrect == ApprovalSpec => []ApprovalTypeOK
<1>1. ApprovalInv => ApprovalTypeOK
  BY DEF ApprovalInv
<1>. QED
  BY <1>1, ApprovalInvariance, PTL

(* Whoever was told his decision was taken can rely on it, for any number  *)
(* of requests, subjects and keys (decideApproval and its replay).         *)
THEOREM DecisionsAreTrue == ApprovalSpec => []AnswersMatchTheDecision
<1>1. ApprovalInv => AnswersMatchTheDecision
  BY DEF ApprovalInv
<1>. QED
  BY ApprovalInvariance, <1>1, PTL

-----------------------------------------------------------------------------
(* Devices *)

\* A request for a token once it was sent.
Sent == [pc : {"admitted", "redeemed", "token", "invalid", "limited", "failed"},
         device : Devices, from : Addresses, now : Nat]

PollTyped ==
  /\ poll \in [Polls -> {[pc |-> "new"]} \cup Sent]
  /\ \A p \in Polls : poll[p].pc # "new" => poll[p] \in Sent /\ poll[p].now <= instant

\* A request of this window has been counted, and no other of its address runs.
InWindow(p) == Running(p) /\ poll[p].now = instant

Counted ==
  /\ \A p \in Polls : InWindow(p) => used[poll[p].from] > 0
  /\ \A p, q \in Polls :
       InWindow(p) /\ InWindow(q) /\ poll[p].from = poll[q].from => p = q

\* A redemption under way holds the row of an approved device that has no token.
Redeeming ==
  \A p \in Polls : poll[p].pc = "redeemed" =>
    /\ grant[poll[p].device].by \in People
    /\ ~grant[poll[p].device].redeemed
    /\ \A q \in Polls :
         poll[q].pc = "redeemed" /\ poll[q].device = poll[p].device => q = p

DeviceInv == DeviceTypeOK /\ PollTyped /\ Counted /\ Redeeming /\ OneTokenPerApproval

(* The invariant holds before the first poll. *)
LEMMA DeviceInitInv == DeviceInit => DeviceInv
  BY CliDevicesAssumption
     DEF DeviceInit, DeviceInv, DeviceTypeOK, PollTyped, Counted, Redeeming,
         OneTokenPerApproval, NoGrant, Running, InWindow

(* A request that goes on keeps what it was sent with. *)
LEMMA PollGoesOn ==
  ASSUME DeviceInv, NEW p \in Polls, poll[p].pc # "new",
         NEW pc \in {"admitted", "redeemed", "token", "invalid", "limited", "failed"},
         poll' = [poll EXCEPT ![p].pc = pc]
  PROVE  /\ poll' \in [Polls -> {[pc |-> "new"]} \cup Sent]
         /\ poll[p] \in Sent /\ poll'[p] \in Sent
         /\ poll'[p].pc = pc /\ poll'[p].device = poll[p].device
         /\ poll'[p].from = poll[p].from /\ poll'[p].now = poll[p].now
         /\ \A q \in Polls : q # p => poll'[q] = poll[q]
<1>1. poll[p] \in Sent
  BY DEF DeviceInv, PollTyped
<1>2. poll'[p] = [poll[p] EXCEPT !.pc = pc]
  BY DEF DeviceInv, PollTyped
<1>3. /\ poll'[p] \in Sent
      /\ poll'[p].pc = pc /\ poll'[p].device = poll[p].device
      /\ poll'[p].from = poll[p].from /\ poll'[p].now = poll[p].now
  BY <1>1, <1>2 DEF Sent
<1>4. \A q \in Polls : q # p => poll'[q] = poll[q]
  BY DEF DeviceInv, PollTyped
<1>5. poll' \in [Polls -> {[pc |-> "new"]} \cup Sent]
  BY <1>3, <1>4 DEF DeviceInv, PollTyped
<1>. QED
  BY <1>1, <1>3, <1>4, <1>5

(* Requests that were in the window, and are counted as they were. *)
LEMMA CountStays ==
  ASSUME Counted,
         \A q \in Polls : InWindow(q)' =>
           /\ InWindow(q) /\ poll'[q].from = poll[q].from
           /\ used'[poll[q].from] = used[poll[q].from]
  PROVE  Counted'
<1>1. ASSUME NEW q \in Polls, InWindow(q)' PROVE used'[poll'[q].from] > 0
  BY <1>1 DEF Counted
<1>2. ASSUME NEW q \in Polls, NEW r \in Polls, InWindow(q)', InWindow(r)',
             poll'[q].from = poll'[r].from
      PROVE  q = r
  BY <1>2 DEF Counted
<1>. QED
  BY <1>1, <1>2 DEF Counted

(* A new window forgets its requests, and the poll under way with them. *)
LEMMA WindowKeeps == DeviceInv /\ NextWindow => DeviceInv'
<1>. SUFFICES ASSUME DeviceInv, NextWindow PROVE DeviceInv'
  OBVIOUS
<1>. USE DEF NextWindow, DeviceInv
<1>1. DeviceTypeOK'
  BY CliDevicesAssumption DEF DeviceTypeOK
<1>2. PollTyped'
  BY CliDevicesAssumption DEF PollTyped, Sent, DeviceTypeOK
<1>3. Counted'
  <2>1. ASSUME NEW p \in Polls PROVE ~InWindow(p)'
    <3>1. Running(p) => poll[p].now <= instant /\ poll[p].now \in Nat
      BY DEF PollTyped, Running, Sent
    <3>. QED
      BY <3>1 DEF DeviceTypeOK, InWindow, Running
  <2>. QED
    BY <2>1 DEF Counted
<1>4. Redeeming' /\ OneTokenPerApproval'
  BY DEF Redeeming, OneTokenPerApproval
<1>. QED
  BY <1>1, <1>2, <1>3, <1>4

(* A new authorization keeps the invariant. *)
LEMMA AuthorizeKeeps ==
  ASSUME DeviceInv, NEW d \in Devices, NEW a \in Addresses, Authorize(d, a)
  PROVE  DeviceInv'
<1>. USE DEF Authorize, Count, DeviceInv
<1>1. /\ grant' \in [Devices -> [expires : Nat, by : People \cup {Noone}, redeemed : BOOLEAN]]
      /\ \A e \in Devices : grant'[e].by = grant[e].by /\ grant'[e].redeemed = grant[e].redeemed
  BY CliDevicesAssumption DEF DeviceTypeOK
<1>2. /\ used' \in [Addresses -> Nat]
      /\ \A b \in Addresses : used'[b] >= used[b]
  BY DEF DeviceTypeOK
<1>3. DeviceTypeOK' /\ PollTyped'
  BY <1>1, <1>2 DEF DeviceTypeOK, PollTyped
<1>4. Counted'
  <2>1. \A p \in Polls : InWindow(p)' => InWindow(p) /\ poll[p].from # a
    BY DEF InWindow, Running
  <2>2. \A p \in Polls : InWindow(p) => poll[p].from \in Addresses
    BY DEF PollTyped, InWindow, Running, Sent
  <2>. QED
    BY <2>1, <2>2, CountStays DEF DeviceTypeOK
<1>5. Redeeming'
  <2>1. \A p \in Polls : poll[p].pc = "redeemed" => poll[p].device \in Devices
    BY DEF PollTyped, Sent
  <2>. QED
    BY <1>1, <2>1 DEF Redeeming
<1>6. OneTokenPerApproval'
  BY <1>1 DEF OneTokenPerApproval, DeviceTypeOK, Token
<1>. QED
  BY <1>3, <1>4, <1>5, <1>6

(* An approval of a device keeps the invariant. *)
LEMMA ApproveKeeps ==
  ASSUME DeviceInv, NEW d \in Devices, NEW s \in People, Approve(d, s)
  PROVE  DeviceInv'
<1>. USE DEF Approve, DeviceInv
<1>1. CASE ~Approvable(d, s)
  BY <1>1, CliDevicesAssumption, CountStays
     DEF DeviceTypeOK, PollTyped, InWindow, Running, Redeeming, OneTokenPerApproval
<1>. SUFFICES ASSUME Approvable(d, s) PROVE DeviceInv'
  BY <1>1
<1>2. /\ grant' \in [Devices -> [expires : Nat, by : People \cup {Noone}, redeemed : BOOLEAN]]
      /\ \A e \in Devices : e # d => grant'[e] = grant[e]
      /\ ~grant[d].redeemed /\ ~grant'[d].redeemed
  BY DEF DeviceTypeOK, Approvable
<1>3. DeviceTypeOK' /\ PollTyped'
  <2>1. approvals' \in [People -> 0..ApprovalLimit]
    BY CliDevicesAssumption DEF DeviceTypeOK
  <2>. QED
    BY <1>2, <2>1 DEF DeviceTypeOK, PollTyped
<1>4. Counted'
  BY CountStays DEF InWindow, Running
<1>5. Redeeming'
  <2>1. \A p \in Polls : poll[p].pc = "redeemed" =>
          poll[p].device \in Devices /\ poll[p].device # d
    BY DEF PollTyped, Sent, Free
  <2>. QED
    BY <1>2, <2>1 DEF Redeeming
<1>6. OneTokenPerApproval'
  <2>1. \A t \in tokens : t.device \in Devices /\ t.device # d
    BY <1>2 DEF DeviceTypeOK, Token, OneTokenPerApproval
  <2>. QED
    BY <1>2, <2>1 DEF OneTokenPerApproval
<1>. QED
  BY <1>3, <1>4, <1>5, <1>6

(* A poll that begins is counted once, and redeems what it may. *)
LEMMA BeginPollKeeps ==
  ASSUME DeviceInv, NEW p \in Polls, NEW d \in Devices, NEW a \in Addresses,
         BeginPoll(p, d, a)
  PROVE  DeviceInv'
<1>. USE DEF DeviceInv
<1>1. PICK pc \in {"admitted", "limited"} :
        poll' = [poll EXCEPT ![p] = [pc |-> pc, device |-> d, from |-> a, now |-> instant]]
  BY DEF BeginPoll
<1>2. /\ poll[p].pc = "new"
      /\ \A q \in Polls : Running(q) => poll[q].from # a \/ poll[q].now # instant
      /\ used' = [used EXCEPT ![a] = @ + 1]
      /\ UNCHANGED <<instant, grant, tokens, approvals>>
  BY DEF BeginPoll, Count
<1>3. /\ poll'[p] = [pc |-> pc, device |-> d, from |-> a, now |-> instant]
      /\ \A q \in Polls : q # p => poll'[q] = poll[q]
  BY <1>1 DEF PollTyped
<1>4. poll'[p] \in Sent
  BY <1>3 DEF Sent, DeviceTypeOK
<1>5. /\ used' \in [Addresses -> Nat]
      /\ used'[a] > 0
      /\ \A b \in Addresses : used'[b] >= used[b]
  BY <1>2 DEF DeviceTypeOK
<1>6. DeviceTypeOK'
  <2>1. \A q \in Polls : poll'[q].pc \in {"new", "admitted", "redeemed", "token",
                                         "invalid", "limited", "failed"}
    BY <1>3 DEF DeviceTypeOK
  <2>. QED
    BY <1>2, <1>5, <2>1 DEF DeviceTypeOK
<1>7. PollTyped'
  <2>1. poll' \in [Polls -> {[pc |-> "new"]} \cup Sent]
    BY <1>1, <1>3, <1>4 DEF PollTyped
  <2>. QED
    BY <1>2, <1>3, <1>4, <2>1 DEF PollTyped, DeviceTypeOK
<1>8. Counted'
  <2>1. \A q \in Polls : q # p /\ InWindow(q)' =>
          /\ InWindow(q) /\ poll'[q] = poll[q]
          /\ poll[q].from \in Addresses /\ poll[q].from # a
    BY <1>2, <1>3 DEF PollTyped, InWindow, Running, Sent
  <2>2. poll'[p].from = a
    BY <1>3
  <2>3. \A q \in Polls : InWindow(q)' => used'[poll'[q].from] > 0
    BY <1>2, <1>5, <2>1, <2>2 DEF Counted, DeviceTypeOK
  <2>4. \A q, r \in Polls :
          InWindow(q)' /\ InWindow(r)' /\ poll'[q].from = poll'[r].from => q = r
    BY <2>1, <2>2 DEF Counted
  <2>. QED
    BY <2>3, <2>4 DEF Counted
<1>9. Redeeming'
  BY <1>2, <1>3 DEF Redeeming
<1>10. OneTokenPerApproval'
  BY <1>2, <1>3 DEF OneTokenPerApproval
<1>. QED
  BY <1>6, <1>7, <1>8, <1>9, <1>10

(* The redemption holds the row until its transaction ends. *)
LEMMA RedeemKeeps ==
  ASSUME DeviceInv, NEW p \in Polls, Redeem(p)
  PROVE  DeviceInv'
<1>. DEFINE d == poll[p].device
            pc == IF Redeemable(d, poll[p].now) THEN "redeemed" ELSE "invalid"
<1>1. /\ poll[p].pc = "admitted" /\ Free(d)
      /\ poll' = [poll EXCEPT ![p].pc = pc]
      /\ UNCHANGED <<instant, grant, tokens, used, approvals>>
  BY DEF Redeem
<1>2. pc \in {"redeemed", "invalid"}
  OBVIOUS
<1>3. /\ poll' \in [Polls -> {[pc |-> "new"]} \cup Sent]
      /\ poll[p] \in Sent /\ poll'[p] \in Sent
      /\ poll'[p].pc = pc /\ poll'[p].device = poll[p].device
      /\ poll'[p].from = poll[p].from /\ poll'[p].now = poll[p].now
      /\ \A q \in Polls : q # p => poll'[q] = poll[q]
  BY <1>1, <1>2, PollGoesOn
<1>4. pc = "redeemed" => grant[d].by \in People /\ ~grant[d].redeemed
  BY <1>3 DEF Redeemable, DeviceInv, DeviceTypeOK, Sent
<1>. HIDE DEF pc
<1>5. DeviceTypeOK'
  BY <1>1, <1>2, <1>3 DEF DeviceInv, DeviceTypeOK
<1>6. PollTyped'
  BY <1>1, <1>3 DEF DeviceInv, PollTyped
<1>7. Counted'
  <2>1. \A q \in Polls : InWindow(q)' => InWindow(q) /\ poll'[q].from = poll[q].from
    BY <1>1, <1>3 DEF InWindow, Running
  <2>. QED
    BY <1>1, <2>1, CountStays DEF DeviceInv
<1>8. Redeeming'
  BY <1>1, <1>2, <1>3, <1>4 DEF DeviceInv, Redeeming, Free
<1>9. OneTokenPerApproval'
  BY <1>1, <1>2, <1>3 DEF DeviceInv, OneTokenPerApproval
<1>. QED
  BY <1>5, <1>6, <1>7, <1>8, <1>9 DEF DeviceInv

(* A token is issued for a row that was redeemed by this transaction. *)
LEMMA IssueTokenKeeps ==
  ASSUME DeviceInv, NEW p \in Polls, IssueToken(p)
  PROVE  DeviceInv'
<1>. DEFINE d == poll[p].device
            t == [device |-> d, subject |-> grant[d].by, poll |-> p]
<1>1. PICK told \in {"token", "failed"} : poll' = [poll EXCEPT ![p].pc = told]
  BY DEF IssueToken
<1>2. /\ poll[p].pc = "redeemed"
      /\ grant' = [grant EXCEPT ![d].redeemed = TRUE]
      /\ tokens' = tokens \cup {t}
      /\ UNCHANGED <<instant, used, approvals>>
  BY DEF IssueToken
<1>3. /\ poll' \in [Polls -> {[pc |-> "new"]} \cup Sent]
      /\ poll[p] \in Sent /\ poll'[p] \in Sent
      /\ poll'[p].pc = told /\ poll'[p].device = poll[p].device
      /\ poll'[p].from = poll[p].from /\ poll'[p].now = poll[p].now
      /\ \A q \in Polls : q # p => poll'[q] = poll[q]
  BY <1>1, <1>2, PollGoesOn
<1>4. d \in Devices /\ grant[d].by \in People /\ ~grant[d].redeemed
  BY <1>2, <1>3 DEF DeviceInv, Redeeming, Sent
<1>5. /\ grant' \in [Devices -> [expires : Nat, by : People \cup {Noone}, redeemed : BOOLEAN]]
      /\ grant'[d].redeemed /\ grant'[d].by = grant[d].by
      /\ \A e \in Devices : e # d => grant'[e] = grant[e]
  BY <1>2, <1>4 DEF DeviceInv, DeviceTypeOK
<1>6. t \in Token
  BY <1>4 DEF Token
<1>7. \A u \in tokens : u.device \in Devices /\ u.device # d
  BY <1>4 DEF DeviceInv, DeviceTypeOK, Token, OneTokenPerApproval
<1>. HIDE DEF t
<1>8. t.device = d /\ t.subject = grant[d].by /\ t.poll = p
  BY DEF t
<1>. HIDE DEF d
<1>9. DeviceTypeOK'
  BY <1>2, <1>3, <1>5, <1>6 DEF DeviceInv, DeviceTypeOK
<1>10. PollTyped'
  BY <1>2, <1>3 DEF DeviceInv, PollTyped
<1>11. Counted'
  <2>1. \A q \in Polls : InWindow(q)' => InWindow(q) /\ poll'[q].from = poll[q].from
    BY <1>2, <1>3 DEF InWindow, Running
  <2>. QED
    BY <1>2, <2>1, CountStays DEF DeviceInv
<1>12. Redeeming'
  <2>1. \A q \in Polls : poll'[q].pc = "redeemed" =>
          /\ poll'[q] = poll[q] /\ poll[q].pc = "redeemed"
          /\ poll[q].device \in Devices /\ poll[q].device # d
    BY <1>2, <1>3 DEF DeviceInv, PollTyped, Sent, Redeeming, d
  <2>. QED
    BY <1>5, <2>1 DEF DeviceInv, Redeeming
<1>13. OneTokenPerApproval'
  <2>1. \A u, v \in tokens' : u.device = v.device => u = v
    BY <1>2, <1>7, <1>8 DEF DeviceInv, OneTokenPerApproval
  <2>2. \A u \in tokens' : grant'[u.device].redeemed /\ grant'[u.device].by = u.subject
    BY <1>2, <1>5, <1>7, <1>8 DEF DeviceInv, OneTokenPerApproval
  <2>3. \A q \in Polls : poll'[q].pc = "token" => \E u \in tokens' : u.poll = q
    BY <1>2, <1>3, <1>8 DEF DeviceInv, OneTokenPerApproval
  <2>. QED
    BY <2>1, <2>2, <2>3 DEF OneTokenPerApproval
<1>. QED
  BY <1>9, <1>10, <1>11, <1>12, <1>13 DEF DeviceInv

(* A poll that rolls back gives up its row and its count. *)
LEMMA AbortPollKeeps ==
  ASSUME DeviceInv, NEW p \in Polls, AbortPoll(p)
  PROVE  DeviceInv'
<1>1. /\ Running(p)
      /\ poll' = [poll EXCEPT ![p].pc = "failed"]
      /\ used' = IF poll[p].now = instant
                   THEN [used EXCEPT ![poll[p].from] = @ - 1] ELSE used
      /\ UNCHANGED <<instant, grant, tokens, approvals>>
  BY DEF AbortPoll
<1>2. /\ poll' \in [Polls -> {[pc |-> "new"]} \cup Sent]
      /\ poll[p] \in Sent /\ poll'[p] \in Sent
      /\ poll'[p].pc = "failed" /\ poll'[p].device = poll[p].device
      /\ poll'[p].from = poll[p].from /\ poll'[p].now = poll[p].now
      /\ \A q \in Polls : q # p => poll'[q] = poll[q]
  BY <1>1, PollGoesOn DEF Running
<1>3. /\ used' \in [Addresses -> Nat]
      /\ \A a \in Addresses : a # poll[p].from \/ poll[p].now # instant => used'[a] = used[a]
  <2>1. CASE poll[p].now = instant
    <3>1. used[poll[p].from] > 0 /\ poll[p].from \in Addresses
      BY <1>1, <1>2, <2>1 DEF DeviceInv, Counted, InWindow, Sent
    <3>. QED
      BY <1>1, <2>1, <3>1 DEF DeviceInv, DeviceTypeOK
  <2>2. CASE poll[p].now # instant
    BY <1>1, <2>2 DEF DeviceInv, DeviceTypeOK
  <2>. QED
    BY <2>1, <2>2
<1>4. DeviceTypeOK'
  BY <1>1, <1>2, <1>3 DEF DeviceInv, DeviceTypeOK
<1>5. PollTyped'
  <2>1. poll[p].now <= instant
    BY <1>1 DEF DeviceInv, PollTyped, Running
  <2>. QED
    BY <1>1, <1>2, <2>1 DEF DeviceInv, PollTyped
<1>6. Counted'
  <2>1. \A q \in Polls : InWindow(q)' =>
          q # p /\ poll'[q] = poll[q] /\ InWindow(q) /\ poll[q].from \in Addresses
    BY <1>1, <1>2 DEF InWindow, Running, DeviceInv, PollTyped, Sent
  <2>2. \A q \in Polls : InWindow(q)' =>
          poll[q].from # poll[p].from \/ poll[p].now # instant
    BY <1>1, <2>1 DEF DeviceInv, Counted, InWindow
  <2>. QED
    BY <1>3, <2>1, <2>2, CountStays DEF DeviceInv
<1>7. Redeeming'
  BY <1>1, <1>2 DEF DeviceInv, Redeeming
<1>8. OneTokenPerApproval'
  BY <1>1, <1>2 DEF DeviceInv, OneTokenPerApproval
<1>. QED
  BY <1>4, <1>5, <1>6, <1>7, <1>8 DEF DeviceInv

(* Every step of a device keeps the invariant. *)
LEMMA DeviceStepInv == DeviceInv /\ [DeviceNext]_deviceVars => DeviceInv'
<1>. SUFFICES ASSUME DeviceInv, [DeviceNext]_deviceVars PROVE DeviceInv'
  OBVIOUS
<1>1. CASE UNCHANGED deviceVars
  BY <1>1 DEF deviceVars, DeviceInv, DeviceTypeOK, PollTyped, Counted, Running, InWindow,
              Redeeming, OneTokenPerApproval
<1>. QED
  BY <1>1, WindowKeeps, AuthorizeKeeps, ApproveKeeps, BeginPollKeeps, RedeemKeeps,
     IssueTokenKeeps, AbortPollKeeps DEF DeviceNext

(* The inductive invariant of the devices: how requests are counted, and    *)
(* what a redemption under way holds.                                      *)
THEOREM DeviceInvariance == DeviceSpec => []DeviceInv
<1>. QED
  BY DeviceInitInv, DeviceStepInv, PTL DEF DeviceSpec

(* The variables of the devices have their types; the count of a window is *)
(* never taken back below zero (the rollback of                            *)
(* consume_cli_device_rate_limit).                                         *)
THEOREM DeviceTypeCorrect == DeviceSpec => []DeviceTypeOK
<1>1. DeviceInv => DeviceTypeOK
  BY DEF DeviceInv
<1>. QED
  BY DeviceInvariance, <1>1, PTL

(* One token per approval, in the name of who approved, for any number of  *)
(* devices, people, polls and addresses (redeem_cli_device_authorization). *)
THEOREM TokensAreSingle == DeviceSpec => []OneTokenPerApproval
<1>1. DeviceInv => OneTokenPerApproval
  BY DEF DeviceInv
<1>. QED
  BY DeviceInvariance, <1>1, PTL

-----------------------------------------------------------------------------
(* Receipts *)

\* The object is there before the row is, and the row comes with the COMMIT.
ImageFirst ==
  /\ \A r \in Receipts : upload[r].pc \in {"in_try", "commit"} => r \in stored
  /\ \A r \in Receipts : receipt[r] # "absent" => upload[r].pc = "over"

\* Who has claimed a receipt holds its row, which has no transaction yet.
Holding(p) == post[p] \in {"claimed", "linking"}

Claimed ==
  \A p \in Posts :
    /\ \A r \in Receipts : rowLock[r] = p => ReceiptOf[p] = r /\ Holding(p)
    /\ Holding(p) => /\ rowLock[ReceiptOf[p]] = p
                     /\ receipt[ReceiptOf[p]] # "absent" /\ link[ReceiptOf[p]] = Nobody

\* Who inserts a transaction for a receipt is alone with it, and the first.
InsertsAlone ==
  \A p \in Posts : Inserting(p) =>
    /\ \A q \in Posts : q # p /\ ReceiptOf[q] = ReceiptOf[p]
                          => ~Inserting(q) /\ q \notin posted
    /\ p \notin posted

\* Only a request that has ended has a transaction.
PostedHasEnded == \A p \in posted : post[p] = "created"

ReceiptInv ==
  /\ ReceiptTypeOK /\ ImageFirst /\ Claimed /\ InsertsAlone /\ PostedHasEnded
  /\ ReceiptsHold

(* The invariant holds before the first upload. *)
LEMMA ReceiptInitInv == ReceiptInit => ReceiptInv
<1>. SUFFICES ASSUME ReceiptInit PROVE ReceiptInv
  OBVIOUS
<1>1. (CHOOSE r \in Receipts : TRUE) \in Receipts
  BY ReceiptsAssumption
<1>2. ReceiptTypeOK
  BY <1>1 DEF ReceiptInit, ReceiptTypeOK, Claimable, Answers
<1>3. ImageFirst /\ Claimed /\ InsertsAlone /\ PostedHasEnded
  BY NobodyAssumption DEF ReceiptInit, ImageFirst, Claimed, Holding, InsertsAlone, PostedHasEnded,
                          Inserting
<1>4. ReceiptsHold
  BY DEF ReceiptInit, ReceiptsHold, EveryReceiptHasItsImage, ConfirmedByItsTransaction
<1>. QED
  BY <1>2, <1>3, <1>4 DEF ReceiptInv

(* An upload keeps the invariant: its row appears after its object and     *)
(* without a transaction.                                                  *)
LEMMA UploadKeeps ==
  ASSUME ReceiptInv, NEW r \in Receipts, UploadStep(r)
  PROVE  ReceiptInv'
<1>. USE DEF ReceiptInv
<1>1. receipt[r] = "absent"
  BY DEF UploadStep, SendObject, WriteReceipt, WriteReceiptFails, CommitReceipt, Uploading,
         ImageFirst
<1>2. \A q \in Receipts : q # r => receipt'[q] = receipt[q] /\ upload'[q] = upload[q]
                                   /\ (q \in stored' <=> q \in stored)
  BY DEF UploadStep, SendObject, WriteReceipt, WriteReceiptFails, CommitReceipt, Insert,
         ReceiptTypeOK
<1>3. receipt'[r] \in {"absent"} \cup Claimable
  BY <1>1 DEF UploadStep, SendObject, WriteReceipt, WriteReceiptFails, CommitReceipt, Insert,
              ReceiptTypeOK, Claimable
<1>4. UNCHANGED <<link, delivery, rowLock, post, posted>>
  BY DEF UploadStep, SendObject, WriteReceipt, WriteReceiptFails, CommitReceipt
<1>5. ReceiptTypeOK'
  <2>1. CASE SendObject(r)
    BY <2>1, <1>4 DEF SendObject, ReceiptTypeOK
  <2>2. CASE WriteReceipt(r)
    BY <2>2, <1>4 DEF WriteReceipt, ReceiptTypeOK, Preferences
  <2>3. CASE WriteReceiptFails(r)
    <3>1. [upload[r] EXCEPT !.pc = "over"]
            \in [pc : {"new", "in_try", "commit", "over"}, job : BOOLEAN,
                 status : {"uploaded", "awaiting_review"}]
      BY SMTT(40) DEF ReceiptTypeOK
    <3>. QED
      BY <2>3, <3>1, <1>4 DEF WriteReceiptFails, ReceiptTypeOK
  <2>4. CASE CommitReceipt(r)
    <3>1. [upload[r] EXCEPT !.pc = "over"]
            \in [pc : {"new", "in_try", "commit", "over"}, job : BOOLEAN,
                 status : {"uploaded", "awaiting_review"}]
      BY SMTT(40) DEF ReceiptTypeOK
    <3>2. upload[r].status \in Claimable
      BY DEF ReceiptTypeOK, Claimable
    <3>3. upload' \in [Receipts -> [pc : {"new", "in_try", "commit", "over"}, job : BOOLEAN,
                                    status : {"uploaded", "awaiting_review"}]]
      BY <2>4, <3>1 DEF CommitReceipt, ReceiptTypeOK
    <3>4. receipt' \in [Receipts -> {"absent", "confirmed"} \cup Claimable]
      BY <2>4, <3>2 DEF CommitReceipt, Insert, ReceiptTypeOK
    <3>5. ocrJob' \in [Receipts -> {"none", "open", "completed", "failed"}]
      BY <2>4 DEF CommitReceipt, Insert, ReceiptTypeOK
    <3>. QED
      BY <2>4, <3>3, <3>4, <3>5, <1>4 DEF CommitReceipt, ReceiptTypeOK
  <2>. QED
    BY <2>1, <2>2, <2>3, <2>4 DEF UploadStep
<1>6. ImageFirst' /\ EveryReceiptHasItsImage'
  <2>1. upload'[r].pc \in {"in_try", "commit"} => r \in stored'
    BY DEF UploadStep, SendObject, WriteReceipt, WriteReceiptFails, CommitReceipt,
           ReceiptTypeOK, Uploading, ImageFirst
  <2>2. receipt'[r] # "absent" => upload'[r].pc = "over" /\ r \in stored'
    BY <1>1 DEF UploadStep, SendObject, WriteReceipt, WriteReceiptFails, CommitReceipt,
           ReceiptTypeOK, Uploading, ImageFirst
  <2>. QED
    BY <1>2, <2>1, <2>2 DEF ImageFirst, ReceiptsHold, EveryReceiptHasItsImage
<1>7. Claimed' /\ InsertsAlone' /\ PostedHasEnded'
  BY <1>1, <1>2, <1>4, ReceiptsAssumption
     DEF Claimed, Holding, InsertsAlone, PostedHasEnded, Inserting
<1>8. ConfirmedByItsTransaction'
  BY <1>1, <1>2, <1>3, <1>4
     DEF ReceiptsHold, ConfirmedByItsTransaction, Claimable
<1>. QED
  BY <1>5, <1>6, <1>7, <1>8 DEF ReceiptsHold

(* Recognition, and its failure, keep the invariant: they write a receipt  *)
(* that nobody holds and that has no transaction.                          *)
LEMMA RecognitionKeeps ==
  ASSUME ReceiptInv,
         \/ \E r \in Receipts : FailJob(r)
         \/ \E d \in Deliveries : Bind(d) \/ Recognise(d) \/ Persist(d) \/ DropDelivery(d)
  PROVE  ReceiptInv'
<1>. USE DEF ReceiptInv
<1>1. UNCHANGED <<upload, stored, link, rowLock, post, posted>>
  BY DEF FailJob, Bind, Recognise, Persist, DropDelivery
<1>2. ReceiptTypeOK'
  <2>1. CASE \E r \in Receipts : FailJob(r)
    BY <2>1, <1>1 DEF FailJob, ReceiptTypeOK, Claimable
  <2>2. CASE \E d \in Deliveries : Bind(d)
    BY <2>2, <1>1 DEF Bind, ReceiptTypeOK
  <2>3. CASE \E d \in Deliveries : Recognise(d) \/ DropDelivery(d)
    <3>. PICK d \in Deliveries : Recognise(d) \/ DropDelivery(d)
      BY <2>3
    <3>1. /\ [delivery[d] EXCEPT !.pc = "recognised"]
               \in [pc : {"none", "bound", "recognised", "over"}, of : Receipts,
                    settled : BOOLEAN]
          /\ [delivery[d] EXCEPT !.pc = "over"]
               \in [pc : {"none", "bound", "recognised", "over"}, of : Receipts,
                    settled : BOOLEAN]
      BY DEF ReceiptTypeOK
    <3>2. CASE Recognise(d)
      BY <3>1, <3>2, <1>1 DEF Recognise, ReceiptTypeOK
    <3>3. CASE DropDelivery(d)
      BY <3>1, <3>3, <1>1 DEF DropDelivery, ReceiptTypeOK
    <3>. QED
      BY <3>2, <3>3
  <2>4. CASE \E d \in Deliveries : Persist(d)
    <3>. PICK d \in Deliveries : Persist(d)
      BY <2>4
    <3>1. delivery[d].of \in Receipts
      BY DEF ReceiptTypeOK
    <3>. QED
      BY <3>1, <1>1 DEF Persist, ReceiptTypeOK, Claimable
  <2>. QED
    BY <2>1, <2>2, <2>3, <2>4
<1>3. \A q \in Receipts : receipt'[q] # receipt[q] =>
        receipt[q] \in Unread /\ receipt'[q] \in Claimable /\ link[q] = Nobody
  BY DEF FailJob, Bind, Recognise, Persist, DropDelivery, ReceiptTypeOK, StillUnread,
         Claimable
<1>4. ImageFirst' /\ Claimed' /\ InsertsAlone' /\ PostedHasEnded'
  BY <1>1, <1>3, ReceiptsAssumption
     DEF ImageFirst, Claimed, Holding, InsertsAlone, PostedHasEnded, Inserting, Unread, Claimable
<1>5. ReceiptsHold'
  BY <1>1, <1>3 DEF ReceiptsHold, EveryReceiptHasItsImage, ConfirmedByItsTransaction,
                    Unread, Claimable
<1>. QED
  BY <1>2, <1>4, <1>5

(* A request that is refused, or rolled back, leaves the others alone and  *)
(* nothing of its own.                                                     *)
LEMMA RefusalKeeps ==
  ASSUME ReceiptInv, NEW p \in Posts, NEW answer \in Answers \ {"created"},
         post[p] # "created", Refuse(p, answer)
  PROVE  ReceiptInv'
<1>. USE DEF ReceiptInv
<1>1. ReceiptTypeOK'
  BY DEF Refuse, ReleaseClaim, ReceiptTypeOK
<1>2. ImageFirst' /\ ReceiptsHold'
  BY DEF Refuse, ImageFirst, ReceiptsHold, EveryReceiptHasItsImage,
         ConfirmedByItsTransaction
<1>3. Claimed'
  <2>1. \A q \in Posts : Holding(q)' <=> q # p /\ Holding(q)
    BY DEF Refuse, Holding, ReceiptTypeOK, Answers
  <2>2. \A q \in Posts, r \in Receipts : rowLock'[r] = q <=> q # p /\ rowLock[r] = q
    BY NobodyAssumption DEF Refuse, ReleaseClaim
  <2>. QED
    BY <2>1, <2>2, ReceiptsAssumption DEF Claimed, Refuse
<1>4. InsertsAlone' /\ PostedHasEnded'
  BY DEF Refuse, InsertsAlone, PostedHasEnded, Inserting, ReceiptTypeOK, Answers
<1>. QED
  BY <1>1, <1>2, <1>3, <1>4

(* The insert goes through: no rival has a transaction or is about to.     *)
LEMMA InsertionKeeps ==
  ASSUME ReceiptInv, NEW p \in Posts, CreateTransaction(p)
  PROVE  ReceiptInv'
<1>. USE DEF ReceiptInv
<1>1. CASE \E answer \in Answers \ {"created"} : Refuse(p, answer)
  BY <1>1, RefusalKeeps DEF CreateTransaction
<1>2. CASE /\ ~ \E q \in Rivals(p) : Inserting(q)
           /\ Rivals(p) \cap posted = {}
           /\ post' = [post EXCEPT ![p] =
                IF post[p] = "claimed" THEN "linking" ELSE "commit"]
           /\ UNCHANGED <<upload, stored, receipt, link, ocrJob, delivery, rowLock, posted>>
  <2>0. post[p] \in {"claimed", "direct"}
    BY DEF CreateTransaction
  <2>1. ReceiptTypeOK'
    BY <1>2 DEF ReceiptTypeOK
  <2>2. ImageFirst' /\ ReceiptsHold'
    BY <1>2 DEF ImageFirst, ReceiptsHold, EveryReceiptHasItsImage, ConfirmedByItsTransaction
  <2>3. Claimed'
    BY <1>2, <2>0, ReceiptsAssumption DEF Claimed, Holding, ReceiptTypeOK
  <2>4. p \notin posted
    BY <2>0 DEF PostedHasEnded
  <2>5. InsertsAlone'
    BY <1>2, <2>0, <2>4 DEF InsertsAlone, Inserting, Rivals, ReceiptTypeOK
  <2>6. PostedHasEnded'
    BY <1>2, <2>4 DEF PostedHasEnded, ReceiptTypeOK
  <2>. QED
    BY <2>1, <2>2, <2>3, <2>5, <2>6
<1>. QED
  BY <1>1, <1>2 DEF CreateTransaction, Answers

(* A post that begins, or commits, keeps the invariant: its receipt has no *)
(* transaction before, and has its own after.                              *)
LEMMA PostKeeps ==
  ASSUME ReceiptInv, NEW p \in Posts, PostStep(p)
  PROVE  ReceiptInv'
<1>. USE DEF ReceiptInv
<1>. DEFINE r == ReceiptOf[p]
<1>0. r \in Receipts
  BY ReceiptsAssumption
<1>1. CASE Claim(p)
  <2>1. ReceiptTypeOK'
    BY <1>1, <1>0 DEF Claim, ReceiptTypeOK, Answers
  <2>2. ImageFirst' /\ ReceiptsHold'
    BY <1>1 DEF Claim, ImageFirst, ReceiptsHold, EveryReceiptHasItsImage,
                ConfirmedByItsTransaction
  <2>3. Claimed'
    <3>1. CASE post' = [post EXCEPT ![p] = "conflict"] /\ UNCHANGED rowLock
      BY <1>1, <3>1 DEF Claim, Claimed, Holding, ReceiptTypeOK
    <3>2. CASE /\ receipt[r] \in Claimable /\ link[r] = Nobody
               /\ rowLock' = [rowLock EXCEPT ![r] = p]
               /\ post' = [post EXCEPT ![p] = "claimed"]
      <4>1. \A q \in Posts : Holding(q)' <=> q = p \/ Holding(q)
        BY <3>2 DEF Holding, ReceiptTypeOK
      <4>2. \A q \in Posts, x \in Receipts :
              rowLock'[x] = q <=> IF x = r THEN q = p ELSE rowLock[x] = q
        BY <3>2 DEF ReceiptTypeOK
      <4>3. \A q \in Posts : Holding(q) => ReceiptOf[q] # r
        BY <1>1, NobodyAssumption DEF Claim, Claimed
      <4>. QED
        BY <1>0, <1>1, <3>2, <4>1, <4>2, <4>3, ReceiptsAssumption
           DEF Claim, Claimed, Claimable
    <3>. QED
      BY <1>1, <3>1, <3>2 DEF Claim
  <2>4. InsertsAlone' /\ PostedHasEnded'
    BY <1>1 DEF Claim, InsertsAlone, PostedHasEnded, Inserting, ReceiptTypeOK
  <2>. QED
    BY <2>1, <2>2, <2>3, <2>4
<1>2. CASE PostDirectly(p)
  <2>1. ReceiptTypeOK' /\ ImageFirst' /\ ReceiptsHold'
    BY <1>2 DEF PostDirectly, ReceiptTypeOK, ImageFirst, ReceiptsHold,
                EveryReceiptHasItsImage, ConfirmedByItsTransaction
  <2>2. Claimed'
    BY <1>2, ReceiptsAssumption DEF PostDirectly, Claimed, Holding, ReceiptTypeOK
  <2>3. InsertsAlone' /\ PostedHasEnded'
    BY <1>2 DEF PostDirectly, InsertsAlone, PostedHasEnded, Inserting, ReceiptTypeOK
  <2>. QED
    BY <2>1, <2>2, <2>3
<1>3. CASE CreateTransaction(p)
  BY <1>3, InsertionKeeps
<1>4. CASE ConfirmReceipt(p)
  <2>0. /\ post[p] = "linking" /\ rowLock[r] = p /\ link[r] = Nobody
        /\ receipt[r] # "absent" /\ Inserting(p)
    BY <1>4 DEF ConfirmReceipt, Claimed, Holding, Inserting
  <2>1. ReceiptTypeOK'
    BY <1>4, <1>0 DEF ConfirmReceipt, ReleaseClaim, ReceiptTypeOK, Answers
  <2>2. ImageFirst' /\ EveryReceiptHasItsImage'
    BY <1>4, <2>0, <1>0 DEF ConfirmReceipt, ImageFirst, ReceiptsHold, EveryReceiptHasItsImage,
                      ReceiptTypeOK
  <2>3. Claimed'
    <3>1. \A q \in Posts : Holding(q)' <=> q # p /\ Holding(q)
      BY <1>4 DEF ConfirmReceipt, Holding, ReceiptTypeOK
    <3>2. \A q \in Posts, x \in Receipts : rowLock'[x] = q <=> q # p /\ rowLock[x] = q
      BY <1>4, NobodyAssumption DEF ConfirmReceipt, ReleaseClaim
    <3>3. \A q \in Posts : q # p /\ Holding(q) => ReceiptOf[q] # r
      BY <2>0 DEF Claimed
    <3>4. \A x \in Receipts : x # r => receipt'[x] = receipt[x] /\ link'[x] = link[x]
      BY <1>4 DEF ConfirmReceipt, ReceiptTypeOK
    <3>. QED
      BY <3>1, <3>2, <3>3, <3>4, ReceiptsAssumption DEF Claimed
  <2>4. InsertsAlone' /\ PostedHasEnded'
    BY <1>4, <2>0 DEF ConfirmReceipt, InsertsAlone, PostedHasEnded, Inserting, ReceiptTypeOK
  <2>5. ConfirmedByItsTransaction'
    BY <1>4, <2>0, <1>0, NobodyAssumption
       DEF ConfirmReceipt, ReceiptsHold, ConfirmedByItsTransaction, InsertsAlone,
           ReceiptTypeOK
  <2>. QED
    BY <2>1, <2>2, <2>3, <2>4, <2>5 DEF ReceiptsHold
<1>5. CASE CommitDirect(p)
  <2>0. post[p] = "commit" /\ Inserting(p)
    BY <1>5 DEF CommitDirect, Inserting
  <2>1. ReceiptTypeOK' /\ ImageFirst' /\ EveryReceiptHasItsImage'
    BY <1>5 DEF CommitDirect, ReceiptTypeOK, ImageFirst, ReceiptsHold,
                EveryReceiptHasItsImage, Answers
  <2>2. Claimed'
    BY <1>5, <2>0, ReceiptsAssumption DEF CommitDirect, Claimed, Holding, ReceiptTypeOK
  <2>3. InsertsAlone' /\ PostedHasEnded'
    BY <1>5, <2>0 DEF CommitDirect, InsertsAlone, PostedHasEnded, Inserting, ReceiptTypeOK
  <2>4. ConfirmedByItsTransaction'
    BY <1>5, <2>0 DEF CommitDirect, ReceiptsHold, ConfirmedByItsTransaction, InsertsAlone,
                      ReceiptTypeOK
  <2>. QED
    BY <2>1, <2>2, <2>3, <2>4 DEF ReceiptsHold
<1>6. CASE AbortPost(p)
  BY <1>6, RefusalKeeps DEF AbortPost, Answers
<1>. QED
  BY <1>1, <1>2, <1>3, <1>4, <1>5, <1>6 DEF PostStep

(* Every step of the receipts keeps the invariant. *)
LEMMA ReceiptStepInv == ReceiptInv /\ [ReceiptNext]_receiptVars => ReceiptInv'
<1>. SUFFICES ASSUME ReceiptInv, [ReceiptNext]_receiptVars PROVE ReceiptInv'
  OBVIOUS
<1>1. CASE UNCHANGED receiptVars
  BY <1>1 DEF receiptVars, ReceiptInv, ReceiptTypeOK, ImageFirst, Claimed, Holding, InsertsAlone,
              PostedHasEnded, Inserting, ReceiptsHold, EveryReceiptHasItsImage,
              ConfirmedByItsTransaction
<1>. QED
  BY <1>1, UploadKeeps, RecognitionKeeps, PostKeeps DEF ReceiptNext

(* The inductive invariant of the receipts: what an upload has sent, what  *)
(* a claim holds, and who may insert a transaction.                        *)
THEOREM ReceiptInvariance == ReceiptSpec => []ReceiptInv
<1>. QED
  BY ReceiptInitInv, ReceiptStepInv, PTL DEF ReceiptSpec

(* The variables of the receipts have their types. *)
THEOREM ReceiptTypeCorrect == ReceiptSpec => []ReceiptTypeOK
<1>1. ReceiptInv => ReceiptTypeOK
  BY DEF ReceiptInv
<1>. QED
  BY ReceiptInvariance, <1>1, PTL

(* A receipt has its image, and one transaction at most, which confirms it *)
(* if it carries one: for any number of uploads, deliveries, posts, keys   *)
(* (createReceipt, confirmReceipt, the unique index on receipt_id).        *)
THEOREM ReceiptsAgree == ReceiptSpec => []ReceiptsHold
<1>1. ReceiptInv => ReceiptsHold
  BY DEF ReceiptInv
<1>. QED
  BY ReceiptInvariance, <1>1, PTL

-----------------------------------------------------------------------------
(* Imports *)

\* What an importer is, with what it has read and prepared.
Prepared == [pc : {"new"} \cup Stretches \cup Outcomes,
             rows : SUBSET Lines,
             seen : UNION {[K -> Entry] : K \in SUBSET Keys}]

Busy(p) == importer[p].pc \in Stretches

\* The workspace is locked by the one importer that is under way.
OneImporter == \A p \in Importers : Busy(p) <=> wsLock = p

\* A transaction has been what it is.
RowsAreHad == \A k \in entries : entry[k].row \in entry[k].had

\* Lines to import: equal ones together, those left out are in the account, and
\* where duplicates are skipped the others are not, as far as nobody edits.
ToImport(p, rows) ==
  /\ rows \subseteq LinesOf[FileOf[p]]
  /\ \A l \in rows, m \in LinesOf[FileOf[p]] : LineRow[l] = LineRow[m] => m \in rows
  /\ p \in SkipsDuplicates =>
       \A l \in rows, k \in Of(AccountOf[p]) : entry[k].had # {LineRow[l]}
  /\ \A l \in LinesOf[FileOf[p]] \ rows : LineRow[l] \in RowsHad(AccountOf[p])

\* A commit past its checks: its import is still to be committed, and its rows
\* are to be imported still.
CommitsArePrepared ==
  \A p \in Commits :
    /\ importer[p].pc \in {"ready", "write"} =>
         import[FileOf[p]].status = "awaiting_mapping"
    /\ importer[p].pc = "write" => ToImport(p, importer[p].rows)

\* What was read of a file: every transaction of it, and what is voided in it is.
ReadOf(f, seen) ==
  /\ DOMAIN seen = OfFile(f)
  /\ \A k \in OfFile(f) : seen[k].status = "voided" => entry[k].status = "voided"

\* A rollback past its checks: its import is committed still, and what it has
\* read to be voided is.
RollbacksArePrepared ==
  \A p \in Rollbacks :
    /\ importer[p].pc \in {"ready", "write", "voided"} =>
         import[FileOf[p]].status = "completed"
    /\ importer[p].pc \in {"write", "voided"} => ReadOf(FileOf[p], importer[p].seen)

ImportInv ==
  /\ ImportTypeOK /\ importer \in [Importers -> Prepared]
  /\ OneImporter /\ RowsAreHad /\ CommitsArePrepared /\ RollbacksArePrepared
  /\ ImportsAreWhole /\ RowsAreImportedOnce

(* A record of a request that goes on.                                     *)
LEMMA MovedIsPrepared ==
  ASSUME importer \in [Importers -> Prepared], NEW p \in Importers, NEW pc \in Stretches
  PROVE  /\ [importer[p] EXCEPT !.pc = pc] \in Prepared
         /\ [importer EXCEPT ![p].pc = pc]
              = [importer EXCEPT ![p] = [importer[p] EXCEPT !.pc = pc]]
         /\ [importer[p] EXCEPT !.pc = pc].pc = pc
         /\ [importer[p] EXCEPT !.pc = pc].seen = importer[p].seen
  BY DEF Prepared

LEMMA EndedIsPrepared ==
  ASSUME NEW pc \in Outcomes
  PROVE  [pc |-> pc, rows |-> {}, seen |-> Unseen] \in Prepared
<1>1. Unseen \in [{} -> Entry]
  BY DEF Unseen
<1>2. {} \in SUBSET Keys
  OBVIOUS
<1>3. Unseen \in UNION {[K -> Entry] : K \in SUBSET Keys}
  BY <1>1, <1>2
<1>. QED
  BY <1>3 DEF Prepared

(* The books are typed, and so are the rows of an account.                 *)
LEMMA KeyFacts ==
  ASSUME ImportTypeOK, NEW k \in entries
  PROVE  /\ k \in Keys /\ k[1] \in Commits /\ k[2] \in Lines /\ k = <<k[1], k[2]>>
         /\ k[1] \in Importers /\ FileOf[k[1]] \in Files /\ AccountOf[k[1]] \in Accounts
         /\ entry[k] \in Entry
  BY ImportsAssumption DEF ImportTypeOK, Keys, Importers

(* The invariant holds at first.                                           *)
LEMMA ImportInitInv == ImportInit => ImportInv
<1>. SUFFICES ASSUME ImportInit PROVE ImportInv
  OBVIOUS
<1>1. [pc |-> "new", rows |-> {}, seen |-> Unseen] \in Prepared
  <2>1. Unseen \in [{} -> Entry]
    BY DEF Unseen
  <2>2. Unseen \in UNION {[K -> Entry] : K \in SUBSET Keys}
    BY <2>1
  <2>. QED
    BY <2>2 DEF Prepared
<1>2. importer \in [Importers -> Prepared]
  BY <1>1 DEF ImportInit
<1>3. \A p \in Importers : /\ importer[p].pc = "new" /\ importer[p].rows = {}
                           /\ DOMAIN importer[p].seen \subseteq Keys
  BY DEF ImportInit, Unseen
<1>4. ImportTypeOK
  <2>1. entry \in [entries -> Entry]
    BY DEF ImportInit, Unseen
  <2>2. import \in [Files -> [status : {"awaiting_mapping", "completed", "rolled_back"},
                              account : Accounts \cup {Nowhere}]]
    BY DEF ImportInit
  <2>. QED
    BY <2>1, <2>2, <1>3 DEF ImportInit, ImportTypeOK
<1>5. OneImporter
  BY <1>3, ImportsAssumption DEF ImportInit, OneImporter, Busy, Stretches
<1>6. CommitsArePrepared /\ RollbacksArePrepared
  BY <1>3 DEF CommitsArePrepared, RollbacksArePrepared, Importers
<1>7. ImportsAreWhole /\ RowsAreImportedOnce /\ RowsAreHad
  BY <1>3 DEF ImportInit, ImportsAreWhole, FileIsWhole, Whole, RowsAreImportedOnce, OfFile,
     RowsAreHad
<1>. QED
  BY <1>2, <1>4, <1>5, <1>6, <1>7 DEF ImportInv

\* What is said of the books stays so when they do.
LEMMA SameBooks ==
  ASSUME UNCHANGED books
  PROVE  /\ import' = import /\ entries' = entries /\ entry' = entry
         /\ \A f : OfFile(f)' = OfFile(f)
         /\ \A a : Of(a)' = Of(a) /\ RowsHad(a)' = RowsHad(a)
         /\ \A p, rows : ToImport(p, rows) => ToImport(p, rows)'
         /\ \A f, seen : ReadOf(f, seen) => ReadOf(f, seen)'
         /\ RowsAreHad => RowsAreHad'
         /\ RowsAreImportedOnce => RowsAreImportedOnce'
<1>1. import' = import /\ entries' = entries /\ entry' = entry
  BY DEF books
<1>2. /\ \A f : OfFile(f)' = OfFile(f)
      /\ \A a : Of(a)' = Of(a) /\ RowsHad(a)' = RowsHad(a)
  BY <1>1 DEF OfFile, Of, RowsHad
<1>3. /\ \A p, rows : ToImport(p, rows) => ToImport(p, rows)'
      /\ \A f, seen : ReadOf(f, seen) => ReadOf(f, seen)'
  BY <1>1, <1>2 DEF ToImport, ReadOf
<1>4. /\ RowsAreHad => RowsAreHad'
      /\ RowsAreImportedOnce => RowsAreImportedOnce'
  BY <1>1 DEF RowsAreHad, RowsAreImportedOnce
<1>. QED
  BY <1>1, <1>2, <1>3, <1>4

(* A request that goes on, or ends, without touching the books.            *)
LEMMA RequestKeeps ==
  ASSUME ImportInv, NEW p \in Importers, NEW x \in Prepared,
         importer[p].pc \in {"new"} \cup Stretches, x.pc # "half",
         importer' = [importer EXCEPT ![p] = x], UNCHANGED <<books, others>>,
         accLock' \in [Accounts -> Importers \cup {Nowhere}],
         wsLock \in {p, Nowhere},
         wsLock' = IF x.pc \in Stretches THEN p ELSE Nowhere,
         p \in Commits /\ x.pc \in {"ready", "write"} =>
           import[FileOf[p]].status = "awaiting_mapping",
         p \in Commits /\ x.pc = "write" => ToImport(p, x.rows),
         p \in Rollbacks /\ x.pc \in {"ready", "write", "voided"} =>
           import[FileOf[p]].status = "completed",
         p \in Rollbacks /\ x.pc \in {"write", "voided"} => ReadOf(FileOf[p], x.seen)
  PROVE  ImportInv'
<1>1. /\ importer'[p] = x
      /\ \A q \in Importers \ {p} : importer'[q] = importer[q]
      /\ importer' \in [Importers -> Prepared]
  BY DEF ImportInv
<1>2. /\ import' = import /\ entries' = entries /\ entry' = entry
      /\ closed' = closed /\ barred' = barred /\ edits' = edits
  BY DEF books, others
<1>3. /\ \A f : OfFile(f)' = OfFile(f)
      /\ \A a : RowsHad(a)' = RowsHad(a)
      /\ \A q, rows : ToImport(q, rows) => ToImport(q, rows)'
      /\ \A f, seen : ReadOf(f, seen) => ReadOf(f, seen)'
      /\ RowsAreHad' /\ RowsAreImportedOnce'
  BY SameBooks DEF ImportInv
<1>4. ImportTypeOK'
  <2>1. \A q \in Importers :
          /\ importer'[q].pc \in {"new"} \cup Stretches \cup Outcomes
          /\ importer'[q].rows \subseteq Lines
          /\ DOMAIN importer'[q].seen \subseteq Keys
    BY <1>1 DEF Prepared
  <2>. QED
    BY <2>1, <1>2 DEF ImportInv, ImportTypeOK
<1>5. OneImporter'
  <2>1. \A q \in Importers \ {p} : ~Busy(q)
    BY ImportsAssumption DEF ImportInv, OneImporter
  <2>2. \A q \in Importers \ {p} : ~Busy(q)'
    BY <2>1, <1>1 DEF Busy
  <2>3. Busy(p)' <=> x.pc \in Stretches
    BY <1>1 DEF Busy
  <2>. QED
    BY <2>2, <2>3, ImportsAssumption DEF OneImporter
<1>6. CommitsArePrepared'
  <2>. SUFFICES ASSUME NEW q \in Commits
       PROVE (/\ importer[q].pc \in {"ready", "write"} =>
                   import[FileOf[q]].status = "awaiting_mapping"
              /\ importer[q].pc = "write" => ToImport(q, importer[q].rows))'
    BY DEF CommitsArePrepared
  <2>1. CASE q = p
    BY <2>1, <1>1, <1>2, <1>3
  <2>2. CASE q # p
    <3>1. importer'[q] = importer[q]
      BY <2>2, <1>1 DEF Importers
    <3>. QED
      BY <3>1, <1>2, <1>3 DEF ImportInv, CommitsArePrepared
  <2>. QED
    BY <2>1, <2>2
<1>7. RollbacksArePrepared'
  <2>. SUFFICES ASSUME NEW q \in Rollbacks
       PROVE (/\ importer[q].pc \in {"ready", "write", "voided"} =>
                   import[FileOf[q]].status = "completed"
              /\ importer[q].pc \in {"write", "voided"} =>
                   ReadOf(FileOf[q], importer[q].seen))'
    BY DEF RollbacksArePrepared
  <2>1. CASE q = p
    BY <2>1, <1>1, <1>2, <1>3
  <2>2. CASE q # p
    <3>1. importer'[q] = importer[q]
      BY <2>2, <1>1 DEF Importers
    <3>. QED
      BY <3>1, <1>2, <1>3 DEF ImportInv, RollbacksArePrepared
  <2>. QED
    BY <2>1, <2>2
<1>8. ImportsAreWhole'
  <2>1. \A k \in entries : importer'[k[1]] = importer[k[1]]
    <3>. SUFFICES ASSUME NEW k \in entries PROVE k[1] # p /\ k[1] \in Importers
      BY <1>1
    <3>1. importer[k[1]].pc \in {"ok", "half"}
      BY DEF ImportInv, ImportsAreWhole
    <3>. QED
      BY <3>1, KeyFacts DEF ImportInv, Stretches
  <2>2. \A f : Whole(f)' = Whole(f)
    BY <2>1, <1>3 DEF Whole, ByHalf, OfFile
  <2>3. \A q \in Importers : importer'[q].pc = "half" => importer[q].pc = "half"
    BY <1>1
  <2>4. \A f \in Files : FileIsWhole(f)'
    BY <2>2, <1>2, <1>3 DEF ImportInv, ImportsAreWhole, FileIsWhole
  <2>. QED
    BY <2>1, <2>3, <2>4, <1>2 DEF ImportInv, ImportsAreWhole
<1>. QED
  BY <1>1, <1>3, <1>4, <1>5, <1>6, <1>7, <1>8 DEF ImportInv

(* One that is refused leaves the books alone.                             *)
LEMMA ImportRefusalKeeps ==
  ASSUME ImportInv, NEW p \in Importers, Busy(p), NEW outcome \in Outcomes \ {"half"},
         Refused(p, outcome)
  PROVE  ImportInv'
<1>. DEFINE x == [pc |-> outcome, rows |-> {}, seen |-> Unseen]
<1>1. x \in Prepared /\ x.pc \notin Stretches
  BY EndedIsPrepared DEF Outcomes, Stretches
<1>2. wsLock = p
  BY DEF ImportInv, OneImporter
<1>3. /\ importer' = [importer EXCEPT ![p] = x] /\ UNCHANGED books
      /\ wsLock' = Nowhere /\ UNCHANGED others
  BY <1>2 DEF Refused, Answer
<1>4. accLock' \in [Accounts -> Importers \cup {Nowhere}]
  BY <1>3 DEF Refused, Answer, ImportInv, ImportTypeOK
<1>5. x.pc \notin {"ready", "write", "voided"} /\ x.pc # "half"
  BY <1>1 DEF Stretches
<1>6. importer[p].pc \in Stretches
  BY DEF Busy
<1>. QED
  <2>. HIDE DEF x
  <2>. QED
    BY <1>1, <1>2, <1>3, <1>4, <1>5, <1>6, RequestKeeps

(* One that goes on to its next stretch.                                   *)
LEMMA LockKeeps ==
  ASSUME ImportInv, NEW p \in Importers, LockWorkspace(p)
  PROVE  ImportInv'
<1>. DEFINE x == [importer[p] EXCEPT !.pc = "locked"]
<1>1. x \in Prepared /\ x.pc = "locked" /\ importer' = [importer EXCEPT ![p] = x]
  BY MovedIsPrepared DEF ImportInv, LockWorkspace, Became, Stretches
<1>2. /\ UNCHANGED <<books, others>>
      /\ accLock' \in [Accounts -> Importers \cup {Nowhere}]
      /\ wsLock = Nowhere /\ wsLock' = p /\ importer[p].pc = "new"
  BY DEF LockWorkspace, ImportInv, ImportTypeOK, ImporterAt
<1>3. x.pc \in Stretches
  BY <1>1 DEF Stretches
<1>. QED
  <2>. HIDE DEF x
  <2>. QED
    BY <1>1, <1>2, <1>3, RequestKeeps

(* Locking an account and going on to read.                                *)
LEMMA HoldKeeps ==
  ASSUME ImportInv, NEW p \in Importers, NEW a,
         ImporterAt(p, "locked"), Hold(p, a), Became(p, "ready"),
         UNCHANGED <<books, others>>,
         p \in Commits => import[FileOf[p]].status = "awaiting_mapping",
         p \in Rollbacks => import[FileOf[p]].status = "completed"
  PROVE  ImportInv'
<1>. DEFINE x == [importer[p] EXCEPT !.pc = "ready"]
<1>1. x \in Prepared /\ x.pc = "ready" /\ importer' = [importer EXCEPT ![p] = x]
  BY MovedIsPrepared DEF ImportInv, Became, Stretches
<1>2. accLock' \in [Accounts -> Importers \cup {Nowhere}]
  BY DEF Hold, ImportInv, ImportTypeOK
<1>3. wsLock = p /\ wsLock' = p /\ importer[p].pc \in Stretches /\ x.pc \in Stretches
  BY <1>1 DEF Hold, ImporterAt, ImportInv, OneImporter, Busy, Stretches
<1>. QED
  <2>. HIDE DEF x
  <2>. QED
    BY <1>1, <1>2, <1>3, RequestKeeps

LEMMA PrepareCommitKeeps ==
  ASSUME ImportInv, NEW p \in Importers, PrepareCommit(p)
  PROVE  ImportInv'
<1>1. Busy(p) /\ p \in Commits
  BY DEF PrepareCommit, ImporterAt, Busy, Stretches
<1>2. CASE \E outcome \in Outcomes \ {"half"} : Refused(p, outcome)
  BY <1>1, <1>2, ImportRefusalKeeps
<1>3. CASE ~ \E outcome \in Outcomes \ {"half"} : Refused(p, outcome)
  <2>1. /\ import[FileOf[p]].status = "awaiting_mapping"
        /\ ImporterAt(p, "locked")
        /\ Hold(p, AccountOf[p]) /\ Became(p, "ready")
        /\ UNCHANGED <<books, others>>
    BY <1>3 DEF PrepareCommit, Outcomes
  <2>2. p \notin Rollbacks
    BY <1>1, ImportsAssumption
  <2>. QED
    BY <1>1, <2>1, <2>2, HoldKeeps
<1>. QED
  BY <1>2, <1>3

LEMMA PrepareRollbackKeeps ==
  ASSUME ImportInv, NEW p \in Importers, PrepareRollback(p)
  PROVE  ImportInv'
<1>1. Busy(p) /\ p \in Rollbacks
  BY DEF PrepareRollback, ImporterAt, Busy, Stretches
<1>2. CASE \E outcome \in Outcomes \ {"half"} : Refused(p, outcome)
  BY <1>1, <1>2, ImportRefusalKeeps
<1>3. CASE ~ \E outcome \in Outcomes \ {"half"} : Refused(p, outcome)
  <2>1. /\ import[FileOf[p]].status = "completed"
        /\ ImporterAt(p, "locked")
        /\ accLock[import[FileOf[p]].account] = Nowhere
        /\ Hold(p, import[FileOf[p]].account) /\ Became(p, "ready")
        /\ UNCHANGED <<books, others>>
    BY <1>3 DEF PrepareRollback, Outcomes
  <2>2. p \notin Commits
    BY <1>1, ImportsAssumption
  <2>. QED
    BY <1>1, <2>1, <2>2, HoldKeeps
<1>. QED
  BY <1>2, <1>3

(* What a commit finds to be imported is.                                  *)
LEMMA ImportableIsToImport ==
  ASSUME ImportInv, NEW p \in Commits
  PROVE  ToImport(p, Importable(p)) /\ Importable(p) \subseteq Lines
<1>. DEFINE f == FileOf[p]
            a == AccountOf[p]
<1>1. f \in Files /\ LinesOf[f] \subseteq Lines
  BY ImportsAssumption DEF Importers
<1>2. \A k \in Of(a) : entry[k].row \in entry[k].had
  BY DEF ImportInv, RowsAreHad, Of
<1>3. ASSUME p \in SkipsDuplicates, NEW l \in Importable(p), NEW k \in Of(a)
      PROVE  entry[k].had # {LineRow[l]}
  <2>1. LineRow[l] # entry[k].row
    BY <1>3 DEF Importable, InAccount
  <2>. QED
    BY <1>2, <2>1
<1>4. ASSUME NEW l \in LinesOf[f] \ Importable(p)
      PROVE  LineRow[l] \in RowsHad(a)
  <2>1. LineRow[l] \in InAccount(a)
    BY DEF Importable
  <2>2. PICK k \in Of(a) : LineRow[l] = entry[k].row
    BY <2>1 DEF InAccount
  <2>. QED
    BY <1>2, <2>2 DEF RowsHad
<1>5. Importable(p) \subseteq LinesOf[f]
  BY DEF Importable
<1>6. \A l \in Importable(p), m \in LinesOf[f] :
        LineRow[l] = LineRow[m] => m \in Importable(p)
  BY DEF Importable
<1>. QED
  BY <1>1, <1>3, <1>4, <1>5, <1>6 DEF ToImport

LEMMA ImportKeeps ==
  ASSUME ImportInv, NEW p \in Importers, Import(p)
  PROVE  ImportInv'
<1>1. p \in Commits /\ ImporterAt(p, "ready") /\ p \notin Rollbacks /\ Busy(p)
  BY ImportsAssumption DEF Import, ImporterAt, Busy, Stretches
<1>2. CASE \E outcome \in Outcomes \ {"half"} : Refused(p, outcome)
  BY <1>1, <1>2, ImportRefusalKeeps
<1>3. CASE ~ \E outcome \in Outcomes \ {"half"} : Refused(p, outcome)
  <2>. DEFINE x == [importer[p] EXCEPT !.pc = "write", !.rows = Importable(p)]
  <2>1. importer' = [importer EXCEPT ![p] = x] /\ UNCHANGED <<books, others, wsLock, accLock>>
    BY <1>3 DEF Import, Outcomes
  <2>2. importer[p] \in Prepared
    BY DEF ImportInv
  <2>3. x \in Prepared /\ x.pc = "write" /\ x.rows = Importable(p)
    BY <1>1, <2>2, ImportableIsToImport DEF Prepared, Stretches
  <2>4. wsLock = p /\ importer[p].pc \in Stretches
    BY <1>1 DEF ImportInv, OneImporter, Busy
  <2>5. import[FileOf[p]].status = "awaiting_mapping"
    BY <1>1 DEF ImportInv, CommitsArePrepared, ImporterAt
  <2>6. accLock' \in [Accounts -> Importers \cup {Nowhere}]
    BY <2>1 DEF ImportInv, ImportTypeOK
  <2>7. ToImport(p, Importable(p)) /\ "write" \in Stretches
    BY <1>1, ImportableIsToImport DEF Stretches
  <2>. QED
    <3>. HIDE DEF x
    <3>. QED
      BY <1>1, <2>1, <2>3, <2>4, <2>5, <2>6, <2>7, RequestKeeps
<1>. QED
  BY <1>2, <1>3

LEMMA ReadImportedKeeps ==
  ASSUME ImportInv, NEW p \in Importers, ReadImported(p)
  PROVE  ImportInv'
<1>. DEFINE of == OfFile(FileOf[p])
            read == [k \in of |-> entry[k]]
            x == [importer[p] EXCEPT !.pc = "write", !.seen = read]
<1>1. p \in Rollbacks /\ ImporterAt(p, "ready") /\ p \notin Commits /\ Busy(p)
  BY ImportsAssumption DEF ReadImported, ImporterAt, Busy, Stretches
<1>2. CASE \E outcome \in Outcomes \ {"half"} : Refused(p, outcome)
  BY <1>1, <1>2, ImportRefusalKeeps
<1>3. CASE ~ \E outcome \in Outcomes \ {"half"} : Refused(p, outcome)
  <2>1. importer' = [importer EXCEPT ![p] = x] /\ UNCHANGED <<books, others, wsLock, accLock>>
    BY <1>3 DEF ReadImported, Outcomes
  <2>2. of \subseteq entries /\ of \subseteq Keys
    BY DEF OfFile, ImportInv, ImportTypeOK
  <2>3. read \in [of -> Entry]
    BY <2>2 DEF ImportInv, ImportTypeOK
  <2>4. read \in UNION {[K -> Entry] : K \in SUBSET Keys}
    <3>. HIDE DEF read, of
    <3>. QED
      BY <2>2, <2>3
  <2>5. importer[p] \in Prepared
    BY DEF ImportInv
  <2>6. x \in Prepared /\ x.pc = "write" /\ x.seen = read
    <3>. HIDE DEF read
    <3>. QED
      BY <2>4, <2>5 DEF Prepared, Stretches
  <2>7. ReadOf(FileOf[p], read)
    BY DEF ReadOf
  <2>8. wsLock = p /\ import[FileOf[p]].status = "completed"
    BY <1>1 DEF ImportInv, OneImporter, RollbacksArePrepared, ImporterAt
  <2>9. /\ accLock' \in [Accounts -> Importers \cup {Nowhere}]
        /\ importer[p].pc \in Stretches /\ "write" \in Stretches
    BY <1>1, <2>1 DEF ImportInv, ImportTypeOK, Busy, Stretches
  <2>. QED
    <3>. HIDE DEF x, read
    <3>. QED
      BY <1>1, <2>1, <2>6, <2>7, <2>8, <2>9, RequestKeeps
<1>. QED
  BY <1>2, <1>3

LEMMA VoidImportedKeeps ==
  ASSUME ImportInv, NEW p \in Importers, VoidImported(p)
  PROVE  ImportInv'
<1>. DEFINE x == [importer[p] EXCEPT !.pc = "voided"]
<1>1. p \in Rollbacks /\ ImporterAt(p, "write") /\ p \notin Commits /\ Busy(p)
  BY ImportsAssumption DEF VoidImported, ImporterAt, Busy, Stretches
<1>2. CASE Refused(p, "invalid")
  BY <1>1, <1>2, ImportRefusalKeeps DEF Outcomes
<1>3. CASE ~Refused(p, "invalid")
  <2>1. Became(p, "voided") /\ UNCHANGED <<books, others, wsLock, accLock>>
    BY <1>3 DEF VoidImported
  <2>2. /\ x \in Prepared /\ x.pc = "voided" /\ x.seen = importer[p].seen
        /\ importer' = [importer EXCEPT ![p] = x]
    BY <2>1, MovedIsPrepared DEF ImportInv, Became, Stretches
  <2>3. /\ import[FileOf[p]].status = "completed" /\ wsLock = p
        /\ ReadOf(FileOf[p], importer[p].seen)
    BY <1>1 DEF ImportInv, OneImporter, RollbacksArePrepared, ImporterAt
  <2>4. /\ accLock' \in [Accounts -> Importers \cup {Nowhere}]
        /\ importer[p].pc \in Stretches /\ "voided" \in Stretches
    BY <1>1, <2>1 DEF ImportInv, ImportTypeOK, Busy, Stretches
  <2>. QED
    <3>. HIDE DEF x
    <3>. QED
      BY <1>1, <2>1, <2>2, <2>3, <2>4, RequestKeeps
<1>. QED
  BY <1>2, <1>3

(* What a request that ends with its transactions leaves behind.           *)
LEMMA EndedControl ==
  ASSUME ImportInv, NEW p \in Importers, Busy(p), NEW outcome \in Outcomes,
         Answer(p, outcome)
  PROVE  /\ importer' \in [Importers -> Prepared]
         /\ importer'[p].pc = outcome
         /\ \A q \in Importers \ {p} : importer'[q] = importer[q]
         /\ \A k \in entries : k[1] # p /\ importer'[k[1]] = importer[k[1]]
         /\ OneImporter' /\ CommitsArePrepared' /\ RollbacksArePrepared'
         /\ UNCHANGED others
         /\ wsLock' \in Importers \cup {Nowhere}
         /\ accLock' \in [Accounts -> Importers \cup {Nowhere}]
         /\ \A q \in Importers :
              /\ importer'[q].pc \in {"new"} \cup Stretches \cup Outcomes
              /\ importer'[q].rows \subseteq Lines
              /\ DOMAIN importer'[q].seen \subseteq Keys
<1>. DEFINE x == [pc |-> outcome, rows |-> {}, seen |-> Unseen]
<1>1. x \in Prepared /\ x.pc \notin Stretches /\ x.pc = outcome
  BY EndedIsPrepared DEF Outcomes, Stretches
<1>2. wsLock = p
  BY DEF ImportInv, OneImporter
<1>3. importer' = [importer EXCEPT ![p] = x] /\ wsLock' = Nowhere /\ UNCHANGED others
  BY <1>2 DEF Answer
<1>. HIDE DEF x
<1>4. /\ importer'[p] = x
      /\ \A q \in Importers \ {p} : importer'[q] = importer[q]
      /\ importer' \in [Importers -> Prepared]
  BY <1>1, <1>3 DEF ImportInv
<1>5. \A q \in Importers : ~Busy(q)'
  BY <1>1, <1>2, <1>4, ImportsAssumption DEF Busy, ImportInv, OneImporter
<1>6. OneImporter'
  BY <1>3, <1>5, ImportsAssumption DEF OneImporter
<1>7. CommitsArePrepared' /\ RollbacksArePrepared'
  BY <1>5 DEF Busy, Stretches, CommitsArePrepared, RollbacksArePrepared, Importers
<1>8. accLock' \in [Accounts -> Importers \cup {Nowhere}]
  BY <1>3 DEF Answer, ImportInv, ImportTypeOK
<1>9. \A q \in Importers :
        /\ importer'[q].pc \in {"new"} \cup Stretches \cup Outcomes
        /\ importer'[q].rows \subseteq Lines
        /\ DOMAIN importer'[q].seen \subseteq Keys
  BY <1>4 DEF Prepared
<1>10. ASSUME NEW k \in entries
       PROVE  k[1] # p /\ importer'[k[1]] = importer[k[1]]
  <2>1. importer[k[1]].pc \in {"ok", "half"}
    BY DEF ImportInv, ImportsAreWhole
  <2>2. k[1] # p /\ k[1] \in Importers
    BY <2>1, KeyFacts DEF ImportInv, Busy, Stretches
  <2>. QED
    BY <1>4, <2>2
<1>. QED
  BY <1>1, <1>3, <1>4, <1>6, <1>7, <1>8, <1>9, <1>10

(* A commit finds its import as it was when it read it, and its file has   *)
(* no transaction but by half: it imports the rows it has prepared, for a  *)
(* row that is already in its account no second time, and completes the    *)
(* import unless the role is lost.                                         *)
LEMMA CommitImportKeeps ==
  ASSUME ImportInv, NEW p \in Importers, CommitImport(p)
  PROVE  ImportInv'
<1>. DEFINE f == FileOf[p]
            a == AccountOf[p]
            rows == importer[p].rows
            new == {p} \X rows
            outcome == IF p \notin barred THEN "ok" ELSE IF new = {} THEN "conflict" ELSE "half"
<1>1. /\ p \in Commits /\ ImporterAt(p, "write") /\ Busy(p)
      /\ f \in Files /\ a \in Accounts
  BY ImportsAssumption DEF CommitImport, ImporterAt, Busy, Stretches
<1>2. /\ import[f].status = "awaiting_mapping" /\ Whole(f) = {} /\ ToImport(p, rows)
  BY <1>1 DEF ImportInv, CommitsArePrepared, ImporterAt, ImportsAreWhole, FileIsWhole
<1>3. /\ entries' = entries \cup new
      /\ entry' = [k \in entries \cup new |->
           IF k \in new THEN [status |-> "confirmed", version |-> 1,
                              row |-> LineRow[k[2]], had |-> {LineRow[k[2]]}]
           ELSE entry[k]]
      /\ import' = IF p \notin barred
           THEN [import EXCEPT ![f] = [status |-> "completed", account |-> a]] ELSE import
      /\ Answer(p, outcome)
  BY <1>2 DEF CommitImport
<1>4. rows \subseteq Lines /\ outcome \in Outcomes
  BY DEF ImportInv, ImportTypeOK, Outcomes
<1>5. /\ new \subseteq Keys
      /\ \A k \in new : k[1] = p /\ k[2] \in rows /\ k = <<k[1], k[2]>>
      /\ \A r \in rows : <<p, r>> \in new
      /\ new = {} => rows = {}
  <2>1. p \in Importers /\ rows \subseteq Lines
    BY <1>4
  <2>2. \A k \in {p} \X rows : k[1] = p /\ k[2] \in rows /\ k = <<k[1], k[2]>>
    OBVIOUS
  <2>3. \A r \in rows : <<p, r>> \in {p} \X rows
    OBVIOUS
  <2>4. {p} \X rows \subseteq Commits \X Lines
    BY <1>1, <2>1
  <2>5. {p} \X rows = {} => rows = {}
    BY <2>3
  <2>. QED
    BY <2>2, <2>3, <2>4, <2>5 DEF Keys
<1>6. /\ importer' \in [Importers -> Prepared] /\ importer'[p].pc = outcome
      /\ \A q \in Importers \ {p} : importer'[q] = importer[q]
      /\ \A k \in entries : k[1] # p /\ importer'[k[1]] = importer[k[1]]
      /\ OneImporter' /\ CommitsArePrepared' /\ RollbacksArePrepared'
      /\ UNCHANGED others
      /\ wsLock' \in Importers \cup {Nowhere}
      /\ accLock' \in [Accounts -> Importers \cup {Nowhere}]
      /\ \A q \in Importers :
           /\ importer'[q].pc \in {"new"} \cup Stretches \cup Outcomes
           /\ importer'[q].rows \subseteq Lines
           /\ DOMAIN importer'[q].seen \subseteq Keys
  <2>. HIDE DEF outcome
  <2>. QED
    BY <1>1, <1>3, <1>4, EndedControl
<1>. HIDE DEF new
<1>7. /\ \A k \in entries : k \notin new /\ entry'[k] = entry[k]
      /\ \A k \in new : /\ LineRow[k[2]] \in Rows /\ entry'[k].status = "confirmed"
                        /\ entry'[k].row = LineRow[k[2]] /\ entry'[k].had = {LineRow[k[2]]}
                        /\ entry'[k] \in Entry
  <2>1. \A k \in entries : k \notin new
    BY <1>5, <1>6
  <2>2. \A k \in new : LineRow[k[2]] \in Rows
    BY <1>4, <1>5, ImportsAssumption
  <2>. QED
    BY <1>3, <2>1, <2>2 DEF Entry
<1>8. ImportTypeOK' /\ RowsAreHad'
  <2>1. entries' \subseteq Keys
    BY <1>3, <1>5 DEF ImportInv, ImportTypeOK
  <2>2. entry' \in [entries' -> Entry]
    BY <1>3, <1>7 DEF ImportInv, ImportTypeOK
  <2>3. import' \in [Files -> [status : {"awaiting_mapping", "completed", "rolled_back"},
                               account : Accounts \cup {Nowhere}]]
    BY <1>1, <1>3 DEF ImportInv, ImportTypeOK
  <2>4. closed' \subseteq Accounts /\ barred' \subseteq Importers /\ edits' \in Nat
    BY <1>6 DEF others, ImportInv, ImportTypeOK
  <2>5. RowsAreHad'
    BY <1>3, <1>7 DEF RowsAreHad, ImportInv
  <2>. QED
    BY <2>1, <2>2, <2>3, <2>4, <2>5, <1>6 DEF ImportTypeOK
<1>9. /\ \A g \in Files \ {f} : import'[g] = import[g]
      /\ p \notin barred => import'[f] = [status |-> "completed", account |-> a]
      /\ p \in barred => import'[f] = import[f]
  BY <1>1, <1>3 DEF ImportInv, ImportTypeOK
<1>10. /\ \A g \in Files \ {f} : OfFile(g)' = OfFile(g)
       /\ OfFile(f)' = OfFile(f) \cup new
       /\ \A b : Of(b)' = Of(b) \cup {k \in new : a = b}
  BY <1>3, <1>5 DEF OfFile, Of
<1>11. \A k \in entries : ByHalf(k)' <=> ByHalf(k)
  BY <1>6 DEF ByHalf
<1>12. \A k \in new : ByHalf(k)' <=> outcome = "half"
  BY <1>5, <1>6 DEF ByHalf
<1>13. \A g \in Files \ {f} : Whole(g)' = Whole(g)
  BY <1>10, <1>11 DEF Whole, OfFile
<1>14. Whole(f)' = IF p \notin barred THEN new ELSE {}
  <2>1. \A k \in OfFile(f) : ByHalf(k)'
    BY <1>2, <1>11 DEF Whole, OfFile
  <2>. QED
    BY <1>10, <1>12, <2>1 DEF Whole
<1>15. \A b : RowsHad(b) \subseteq RowsHad(b)'
  BY <1>7, <1>10 DEF RowsHad, Of
<1>16. \A l \in LinesOf[f] : LineRow[l] \in RowsHad(a)'
  <2>. SUFFICES ASSUME NEW l \in LinesOf[f] PROVE LineRow[l] \in RowsHad(a)'
    OBVIOUS
  <2>1. CASE l \in rows
    <3>1. <<p, l>> \in new /\ <<p, l>>[2] = l
      BY <2>1, <1>5
    <3>2. entry'[<<p, l>>].had = {LineRow[l]} /\ <<p, l>> \in Of(a)'
      BY <3>1, <1>7, <1>10
    <3>. QED
      BY <3>2 DEF RowsHad
  <2>2. CASE l \notin rows
    BY <2>2, <1>2, <1>15 DEF ToImport
  <2>. QED
    BY <2>1, <2>2
<1>17. ImportsAreWhole'
  <2>1. \A q \in Importers : importer'[q].pc = "half" => q \in barred'
    <3>1. barred' = barred
      BY <1>6 DEF others
    <3>. QED
      BY <1>6, <3>1 DEF ImportInv, ImportsAreWhole
  <2>2. \A k \in entries' : importer'[k[1]].pc \in {"ok", "half"}
    <3>1. \A k \in new : importer'[k[1]].pc \in {"ok", "half"}
      BY <1>5, <1>6
    <3>. QED
      BY <1>3, <1>6, <3>1 DEF ImportInv, ImportsAreWhole
  <2>3. ASSUME NEW g \in Files PROVE FileIsWhole(g)'
    <3>1. CASE g = f
      <4>1. \A j, k \in Whole(f)' : j[1] = k[1]
        BY <1>5, <1>14
      <4>. QED
        BY <3>1, <4>1, <1>2, <1>9, <1>14, <1>16 DEF FileIsWhole
    <3>2. CASE g # f
      <4>1. \A k \in OfFile(g) : entry'[k] = entry[k]
        BY <1>7 DEF OfFile
      <4>2. import'[g] = import[g] /\ Whole(g)' = Whole(g) /\ OfFile(g)' = OfFile(g)
        BY <3>2, <1>9, <1>10, <1>13
      <4>. QED
        BY <4>1, <4>2, <1>15 DEF ImportInv, ImportsAreWhole, FileIsWhole
    <3>. QED
      BY <3>1, <3>2
  <2>. QED
    BY <2>1, <2>2, <2>3 DEF ImportsAreWhole
<1>18. RowsAreImportedOnce'
  <2>1. ASSUME NEW j \in new, NEW k \in entries, AccountOf[j[1]] = AccountOf[k[1]],
               j[1] \in SkipsDuplicates
        PROVE  ~ \E r \in Rows : entry'[j].had = {r} /\ entry'[k].had = {r}
    <3>1. k \in Of(a) /\ p \in SkipsDuplicates /\ j[2] \in rows
      BY <2>1, <1>5 DEF Of
    <3>2. entry[k].had # {LineRow[j[2]]}
      BY <3>1, <1>2 DEF ToImport
    <3>. QED
      BY <2>1, <3>2, <1>7
  <2>2. ASSUME NEW j \in entries', NEW k \in entries',
               j[1] # k[1], AccountOf[j[1]] = AccountOf[k[1]],
               {j[1], k[1]} \subseteq SkipsDuplicates
        PROVE  ~ \E r \in Rows : entry'[j].had = {r} /\ entry'[k].had = {r}
    <3>1. CASE j \in entries /\ k \in entries
      BY <2>2, <3>1, <1>7 DEF ImportInv, RowsAreImportedOnce
    <3>2. CASE j \in new /\ k \in new
      BY <2>2, <3>2, <1>5
    <3>3. CASE j \in new /\ k \in entries
      BY <2>1, <2>2, <3>3
    <3>4. CASE j \in entries /\ k \in new
      BY <2>1, <2>2, <3>4
    <3>. QED
      BY <3>1, <3>2, <3>3, <3>4, <1>3
  <2>3. ASSUME NEW k \in entries', NEW l \in LinesOf[FileOf[k[1]]],
               LineRow[l] = LineRow[k[2]]
        PROVE  <<k[1], l>> \in entries'
    <3>1. CASE k \in entries
      BY <2>3, <3>1, <1>3 DEF ImportInv, RowsAreImportedOnce
    <3>2. CASE k \in new
      BY <2>3, <3>2, <1>2, <1>3, <1>5 DEF ToImport
    <3>. QED
      BY <3>1, <3>2, <1>3
  <2>. QED
    BY <2>2, <2>3 DEF RowsAreImportedOnce
<1>. QED
  BY <1>6, <1>8, <1>17, <1>18 DEF ImportInv

\* A transaction with another status and version.
Moved(e, s, n) == [e EXCEPT !.status = s, !.version = n]

LEMMA EntryMoved ==
  ASSUME NEW e \in Entry, NEW n \in Nat,
         NEW s \in {"draft", "confirmed", "reconciled", "voided"}
  PROVE  /\ Moved(e, s, n) \in Entry /\ Moved(e, s, n).status = s
         /\ Moved(e, s, n).row = e.row /\ Moved(e, s, n).had = e.had
<1>. DEFINE f == [e EXCEPT !.status = s]
            g == [f EXCEPT !.version = n]
<1>1. f \in Entry /\ f.status = s /\ f.row = e.row /\ f.had = e.had
  BY DEF Entry
<1>2. g = Moved(e, s, n)
  BY DEF Moved
<1>. HIDE DEF f
<1>3. g \in Entry /\ g.status = f.status /\ g.row = f.row /\ g.had = f.had
  BY <1>1 DEF Entry
<1>. QED
  BY <1>1, <1>2, <1>3

\* The transactions of the books have only been more rows, and what was voided is.
HadMore ==
  /\ entries' = entries
  /\ \A k \in entries :
       /\ entry[k].had \subseteq entry'[k].had /\ entry'[k].row \in entry'[k].had
       /\ entry[k].status = "voided" => entry'[k].status = "voided"

LEMMA MoreIsKept ==
  ASSUME ImportInv, HadMore
  PROVE  /\ RowsAreHad' /\ RowsAreImportedOnce'
         /\ \A f : OfFile(f)' = OfFile(f)
         /\ \A a : RowsHad(a) \subseteq RowsHad(a)'
         /\ \A p, rows : ToImport(p, rows) => ToImport(p, rows)'
         /\ \A f, seen : ReadOf(f, seen) => ReadOf(f, seen)'
<1>1. /\ \A f : OfFile(f)' = OfFile(f) /\ OfFile(f) \subseteq entries
      /\ \A a : Of(a)' = Of(a) /\ Of(a) \subseteq entries
  BY DEF HadMore, OfFile, Of
<1>2. \A a : RowsHad(a) \subseteq RowsHad(a)'
  BY <1>1 DEF RowsHad, HadMore
<1>3. \A k \in entries : \A r : entry'[k].had = {r} => entry[k].had = {r}
  <2>. SUFFICES ASSUME NEW k \in entries, NEW r, entry'[k].had = {r}
                PROVE  entry[k].had = {r}
    OBVIOUS
  <2>1. entry[k].row \in entry[k].had /\ entry[k].had \subseteq {r}
    BY DEF HadMore, ImportInv, RowsAreHad
  <2>. QED
    BY <2>1
<1>4. ASSUME NEW p, NEW rows, ToImport(p, rows)
      PROVE  ToImport(p, rows)'
  BY <1>1, <1>2, <1>3, <1>4 DEF ToImport
<1>5. ASSUME NEW f, NEW seen, ReadOf(f, seen)
      PROVE  ReadOf(f, seen)'
  BY <1>1, <1>5 DEF ReadOf, HadMore
<1>6. RowsAreHad'
  BY DEF RowsAreHad, HadMore
<1>7. RowsAreImportedOnce'
  <2>1. ASSUME NEW j \in entries, NEW k \in entries,
               j[1] # k[1], AccountOf[j[1]] = AccountOf[k[1]],
               {j[1], k[1]} \subseteq SkipsDuplicates
        PROVE  ~ \E r \in Rows : entry'[j].had = {r} /\ entry'[k].had = {r}
    <3>1. ~ \E r \in Rows : entry[j].had = {r} /\ entry[k].had = {r}
      BY <2>1 DEF ImportInv, RowsAreImportedOnce
    <3>. QED
      BY <1>3, <3>1
  <2>2. \A k \in entries : \A l \in LinesOf[FileOf[k[1]]] :
          LineRow[l] = LineRow[k[2]] => <<k[1], l>> \in entries
    BY DEF ImportInv, RowsAreImportedOnce
  <2>3. entries' = entries
    BY DEF HadMore
  <2>. QED
    BY <2>1, <2>2, <2>3 DEF RowsAreImportedOnce
<1>. QED
  BY <1>1, <1>2, <1>4, <1>5, <1>6, <1>7

(* An import that stays as it is stays whole.                              *)
LEMMA MoreIsWhole ==
  ASSUME ImportInv, HadMore, NEW g \in Files, import'[g] = import[g],
         \A k \in entries : importer'[k[1]] = importer[k[1]]
  PROVE  FileIsWhole(g)' /\ Whole(g)' = Whole(g)
<1>1. OfFile(g)' = OfFile(g) /\ OfFile(g) \subseteq entries
  BY DEF OfFile, HadMore
<1>2. Whole(g)' = Whole(g)
  BY <1>1 DEF Whole, ByHalf
<1>3. \A a : RowsHad(a) \subseteq RowsHad(a)'
  BY MoreIsKept
<1>. QED
  BY <1>1, <1>2, <1>3 DEF ImportInv, ImportsAreWhole, FileIsWhole, HadMore

(* A rollback voids every transaction of its import that is not voided,    *)
(* and it is rolled back unless the role is lost.                          *)
LEMMA RollbackImportKeeps ==
  ASSUME ImportInv, NEW p \in Importers, RollbackImport(p)
  PROVE  ImportInv'
<1>. DEFINE f == FileOf[p]
            outcome == IF p \notin barred THEN "ok"
                       ELSE IF Voiding(p) = {} THEN "conflict" ELSE "half"
<1>1. /\ p \in Rollbacks /\ ImporterAt(p, "voided") /\ Busy(p) /\ f \in Files
  BY ImportsAssumption DEF RollbackImport, ImporterAt, Busy, Stretches
<1>2. import[f].status = "completed" /\ ReadOf(f, importer[p].seen)
  BY <1>1 DEF ImportInv, RollbacksArePrepared, ImporterAt
<1>3. /\ VoidThese(Voiding(p))
      /\ import' = IF p \notin barred
           THEN [import EXCEPT ![f].status = "rolled_back"] ELSE import
      /\ entries' = entries /\ Answer(p, outcome)
  BY <1>2 DEF RollbackImport
<1>4. outcome \in Outcomes
  BY DEF Outcomes
<1>5. /\ importer' \in [Importers -> Prepared] /\ importer'[p].pc = outcome
      /\ \A q \in Importers \ {p} : importer'[q] = importer[q]
      /\ \A k \in entries : k[1] # p /\ importer'[k[1]] = importer[k[1]]
      /\ OneImporter' /\ CommitsArePrepared' /\ RollbacksArePrepared'
      /\ UNCHANGED others
      /\ wsLock' \in Importers \cup {Nowhere}
      /\ accLock' \in [Accounts -> Importers \cup {Nowhere}]
      /\ \A q \in Importers :
           /\ importer'[q].pc \in {"new"} \cup Stretches \cup Outcomes
           /\ importer'[q].rows \subseteq Lines
           /\ DOMAIN importer'[q].seen \subseteq Keys
  <2>. HIDE DEF outcome
  <2>. QED
    BY <1>1, <1>3, <1>4, EndedControl
<1>6. \A k \in entries : entry[k] \in Entry
  BY DEF ImportInv, ImportTypeOK
<1>7. \A k \in entries :
        /\ k \in Voiding(p) => entry'[k].status = "voided"
        /\ entry'[k] \in Entry /\ entry'[k].had = entry[k].had /\ entry'[k].row = entry[k].row
        /\ entry[k].status = "voided" => entry'[k].status = "voided"
  <2>. SUFFICES ASSUME NEW k \in entries
                PROVE  /\ k \in Voiding(p) => entry'[k].status = "voided"
                       /\ entry'[k] \in Entry
                       /\ entry'[k].had = entry[k].had /\ entry'[k].row = entry[k].row
                       /\ entry[k].status = "voided" => entry'[k].status = "voided"
    OBVIOUS
  <2>. DEFINE v == Moved(entry[k], "voided", entry[k].version + 1)
  <2>1. v \in Entry /\ v.status = "voided" /\ v.had = entry[k].had /\ v.row = entry[k].row
    <3>1. entry[k] \in Entry /\ entry[k].version + 1 \in Nat
      BY <1>6 DEF Entry
    <3>. QED
      BY <3>1, EntryMoved
  <2>2. entry'[k] = IF k \in Voiding(p) THEN v ELSE entry[k]
    BY <1>3 DEF VoidThese, Moved
  <2>. HIDE DEF v
  <2>. QED
    BY <1>6, <2>1, <2>2
<1>8. \A k \in OfFile(f) : entry'[k].status = "voided"
  <2>. SUFFICES ASSUME NEW k \in OfFile(f) PROVE entry'[k].status = "voided"
    OBVIOUS
  <2>1. k \in entries
    BY DEF OfFile
  <2>2. CASE k \in Voiding(p)
    BY <1>7, <2>1, <2>2
  <2>3. CASE k \notin Voiding(p)
    <3>1. entry[k].status = "voided"
      BY <1>2, <2>3 DEF Voiding, ReadOf
    <3>. QED
      BY <1>7, <2>1, <3>1
  <2>. QED
    BY <2>2, <2>3
<1>9. /\ p \notin barred =>
           import'[f] = [status |-> "rolled_back", account |-> import[f].account]
      /\ p \in barred => import'[f] = import[f]
      /\ \A g \in Files \ {f} : import'[g] = import[g]
      /\ import' \in [Files -> [status : {"awaiting_mapping", "completed", "rolled_back"},
                                account : Accounts \cup {Nowhere}]]
  BY <1>1, <1>3 DEF ImportInv, ImportTypeOK
<1>10. ImportTypeOK'
  <2>1. entry' \in [entries' -> Entry]
    BY <1>3, <1>7 DEF VoidThese
  <2>2. closed' \subseteq Accounts /\ barred' \subseteq Importers /\ edits' \in Nat
    BY <1>5 DEF others, ImportInv, ImportTypeOK
  <2>. QED
    BY <1>3, <1>5, <1>9, <2>1, <2>2 DEF ImportInv, ImportTypeOK
<1>11. HadMore
  BY <1>3, <1>7 DEF HadMore, ImportInv, RowsAreHad
<1>12. ImportsAreWhole'
  <2>1. \A q \in Importers : importer'[q].pc = "half" => q \in barred'
    <3>1. barred' = barred
      BY <1>5 DEF others
    <3>. QED
      BY <1>5, <3>1 DEF ImportInv, ImportsAreWhole
  <2>2. \A k \in entries' : importer'[k[1]].pc \in {"ok", "half"}
    BY <1>3, <1>5 DEF ImportInv, ImportsAreWhole
  <2>3. ASSUME NEW g \in Files PROVE FileIsWhole(g)'
    <3>1. CASE import'[g] = import[g]
      BY <3>1, <1>5, <1>11, MoreIsWhole
    <3>2. CASE g = f /\ p \notin barred
      <4>1. Whole(f)' = Whole(f) /\ OfFile(f)' = OfFile(f)
        BY <1>3, <1>5 DEF Whole, OfFile, ByHalf
      <4>2. \A a : RowsHad(a) \subseteq RowsHad(a)'
        BY <1>11, MoreIsKept
      <4>3. /\ \A j, k \in Whole(f) : j[1] = k[1]
            /\ \A l \in LinesOf[f] : LineRow[l] \in RowsHad(import[f].account)
        BY <1>1, <1>2 DEF ImportInv, ImportsAreWhole, FileIsWhole
      <4>. QED
        BY <3>2, <4>1, <4>2, <4>3, <1>8, <1>9 DEF FileIsWhole
    <3>. QED
      BY <3>1, <3>2, <1>9
  <2>. QED
    BY <2>1, <2>2, <2>3 DEF ImportsAreWhole
<1>13. RowsAreImportedOnce' /\ RowsAreHad'
  BY <1>11, MoreIsKept
<1>. QED
  BY <1>5, <1>10, <1>12, <1>13 DEF ImportInv

(* Other people change transactions, close accounts and take roles away:   *)
(* what is voided stays voided, and who has lost a role has lost it.       *)
LEMMA OthersKeep ==
  ASSUME ImportInv, HadMore, entry' \in [entries' -> Entry],
         UNCHANGED <<import, wsLock, accLock, importer>>,
         closed' \subseteq Accounts, barred' \subseteq Importers, barred \subseteq barred',
         edits' \in Nat
  PROVE  ImportInv'
<1>1. entries' = entries
  BY DEF HadMore
<1>2. ImportTypeOK'
  BY <1>1 DEF ImportInv, ImportTypeOK
<1>3. OneImporter'
  BY DEF ImportInv, OneImporter, Busy
<1>4. /\ RowsAreHad' /\ RowsAreImportedOnce'
      /\ \A p, rows : ToImport(p, rows) => ToImport(p, rows)'
      /\ \A f, seen : ReadOf(f, seen) => ReadOf(f, seen)'
  BY MoreIsKept
<1>5. CommitsArePrepared'
  BY <1>4 DEF ImportInv, CommitsArePrepared
<1>6. RollbacksArePrepared'
  BY <1>4 DEF ImportInv, RollbacksArePrepared
<1>7. \A f \in Files : FileIsWhole(f)'
  BY MoreIsWhole
<1>8. ImportsAreWhole'
  BY <1>1, <1>7 DEF ImportInv, ImportsAreWhole
<1>. QED
  BY <1>2, <1>3, <1>4, <1>5, <1>6, <1>8 DEF ImportInv

LEMMA EntryKeeps ==
  ASSUME ImportInv, NEW k \in entries, EditEntry(k) \/ SettleEntry(k)
  PROVE  ImportInv'
<1>1. /\ \A j \in entries : entry[j] \in Entry /\ entry[j].row \in entry[j].had
      /\ entry[k] \in Entry /\ entry \in [entries -> Entry]
  BY DEF ImportInv, ImportTypeOK, RowsAreHad
<1>2. ASSUME NEW e \in Entry, entry' = [entry EXCEPT ![k] = e], e.row \in e.had,
             entry[k].had \subseteq e.had, entry[k].status # "voided", Touched
      PROVE  ImportInv'
  <2>1. /\ UNCHANGED <<import, entries, closed, barred, wsLock, accLock, importer>>
        /\ edits' \in Nat /\ closed' \subseteq Accounts /\ barred' \subseteq Importers
    BY <1>2 DEF Touched, ImportInv, ImportTypeOK
  <2>2. HadMore
    BY <1>1, <1>2, <2>1 DEF HadMore
  <2>3. entry' \in [entries' -> Entry]
    BY <1>1, <1>2, <2>1
  <2>. QED
    BY <2>1, <2>2, <2>3, OthersKeep
<1>3. CASE EditEntry(k)
  <2>1. PICK text \in Texts, status \in {"draft", "confirmed", entry[k].status} :
          LET moved == [entry[k].row EXCEPT !.text = text] IN
          entry' = [entry EXCEPT ![k] = [status |-> status, version |-> entry[k].version + 1,
                                         row |-> moved, had |-> entry[k].had \cup {moved}]]
    BY <1>3 DEF EditEntry
  <2>. DEFINE moved == [entry[k].row EXCEPT !.text = text]
              e == [status |-> status, version |-> entry[k].version + 1,
                    row |-> moved, had |-> entry[k].had \cup {moved}]
  <2>2. moved \in Rows
    <3>1. entry[k].row \in Rows
      BY <1>1 DEF Entry
    <3>. QED
      BY <3>1 DEF Rows
  <2>. HIDE DEF moved
  <2>3. e \in Entry
    BY <1>1, <2>2 DEF Entry
  <2>4. entry' = [entry EXCEPT ![k] = e] /\ e.row \in e.had /\ entry[k].had \subseteq e.had
    BY <2>1 DEF moved
  <2>. HIDE DEF e
  <2>. QED
    BY <1>2, <1>3, <2>3, <2>4 DEF EditEntry
<1>4. CASE SettleEntry(k)
  <2>. DEFINE v == Moved(entry[k], "voided", entry[k].version + 1)
              r == [entry[k] EXCEPT !.status = "reconciled"]
  <2>1. PICK e \in {v, r} : entry' = [entry EXCEPT ![k] = e]
    <3>1. CASE entry' = [entry EXCEPT ![k].status = "voided", ![k].version = @ + 1]
      <4>1. entry' = [entry EXCEPT ![k] = v]
        BY <1>1, <3>1 DEF Entry, Moved
      <4>. QED
        BY <4>1
    <3>2. CASE entry' = [entry EXCEPT ![k].status = "reconciled"]
      <4>1. entry' = [entry EXCEPT ![k] = r]
        BY <1>1, <3>2 DEF Entry
      <4>. QED
        BY <4>1
    <3>. QED
      BY <1>4, <3>1, <3>2 DEF SettleEntry
  <2>2. v \in Entry /\ v.row = entry[k].row /\ v.had = entry[k].had
    <3>1. entry[k] \in Entry /\ entry[k].version + 1 \in Nat
      BY <1>1 DEF Entry
    <3>. QED
      BY <3>1, EntryMoved
  <2>3. r \in Entry /\ r.row = entry[k].row /\ r.had = entry[k].had
    BY <1>1 DEF Entry
  <2>. HIDE DEF v, r
  <2>. QED
    BY <1>1, <1>2, <1>4, <2>1, <2>2, <2>3 DEF SettleEntry
<1>. QED
  BY <1>3, <1>4

(* A step that leaves the books, the requests and the workspace alone.     *)
LEMMA ClosingKeeps ==
  ASSUME ImportInv, UNCHANGED <<books, wsLock, accLock, importer, edits>>,
         closed' \subseteq Accounts, barred' \subseteq Importers, barred \subseteq barred'
  PROVE  ImportInv'
<1>1. import' = import /\ entries' = entries /\ entry' = entry
  BY DEF books
<1>2. HadMore /\ entry' \in [entries' -> Entry] /\ edits' \in Nat
  BY <1>1 DEF HadMore, ImportInv, RowsAreHad, ImportTypeOK
<1>. QED
  BY <1>1, <1>2, OthersKeep

LEMMA ImportNextInv == ImportInv /\ [ImportNext]_importVars => ImportInv'
<1>. SUFFICES ASSUME ImportInv, [ImportNext]_importVars PROVE ImportInv'
  OBVIOUS
<1>1. ASSUME NEW p \in Importers, LockWorkspace(p) PROVE ImportInv'
  BY <1>1, LockKeeps
<1>2. ASSUME NEW p \in Importers, PrepareCommit(p) PROVE ImportInv'
  BY <1>2, PrepareCommitKeeps
<1>3. ASSUME NEW p \in Importers, Import(p) PROVE ImportInv'
  BY <1>3, ImportKeeps
<1>4. ASSUME NEW p \in Importers, CommitImport(p) PROVE ImportInv'
  BY <1>4, CommitImportKeeps
<1>5. ASSUME NEW p \in Importers, PrepareRollback(p) PROVE ImportInv'
  BY <1>5, PrepareRollbackKeeps
<1>6. ASSUME NEW p \in Importers, ReadImported(p) PROVE ImportInv'
  BY <1>6, ReadImportedKeeps
<1>7. ASSUME NEW p \in Importers, VoidImported(p) PROVE ImportInv'
  BY <1>7, VoidImportedKeeps
<1>8. ASSUME NEW p \in Importers, RollbackImport(p) PROVE ImportInv'
  BY <1>8, RollbackImportKeeps
<1>9. ASSUME NEW p \in Importers, AbortImport(p) PROVE ImportInv'
  <2>1. Busy(p) /\ Refused(p, "failed")
    BY <1>9 DEF AbortImport, Busy
  <2>. QED
    BY <2>1, ImportRefusalKeeps DEF Outcomes
<1>10. ASSUME NEW p \in Importers, LoseImporterRole(p) PROVE ImportInv'
  <2>1. /\ barred' \subseteq Importers /\ barred \subseteq barred'
        /\ closed' \subseteq Accounts
        /\ UNCHANGED <<books, wsLock, accLock, importer, edits>>
    BY <1>10 DEF LoseImporterRole, ImportInv, ImportTypeOK
  <2>. QED
    BY <2>1, ClosingKeeps
<1>11. ASSUME NEW k \in entries, EditEntry(k) \/ SettleEntry(k) PROVE ImportInv'
  BY <1>11, EntryKeeps
<1>12. ASSUME NEW a \in Accounts, AccountCloses(a) PROVE ImportInv'
  <2>1. closed' \subseteq Accounts /\ barred' = barred /\ barred' \subseteq Importers
    BY <1>12 DEF AccountCloses, ImportInv, ImportTypeOK
  <2>. QED
    BY <1>12, <2>1, ClosingKeeps DEF AccountCloses
<1>13. CASE UNCHANGED importVars
  <2>1. /\ UNCHANGED <<books, wsLock, accLock, importer, edits>>
        /\ closed' \subseteq Accounts /\ barred' = barred /\ barred' \subseteq Importers
    BY <1>13 DEF importVars, books, ImportInv, ImportTypeOK
  <2>. QED
    BY <2>1, ClosingKeeps
<1>. QED
  BY <1>1, <1>2, <1>3, <1>4, <1>5, <1>6, <1>7, <1>8, <1>9, <1>10, <1>11, <1>12, <1>13
     DEF ImportNext

LEMMA ImportInvHolds == ImportSpec => []ImportInv
  BY ImportInitInv, ImportNextInv, PTL DEF ImportSpec

(* The variables of the imports have their types.                          *)
THEOREM ImportTypeCorrect == ImportSpec => []ImportTypeOK
<1>1. ImportInv => ImportTypeOK
  BY DEF ImportInv
<1>. QED
  BY <1>1, ImportInvHolds, PTL

(* An import and the books agree but for what one who lost the role on the *)
(* way leaves by half, for any files, lines, accounts and requests         *)
(* (commitImport, rollbackImport and the policy of import_jobs).           *)
THEOREM ImportsStayWhole == ImportSpec => []ImportsAreWhole
<1>1. ImportInv => ImportsAreWhole
  BY DEF ImportInv
<1>. QED
  BY <1>1, ImportInvHolds, PTL

(* Two commits that skip duplicates leave one row twice in an account only *)
(* where an edit has changed its date or description meanwhile; and equal  *)
(* lines of a file are imported together (findExistingBatch).              *)
THEOREM EachRowIsImportedOnce == ImportSpec => []RowsAreImportedOnce
<1>1. ImportInv => RowsAreImportedOnce
  BY SMTT(40) DEF ImportInv
<1>. QED
  BY <1>1, ImportInvHolds, PTL

-----------------------------------------------------------------------------
(* Lists *)

\* The lists whose cursors keep every digit of the order.
FineLists == DOMAIN Lists \ {"mcpGrants", "conversations"}

LEMMA FineListFacts ==
  ASSUME NEW l \in FineLists
  PROVE  /\ Lists[l].service.grain = Micro
         /\ Lists[l].service.binds = Lists[l].query
         /\ Lists[l].query \subseteq {"workspace", "filter"}
<1>1. l \in {"workspaces", "members", "invitations", "accounts", "transactions",
             "tags", "payees", "categories", "budgets", "funds", "debts",
             "scenarios", "reports", "recurring", "subscriptions", "notifications"}
  BY DEF FineLists, Lists
<1>. USE DEF Lists, Listing, ForMembers, ForTheSubject
<1>2. CASE l = "workspaces"
  BY <1>2 DEF ListWorkspaces, WorkspacesQuery
<1>3. CASE l = "members"
  BY <1>3 DEF ListWorkspaceMembers, MembersQuery
<1>4. CASE l = "invitations"
  BY <1>4 DEF ListWorkspaceInvitations, InvitationsQuery
<1>5. CASE l = "accounts"
  BY <1>5 DEF ListAccounts, AccountListQuery
<1>6. CASE l = "transactions"
  BY <1>6 DEF ListTransactions, TransactionListQuery
<1>7. CASE l = "tags"
  BY <1>7 DEF ListTags, CatalogListQuery
<1>8. CASE l = "payees"
  BY <1>8 DEF ListPayees, CatalogListQuery
<1>9. CASE l = "categories"
  BY <1>9 DEF ListCategories, CatalogListQuery
<1>10. CASE l = "budgets"
  BY <1>10 DEF ListBudgets, BudgetListQuery
<1>11. CASE l = "funds"
  BY <1>11 DEF ListFunds, FundListQuery
<1>12. CASE l = "debts"
  BY <1>12 DEF ListDebts, DebtListQuery
<1>13. CASE l = "scenarios"
  BY <1>13 DEF ListScenarios, ScenarioListQuery
<1>14. CASE l = "reports"
  BY <1>14 DEF ListReportDefinitions, ReportListQuery
<1>15. CASE l = "recurring"
  BY <1>15 DEF ListRecurringRules, RecurringRuleListQuery
<1>16. CASE l = "subscriptions"
  BY <1>16 DEF ListSubscriptions, SubscriptionListQuery
<1>17. CASE l = "notifications"
  BY <1>17 DEF ListNotifications, NotificationListQuery
<1>. QED
  BY <1>1, <1>2, <1>3, <1>4, <1>5, <1>6, <1>7, <1>8, <1>9, <1>10, <1>11, <1>12, <1>13, <1>14, <1>15, <1>16, <1>17

\* Row r comes after row s.
Follows(r, s) == After(row[r].place, r, [at |-> row[s].place, id |-> s])

RowsAreTyped ==
  row \in [RowIds -> [place : 0..LastPlace, shown : BOOLEAN, there : BOOLEAN]]

(* The order of a statement is total on the rows.                          *)
LEMMA OrderIsTotal ==
  ASSUME RowsAreTyped, NEW r \in RowIds, NEW s \in RowIds, NEW t \in RowIds
  PROVE  /\ ~Follows(r, r)
         /\ Follows(r, s) /\ Follows(s, t) => Follows(r, t)
         /\ r # s => Follows(r, s) \/ Follows(s, r)
<1>1. /\ row[r].place \in Nat /\ row[s].place \in Nat /\ row[t].place \in Nat
      /\ r \in Nat /\ s \in Nat /\ t \in Nat
  BY PagingAssumption DEF RowsAreTyped, RowIds
<1>2. ASSUME NEW x \in {r, s, t}, NEW y \in {r, s, t}
      PROVE  Follows(x, y) <=>
               \/ IF ListRows.downward THEN row[x].place < row[y].place
                  ELSE row[x].place > row[y].place
               \/ row[x].place = row[y].place /\ x > y
  BY DEF Follows, After
<1>. QED
  BY <1>1, <1>2

LEMMA RowsAreFinite ==
  ASSUME NEW S \in SUBSET RowIds
  PROVE  IsFiniteSet(S) /\ Cardinality(S) \in Nat
<1>1. MaxRow \in Int /\ 1 \in Int
  BY PagingAssumption
<1>2. IsFiniteSet(RowIds)
  BY <1>1, FS_Interval DEF RowIds
<1>3. IsFiniteSet(S)
  BY <1>2, FS_Subset
<1>. QED
  BY <1>3, FS_CardinalityType

LEMMA EarlierFacts ==
  ASSUME NEW S \in SUBSET RowIds, NEW r
  PROVE  /\ Earlier(r, S) \subseteq S
         /\ \A s \in S : s \in Earlier(r, S) <=> Follows(r, s)
  BY DEF Earlier, Follows

(* A set of numbers has a least one.                                       *)
LEMMA LeastNumber ==
  ASSUME NEW T, T \subseteq Nat, T # {}
  PROVE  \E x \in T : \A y \in T : x <= y
<1>1. \E x \in T : \A y \in T : ~ (<<y, x>> \in OpToRel(<, Nat))
  BY NatLessThanWellFounded, WFMin
<1>2. PICK x \in T : \A y \in T : ~ (<<y, x>> \in OpToRel(<, Nat))
  BY <1>1
<1>3. \A y \in T : ~(y < x)
  BY <1>2 DEF OpToRel
<1>. QED
  BY <1>3

(* A part of a finite set that lacks something is smaller.                 *)
LEMMA FewerRows ==
  ASSUME NEW S \in SUBSET RowIds, NEW T \in SUBSET S, NEW x \in S, x \notin T
  PROVE  Cardinality(T) < Cardinality(S)
<1>1. /\ IsFiniteSet(S) /\ Cardinality(S) \in Nat
      /\ IsFiniteSet(T) /\ Cardinality(T) \in Nat
  BY RowsAreFinite
<1>2. Cardinality(T) <= Cardinality(S) /\ (Cardinality(S) = Cardinality(T) => S = T)
  BY <1>1, FS_Subset
<1>. QED
  BY <1>1, <1>2

(* Rows have a first and a last one.                                       *)
LEMMA FirstRow ==
  ASSUME RowsAreTyped, NEW S \in SUBSET RowIds, S # {}
  PROVE  \E r \in S : Earlier(r, S) = {}
<1>. DEFINE N == {Cardinality(Earlier(r, S)) : r \in S}
<1>1. \A r \in S : Earlier(r, S) \in SUBSET RowIds
  BY EarlierFacts
<1>2. N \subseteq Nat /\ N # {}
  BY <1>1, RowsAreFinite
<1>3. PICK n \in N : \A m \in N : n <= m
  BY <1>2, LeastNumber
<1>4. PICK r \in S : n = Cardinality(Earlier(r, S))
  BY <1>3
<1>5. ASSUME NEW s \in Earlier(r, S) PROVE FALSE
  <2>1. s \in S /\ Follows(r, s)
    BY <1>5, EarlierFacts
  <2>2. Earlier(s, S) \subseteq Earlier(r, S)
    <3>. SUFFICES ASSUME NEW t \in Earlier(s, S) PROVE t \in Earlier(r, S)
      OBVIOUS
    <3>1. t \in S /\ Follows(s, t)
      BY EarlierFacts
    <3>2. Follows(r, t)
      BY <2>1, <3>1, OrderIsTotal
    <3>. QED
      BY <3>1, <3>2, EarlierFacts
  <2>3. s \notin Earlier(s, S)
    BY <2>1, OrderIsTotal, EarlierFacts
  <2>4. Cardinality(Earlier(s, S)) < Cardinality(Earlier(r, S))
    BY <1>1, <1>5, <2>2, <2>3, FewerRows
  <2>5. n <= Cardinality(Earlier(s, S))
    BY <1>3, <2>1
  <2>6. n \in Nat /\ Cardinality(Earlier(s, S)) \in Nat
    BY <1>2, <2>1
  <2>. QED
    BY <1>4, <2>4, <2>5, <2>6
<1>. QED
  BY <1>5

LEMMA LastRow ==
  ASSUME RowsAreTyped, NEW S \in SUBSET RowIds, S # {}
  PROVE  \E r \in S : Earlier(r, S) = S \ {r}
<1>. DEFINE Later(r) == S \ Earlier(r, S)
            N == {Cardinality(Later(r)) : r \in S}
<1>1. \A r \in S : Later(r) \in SUBSET RowIds
  OBVIOUS
<1>2. N \subseteq Nat /\ N # {}
  BY <1>1, RowsAreFinite
<1>3. PICK n \in N : \A m \in N : n <= m
  BY <1>2, LeastNumber
<1>4. PICK r \in S : n = Cardinality(Later(r))
  BY <1>3
<1>5. ASSUME NEW s \in S, s # r, s \notin Earlier(r, S) PROVE FALSE
  <2>1. Follows(s, r)
    BY <1>5, OrderIsTotal, EarlierFacts
  <2>2. Later(s) \subseteq Later(r)
    <3>. SUFFICES ASSUME NEW t \in S, t \in Earlier(r, S) PROVE t \in Earlier(s, S)
      OBVIOUS
    <3>1. Follows(r, t)
      BY EarlierFacts
    <3>2. Follows(s, t)
      BY <2>1, <3>1, OrderIsTotal
    <3>. QED
      BY <3>2, EarlierFacts
  <2>3. r \in Later(r) /\ r \notin Later(s)
    BY <2>1, OrderIsTotal, EarlierFacts
  <2>4. Later(r) \in SUBSET RowIds /\ Later(s) \in SUBSET RowIds
    BY <1>1, <1>5
  <2>5. n <= Cardinality(Later(s))
    BY <1>3, <1>5
  <2>6. n \in Nat /\ Cardinality(Later(s)) \in Nat
    BY <1>2, <1>5
  <2>7. Cardinality(Later(s)) < Cardinality(Later(r))
    <3>. HIDE DEF Later
    <3>. QED
      BY <2>2, <2>3, <2>4, FewerRows
  <2>. QED
    BY <1>4, <2>5, <2>6, <2>7
<1>6. r \notin Earlier(r, S) /\ Earlier(r, S) \subseteq S
  BY OrderIsTotal, EarlierFacts
<1>. QED
  BY <1>5, <1>6

(* What a page of n rows shows of those that remain: a first stretch of    *)
(* them, up to a last row after which all the others come, or all of them. *)
LEMMA PageFacts ==
  ASSUME RowsAreTyped, NEW S \in SUBSET RowIds, NEW n \in Nat \ {0}
  PROVE  LET page == FirstOf(S, n)
             last == CHOOSE r \in page : Earlier(r, page) = page \ {r}
         IN /\ page \subseteq S
            /\ Cardinality(S) <= n => page = S
            /\ Cardinality(S) > n =>
                 /\ last \in page
                 /\ \A r \in S : r \in page <=> ~Follows(r, last)
<1>. DEFINE page == FirstOf(S, n)
            last == CHOOSE r \in page : Earlier(r, page) = page \ {r}
<1>1. /\ page \subseteq S
      /\ \A r \in S : r \in page <=> Cardinality(Earlier(r, S)) < n
  BY DEF FirstOf
<1>2. \A r \in S : Earlier(r, S) \in SUBSET RowIds /\ Cardinality(Earlier(r, S)) \in Nat
  BY EarlierFacts, RowsAreFinite
<1>3. ASSUME Cardinality(S) <= n PROVE page = S
  <2>. SUFFICES ASSUME NEW r \in S PROVE Cardinality(Earlier(r, S)) < n
    BY <1>1
  <2>1. r \notin Earlier(r, S) /\ Earlier(r, S) \in SUBSET S
    BY OrderIsTotal, EarlierFacts
  <2>2. Cardinality(Earlier(r, S)) < Cardinality(S)
    BY <2>1, FewerRows
  <2>3. Cardinality(S) \in Nat
    BY RowsAreFinite
  <2>. QED
    BY <1>2, <1>3, <2>2, <2>3
<1>4. ASSUME Cardinality(S) > n
      PROVE  last \in page /\ \A r \in S : r \in page <=> ~Follows(r, last)
  <2>1. S # {}
    <3>1. S = {} => Cardinality(S) = 0
      BY FS_EmptySet
    <3>. QED
      BY <1>4, <3>1
  <2>2. page # {}
    <3>1. PICK r \in S : Earlier(r, S) = {}
      BY <2>1, FirstRow
    <3>2. Cardinality(Earlier(r, S)) = 0
      BY <3>1, FS_EmptySet
    <3>. QED
      BY <1>1, <3>2
  <2>3. last \in page /\ Earlier(last, page) = page \ {last}
    <3>1. \E r \in page : Earlier(r, page) = page \ {r}
      BY <1>1, <2>2, LastRow
    <3>. HIDE DEF page
    <3>. QED
      BY <3>1
  <2>4. ASSUME NEW r \in page PROVE ~Follows(r, last)
    <3>1. CASE r = last
      BY <1>1, <3>1, OrderIsTotal
    <3>2. CASE r # last
      <4>1. r \in Earlier(last, page)
        BY <2>3, <2>4, <3>2
      <4>2. Follows(last, r)
        BY <1>1, <2>4, <4>1, EarlierFacts
      <4>3. r \in RowIds /\ last \in RowIds
        BY <1>1, <2>3, <2>4
      <4>. QED
        BY <4>2, <4>3, OrderIsTotal
    <3>. QED
      BY <3>1, <3>2
  <2>5. ASSUME NEW r \in S, ~Follows(r, last) PROVE r \in page
    <3>1. CASE r = last
      BY <2>3, <3>1
    <3>2. CASE r # last
      <4>1. last \in S /\ Follows(last, r)
        BY <1>1, <2>3, <2>5, <3>2, OrderIsTotal
      <4>2. Earlier(r, S) \subseteq Earlier(last, S)
        <5>. SUFFICES ASSUME NEW t \in Earlier(r, S) PROVE t \in Earlier(last, S)
          OBVIOUS
        <5>1. t \in S /\ Follows(r, t)
          BY EarlierFacts
        <5>2. Follows(last, t)
          BY <4>1, <5>1, OrderIsTotal
        <5>. QED
          BY <5>1, <5>2, EarlierFacts
      <4>3. Cardinality(Earlier(r, S)) <= Cardinality(Earlier(last, S))
        BY <1>2, <4>1, <4>2, RowsAreFinite, FS_Subset
      <4>4. Cardinality(Earlier(last, S)) < n
        BY <1>1, <2>3
      <4>5. /\ Cardinality(Earlier(r, S)) \in Nat
            /\ Cardinality(Earlier(last, S)) \in Nat
        BY <1>2, <4>1
      <4>6. Cardinality(Earlier(r, S)) < n
        BY <4>3, <4>4, <4>5
      <4>. QED
        BY <1>1, <4>6
    <3>. QED
      BY <3>1, <3>2
  <2>. QED
    BY <2>3, <2>4, <2>5
<1>. QED
  BY <1>1, <1>3, <1>4

-----------------------------------------------------------------------------
Walk == [pc : {"new", "going", "done", "refused", "forbidden"},
         cursor : [at : Nat, id : Nat, binds : SUBSET {"workspace", "filter"},
                   first : BOOLEAN],
         seen : [RowIds -> Nat], kept : SUBSET RowIds, strayed : BOOLEAN]

\* A walk that has begun has seen, of the rows it owes, those that do not come
\* after its cursor, once.
WalkedToTheCursor ==
  walk.pc = "going" =>
    /\ ~walk.cursor.first /\ walk.cursor.binds = Expected
    /\ \A r \in walk.kept :
         walk.seen[r] = IF After(row[r].place, r, walk.cursor) THEN 0 ELSE 1

PageInv ==
  /\ list \in FineLists
  /\ RowsAreTyped /\ member \in BOOLEAN
  /\ walk \in Walk
  /\ walk.pc = "new" => /\ walk.cursor.first /\ walk.kept = {}
                        /\ \A r \in RowIds : walk.seen[r] = 0
  /\ walk.kept \subseteq Visible
  /\ WalkedToTheCursor
  /\ WalksListEachRowOnce

LEMMA PageInitInv ==
  ASSUME ListNames \subseteq FineLists
  PROVE  PageInit => PageInv
<1>. SUFFICES ASSUME PageInit PROVE PageInv
  OBVIOUS
<1>1. RowsAreTyped
  BY PagingAssumption DEF PageInit, RowsAreTyped, Absent
<1>2. walk \in Walk
  BY DEF PageInit, Walk, NoCursor
<1>3. /\ walk.pc = "new" /\ walk.cursor.first /\ walk.kept = {}
      /\ \A r \in RowIds : walk.seen[r] = 0
  BY DEF PageInit, NoCursor
<1>. QED
  BY <1>1, <1>2, <1>3
     DEF PageInit, PageInv, WalkedToTheCursor, WalksListEachRowOnce

(* Writers change rows the walk does not owe.                              *)
LEMMA WritersKeep ==
  ASSUME PageInv, RowsAreTyped', NEW r \in RowIds,
         \A s \in RowIds \ {r} : row'[s] = row[s],
         walk' = [walk EXCEPT !.kept = walk.kept \ {r}],
         UNCHANGED <<list, member>>
  PROVE  PageInv'
<1>1. /\ walk' \in Walk /\ walk'.kept = walk.kept \ {r}
      /\ walk'.pc = walk.pc /\ walk'.cursor = walk.cursor
      /\ walk'.seen = walk.seen /\ walk'.strayed = walk.strayed
  BY DEF PageInv, Walk
<1>2. \A s \in walk'.kept : s \in walk.kept /\ row'[s] = row[s]
  BY <1>1 DEF PageInv, Walk
<1>3. walk'.kept \subseteq Visible'
  BY <1>2 DEF PageInv, Visible
<1>4. WalkedToTheCursor'
  <2>1. Expected' = Expected
    BY DEF Expected
  <2>2. \A s \in RowIds : row'[s] = row[s] =>
          (After(row[s].place, s, walk.cursor)' <=> After(row[s].place, s, walk.cursor))
    BY <1>1 DEF After, ListRows
  <2>3. \A s \in walk'.kept : s \in RowIds
    BY <1>1 DEF Walk
  <2>. QED
    BY <1>1, <1>2, <2>1, <2>2, <2>3 DEF PageInv, WalkedToTheCursor
<1>5. WalksListEachRowOnce'
  BY <1>1, <1>2 DEF PageInv, WalksListEachRowOnce
<1>. QED
  BY <1>1, <1>3, <1>4, <1>5 DEF PageInv

(* What follows a row that comes after a cursor comes after it too.        *)
LEMMA AfterIsTransitive ==
  ASSUME RowsAreTyped, NEW r \in RowIds, NEW s \in RowIds, NEW cursor,
         cursor.at \in Nat, cursor.id \in Nat,
         Follows(r, s), After(row[s].place, s, cursor)
  PROVE  After(row[r].place, r, cursor)
<1>1. row[r].place \in Nat /\ row[s].place \in Nat /\ r \in Nat /\ s \in Nat
  BY PagingAssumption DEF RowsAreTyped, RowIds
<1>2. \/ IF ListRows.downward THEN row[r].place < row[s].place
         ELSE row[r].place > row[s].place
      \/ row[r].place = row[s].place /\ r > s
  BY DEF Follows, After
<1>. QED
  BY <1>1, <1>2 DEF After

(* The page that is read shows, of the rows that the walk owes, those that *)
(* come after the old cursor and not after the new one.                    *)
LEMMA ReadPageKeeps ==
  ASSUME PageInv, NEW limit \in 1..MaxLimit,
         NEW changed \in SUBSET {"workspace", "filter"}, ReadPage(limit, changed)
  PROVE  PageInv'
<1>. DEFINE page == FirstOf(Remaining, limit)
            more == Cardinality(Remaining) > limit
            last == CHOOSE r \in page : Earlier(r, page) = page \ {r}
<1>1. /\ walk \in Walk /\ list \in FineLists /\ RowsAreTyped
      /\ UNCHANGED <<list, row, member>>
      /\ limit \in Nat \ {0} /\ Remaining \subseteq Visible /\ Visible \subseteq RowIds
  BY DEF PageInv, ReadPage, Remaining, Visible
<1>2. Expected' = Expected /\ Visible' = Visible /\ RowsAreTyped'
      /\ \A r \in RowIds : row'[r] = row[r]
  BY <1>1 DEF Expected, Visible, RowsAreTyped
<1>3. \A r, c : After(row[r].place, r, c)' <=> After(row'[r].place, r, c')
  BY <1>1 DEF After, ListRows
<1>4. CASE ~Accepts(walk.cursor, changed)
  <2>1. walk' = [walk EXCEPT !.pc = "refused", !.strayed = changed # {}]
    BY <1>4 DEF ReadPage
  <2>2. /\ walk' \in Walk /\ walk'.pc = "refused" /\ walk'.kept = walk.kept
        /\ walk'.seen = walk.seen /\ walk'.strayed = (changed # {})
    BY <1>1, <2>1 DEF Walk
  <2>3. changed # {}
    BY <1>4 DEF Accepts, PageInv, ReadPage, WalkedToTheCursor
  <2>. QED
    BY <1>1, <1>2, <2>2, <2>3 DEF PageInv, WalkedToTheCursor, WalksListEachRowOnce
<1>5. CASE Accepts(walk.cursor, changed) /\ Svc.members /\ ~member
  <2>1. walk' = [walk EXCEPT !.pc = "forbidden"]
    BY <1>5 DEF ReadPage
  <2>2. /\ walk' \in Walk /\ walk'.pc = "forbidden" /\ walk'.kept = walk.kept
        /\ walk'.seen = walk.seen
    BY <1>1, <2>1 DEF Walk
  <2>. QED
    BY <1>1, <1>2, <2>2 DEF PageInv, WalkedToTheCursor, WalksListEachRowOnce
<1>6. CASE Accepts(walk.cursor, changed) /\ ~(Svc.members /\ ~member)
  <2>1. walk' = [pc |-> IF more THEN "going" ELSE "done",
                 cursor |-> IF more THEN EncodeCursor(last) ELSE walk.cursor,
                 seen |-> [r \in RowIds |-> walk.seen[r] + (IF r \in page THEN 1 ELSE 0)],
                 kept |-> IF walk.pc = "new" THEN Visible
                          ELSE IF changed # {} THEN {} ELSE walk.kept,
                 strayed |-> walk.strayed]
    BY <1>6 DEF ReadPage
  <2>2. /\ page \subseteq Remaining
        /\ ~more => page = Remaining
        /\ more => /\ last \in page
                   /\ \A r \in Remaining : r \in page <=> ~Follows(r, last)
    <3>1. Remaining \in SUBSET RowIds
      BY <1>1
    <3>2. Cardinality(Remaining) <= limit \/ Cardinality(Remaining) > limit
      BY <1>1, <3>1, RowsAreFinite
    <3>. QED
      BY <1>1, <3>1, <3>2, PageFacts
  <2>. HIDE DEF page, last, more
  <2>3. more => /\ EncodeCursor(last) = [at |-> row[last].place, id |-> last,
                                         binds |-> Expected, first |-> FALSE]
                /\ row[last].place \in Nat /\ last \in Nat
    <3>1. Svc.grain = 1 /\ Svc.binds = Expected
      BY <1>1, FineListFacts DEF Svc, Expected, Micro
    <3>2. ASSUME more PROVE row[last].place \in Nat /\ last \in Nat
      <4>1. last \in RowIds
        BY <1>1, <2>2, <3>2
      <4>2. row[last] \in [place : 0..LastPlace, shown : BOOLEAN, there : BOOLEAN]
        BY <1>1, <4>1 DEF RowsAreTyped
      <4>. QED
        BY <4>1, <4>2, PagingAssumption DEF RowIds
    <3>3. \A x \in Nat : (x \div 1) * 1 = x
      OBVIOUS
    <3>. QED
      BY <3>1, <3>2, <3>3 DEF EncodeCursor
  <2>4. walk' \in Walk
    <3>1. [r \in RowIds |-> walk.seen[r] + (IF r \in page THEN 1 ELSE 0)] \in [RowIds -> Nat]
      BY <1>1 DEF Walk
    <3>2. Expected \in SUBSET {"workspace", "filter"}
      BY <1>1, FineListFacts DEF Expected
    <3>3. (IF more THEN EncodeCursor(last) ELSE walk.cursor)
            \in [at : Nat, id : Nat, binds : SUBSET {"workspace", "filter"},
                 first : BOOLEAN]
      <4>. DEFINE wanted == Expected
                  place == row[last].place
      <4>1. CASE more
        <5>1. /\ EncodeCursor(last) = [at |-> place, id |-> last, binds |-> wanted,
                                       first |-> FALSE]
              /\ place \in Nat /\ last \in Nat
          BY <2>3, <4>1
        <5>2. wanted \in SUBSET {"workspace", "filter"}
          BY <3>2
        <5>. HIDE DEF wanted, place
        <5>. QED
          BY <4>1, <5>1, <5>2
      <4>2. CASE ~more
        BY <1>1, <4>2 DEF Walk
      <4>. QED
        BY <4>1, <4>2
    <3>4. (IF walk.pc = "new" THEN Visible ELSE IF changed # {} THEN {} ELSE walk.kept)
            \in SUBSET RowIds
      BY <1>1 DEF Walk
    <3>. QED
      BY <1>1, <2>1, <3>1, <3>3, <3>4 DEF Walk
  <2>5. /\ walk'.pc = (IF more THEN "going" ELSE "done")
        /\ walk'.cursor = (IF more THEN EncodeCursor(last) ELSE walk.cursor)
        /\ \A r \in RowIds :
             walk'.seen[r] = walk.seen[r] + (IF r \in page THEN 1 ELSE 0)
        /\ walk'.kept = (IF walk.pc = "new" THEN Visible
                         ELSE IF changed # {} THEN {} ELSE walk.kept)
    BY <2>1
  <2>6. walk'.kept \subseteq Visible
    BY <1>1, <2>5 DEF PageInv
  <2>7. ASSUME NEW r \in walk'.kept
        PROVE  /\ r \in RowIds /\ r \in Visible
               /\ walk.seen[r] = IF r \in Remaining THEN 0 ELSE 1
    <3>1. r \in Visible /\ r \in RowIds
      BY <1>1, <2>6
    <3>2. CASE walk.pc = "new"
      BY <3>1, <3>2 DEF PageInv, Remaining
    <3>3. CASE walk.pc = "going"
      BY <2>5, <3>1, <3>3 DEF PageInv, WalkedToTheCursor, Remaining
    <3>. QED
      BY <3>1, <3>2, <3>3 DEF ReadPage
  <2>8. ASSUME ~more
        PROVE  PageInv'
    <3>1. walk'.pc = "done" /\ \A r \in walk'.kept : walk'.seen[r] = 1
      BY <2>2, <2>5, <2>7, <2>8
    <3>. QED
      BY <1>1, <1>2, <2>4, <2>6, <3>1
         DEF PageInv, WalkedToTheCursor, WalksListEachRowOnce
  <2>9. ASSUME more
        PROVE  PageInv'
    <3>1. last \in RowIds /\ last \in page /\ last \in Remaining
      BY <1>1, <2>2, <2>9
    <3>2. walk'.pc = "going" /\ walk'.cursor = EncodeCursor(last)
      BY <2>5, <2>9
    <3>3. /\ ~walk'.cursor.first /\ walk'.cursor.binds = Expected'
          /\ walk'.cursor.at = row[last].place /\ walk'.cursor.id = last
      BY <1>2, <2>3, <2>9, <3>2
    <3>4. \A r \in RowIds :
            After(row[r].place, r, walk.cursor)' <=> Follows(r, last)
      BY <1>1, <3>3 DEF After, ListRows, Follows
    <3>5. ASSUME NEW r \in walk'.kept
          PROVE  walk'.seen[r] = IF Follows(r, last) THEN 0 ELSE 1
      <4>1. CASE r \in Remaining
        BY <2>2, <2>5, <2>7, <2>9, <4>1
      <4>2. CASE r \notin Remaining
        <5>1. r \notin page
          BY <2>2, <4>2
        <5>2. walk'.seen[r] = 1
          BY <2>5, <2>7, <4>2, <5>1
        <5>3. ~Follows(r, last)
          <6>1. ~walk.cursor.first /\ ~After(row[r].place, r, walk.cursor)
            BY <2>7, <4>2 DEF Remaining
          <6>2. After(row[last].place, last, walk.cursor)
            BY <3>1, <6>1 DEF Remaining
          <6>3. walk.cursor.at \in Nat /\ walk.cursor.id \in Nat
            BY <1>1 DEF Walk
          <6>. QED
            BY <1>1, <2>7, <3>1, <6>1, <6>2, <6>3, AfterIsTransitive
        <5>. QED
          BY <5>2, <5>3
      <4>. QED
        BY <4>1, <4>2
    <3>6. WalkedToTheCursor'
      BY <2>7, <3>2, <3>3, <3>4, <3>5 DEF WalkedToTheCursor
    <3>7. WalksListEachRowOnce'
      BY <3>2, <3>5 DEF WalksListEachRowOnce
    <3>. QED
      BY <1>1, <1>2, <2>4, <2>6, <3>2, <3>6, <3>7 DEF PageInv
  <2>. QED
    BY <2>8, <2>9
<1>. QED
  BY <1>4, <1>5, <1>6

LEMMA PageNextInv == PageInv /\ [PageNext]_pageVars => PageInv'
<1>. SUFFICES ASSUME PageInv, [PageNext]_pageVars PROVE PageInv'
  OBVIOUS
<1>1. ASSUME NEW r \in RowIds, WriteRow(r) PROVE PageInv'
  <2>1. PICK p \in 0..LastPlace :
          row' = [row EXCEPT ![r] = [place |-> p, shown |-> TRUE, there |-> TRUE]]
    BY <1>1 DEF WriteRow
  <2>2. RowsAreTyped' /\ \A s \in RowIds \ {r} : row'[s] = row[s]
    BY <2>1 DEF PageInv, RowsAreTyped
  <2>3. r \notin walk.kept
    BY <1>1 DEF PageInv, Visible, WriteRow
  <2>4. walk' = [walk EXCEPT !.kept = walk.kept \ {r}]
    <3>1. walk.kept \ {r} = walk.kept
      BY <2>3
    <3>2. walk = [walk EXCEPT !.kept = walk.kept]
      BY DEF PageInv, Walk
    <3>. QED
      BY <1>1, <3>1, <3>2 DEF WriteRow
  <2>. QED
    BY <1>1, <2>2, <2>4, WritersKeep DEF WriteRow
<1>2. ASSUME NEW r \in RowIds, ChangeRow(r) PROVE PageInv'
  <2>1. RowsAreTyped' /\ \A s \in RowIds \ {r} : row'[s] = row[s]
    <3>1. row \in [RowIds -> [place : 0..LastPlace, shown : BOOLEAN, there : BOOLEAN]]
      BY DEF PageInv, RowsAreTyped
    <3>2. CASE row' = [row EXCEPT ![r].shown = ~@]
      BY <3>1, <3>2 DEF RowsAreTyped
    <3>3. CASE \E p \in 0..LastPlace \ {row[r].place} : row' = [row EXCEPT ![r].place = p]
      BY <3>1, <3>3 DEF RowsAreTyped
    <3>. QED
      BY <1>2, <3>2, <3>3 DEF ChangeRow
  <2>. QED
    BY <1>2, <2>1, WritersKeep DEF ChangeRow
<1>3. CASE Suspend
  BY <1>3 DEF Suspend, PageInv, RowsAreTyped, Visible, WalkedToTheCursor, Expected,
              After, ListRows, WalksListEachRowOnce
<1>4. ASSUME NEW limit \in 1..MaxLimit, NEW changed \in SUBSET {"workspace", "filter"},
             ReadPage(limit, changed)
      PROVE  PageInv'
  BY <1>4, ReadPageKeeps
<1>5. CASE UNCHANGED pageVars
  BY <1>5 DEF pageVars, PageInv, RowsAreTyped, Visible, WalkedToTheCursor, Expected,
              After, ListRows, WalksListEachRowOnce
<1>. QED
  BY <1>1, <1>2, <1>3, <1>4, <1>5 DEF PageNext

(* A walk shows every row it owes, once, in any list whose cursors keep    *)
(* microseconds, of any length and for any limits of its pages; the other  *)
(* two lists are the subject of a run that refutes it.                     *)
THEOREM WalksShowEachRowOnce ==
  ASSUME ListNames \subseteq FineLists
  PROVE  PageSpec => []WalksListEachRowOnce
<1>1. PageInv => WalksListEachRowOnce
  BY DEF PageInv
<1>2. PageInit => PageInv
  BY PageInitInv
<1>. QED
  BY <1>1, <1>2, PageNextInv, PTL DEF PageSpec

-----------------------------------------------------------------------------
(* The dates of a rule *)

(* Quotients and remainders.                                               *)
LEMMA Division ==
  ASSUME NEW x \in Int, NEW n \in Nat \ {0}
  PROVE  x = n * (x \div n) + (x % n) /\ x % n \in 0..(n-1) /\ x \div n \in Int
OBVIOUS

(* Multiples lie a factor apart.                                           *)
LEMMA Multiples ==
  ASSUME NEW n \in Nat \ {0}, NEW q \in Int, NEW p \in Int, q < p
  PROVE  n * q + n <= n * p
OBVIOUS

(* What a quotient and a remainder are.                                    *)
LEMMA Quotient ==
  ASSUME NEW n \in Nat \ {0}, NEW q \in Int, NEW r \in 0..(n-1)
  PROVE  (n * q + r) \div n = q /\ (n * q + r) % n = r
<1>. DEFINE x == n * q + r
            p == x \div n
            s == x % n
            a == n * q
            b == n * p
<1>1. x \in Int /\ x = b + s /\ s \in 0..(n-1) /\ p \in Int
  BY Division
<1>2. a \in Int /\ b \in Int /\ x = a + r
  BY <1>1
<1>3. (q < p => a + n <= b) /\ (p < q => b + n <= a)
  BY <1>1, Multiples
<1>. HIDE DEF p, s, a, b, x
<1>4. ~(q < p) /\ ~(p < q)
  BY <1>1, <1>2, <1>3
<1>5. p = q
  BY <1>1, <1>4
<1>6. a = b
  BY <1>5 DEF a, b
<1>7. s = r
  BY <1>1, <1>2, <1>6
<1>. QED
  BY <1>5, <1>7 DEF p, s, x

(* From a multiple of n the next one is n further.                         *)
LEMMA NextMultiple ==
  ASSUME NEW n \in Nat \ {0}, NEW x \in Int, x % n = 0
  PROVE  /\ (x + n) % n = 0
         /\ \A j \in 1..(n - 1) : (x + j) % n # 0
<1>. DEFINE q == x \div n
            a == n * q
            b == n * (q + 1)
<1>1. x = a /\ q \in Int /\ a \in Int
  BY Division
<1>2. b = a + n /\ x + n = b + 0
  BY <1>1
<1>3. (x + n) % n = 0
  <2>1. x + n = n * (q + 1) + 0 /\ q + 1 \in Int /\ 0 \in 0..(n-1)
    BY <1>1, <1>2
  <2>. HIDE DEF q
  <2>2. (n * (q + 1) + 0) % n = 0
    BY <2>1, Quotient, Zenon
  <2>. QED
    BY <2>1, <2>2
<1>4. ASSUME NEW j \in 1..(n-1) PROVE (x + j) % n # 0
  <2>1. x + j = n * q + j /\ q \in Int /\ j \in 0..(n-1) /\ j # 0
    BY <1>1
  <2>. HIDE DEF q
  <2>2. (n * q + j) % n = j
    BY <2>1, Quotient, Zenon
  <2>. QED
    BY <2>1, <2>2
<1>. QED
  BY <1>3, <1>4

(* Leap years, months and days.                                            *)
LEMMA LeapYearsCount ==
  ASSUME NEW y \in Int
  PROVE  /\ LeapYears(y) \in Int
         /\ LeapYears(y) = LeapYears(y - 1) + (IF isLeapYear(y) THEN 1 ELSE 0)
<1>1. /\ y \div 4 = (y - 1) \div 4 + (IF y % 4 = 0 THEN 1 ELSE 0)
      /\ y \div 100 = (y - 1) \div 100 + (IF y % 100 = 0 THEN 1 ELSE 0)
      /\ y \div 400 = (y - 1) \div 400 + (IF y % 400 = 0 THEN 1 ELSE 0)
  OBVIOUS
<1>2. (y % 400 = 0 => y % 100 = 0) /\ (y % 100 = 0 => y % 4 = 0)
  OBVIOUS
<1>. QED
  BY <1>1, <1>2 DEF LeapYears, isLeapYear

(* A month starts where the one before it ends, over leap years too.       *)
LEMMA MonthsFollow ==
  ASSUME NEW m \in Nat
  PROVE  /\ MonthStart(m) \in Int
         /\ MonthStart(m + 1) = MonthStart(m) + Length(m)
         /\ Length(m) \in 28..31
<1>. DEFINE y == m \div 12
            k == m % 12
            leap == isLeapYear(FirstYear + y)
<1>1. /\ m = 12 * y + k /\ y \in Nat /\ k \in 0..11 /\ FirstYear \in Nat
      /\ leap \in BOOLEAN
  BY OccurrenceAssumption DEF isLeapYear
<1>2. /\ k < 11 => (m + 1) \div 12 = y /\ (m + 1) % 12 = k + 1
      /\ k = 11 => (m + 1) \div 12 = y + 1 /\ (m + 1) % 12 = 0
  BY <1>1
<1>3. /\ LeapYears(FirstYear + y) = LeapYears(FirstYear + y - 1) + (IF leap THEN 1 ELSE 0)
      /\ LeapYears(FirstYear + y - 1) \in Int /\ LeapYears(FirstYear - 1) \in Int
      /\ LeapYears(FirstYear + y) \in Int
  BY <1>1, LeapYearsCount
<1>4. Length(m) = IF k = 1 THEN IF leap THEN 29 ELSE 28
                  ELSE IF k \in {3, 5, 8, 10} THEN 30 ELSE 31
  BY <1>1 DEF Length, daysInMonth
<1>5. MonthStart(m) = 365 * y + LeapYears(FirstYear + y - 1) - LeapYears(FirstYear - 1)
                      + DaysBefore[k + 1] + (IF k > 1 /\ leap THEN 1 ELSE 0)
  BY <1>1 DEF MonthStart
<1>6. MonthStart(m + 1) =
        IF k < 11
        THEN 365 * y + LeapYears(FirstYear + y - 1) - LeapYears(FirstYear - 1)
             + DaysBefore[k + 2] + (IF k + 1 > 1 /\ leap THEN 1 ELSE 0)
        ELSE 365 * (y + 1) + LeapYears(FirstYear + y) - LeapYears(FirstYear - 1)
             + DaysBefore[1]
  <2>1. CASE k < 11
    BY <1>1, <1>2, <2>1 DEF MonthStart
  <2>2. CASE k = 11
    <3>1. FirstYear + (y + 1) - 1 = FirstYear + y
      BY <1>1
    <3>. QED
      BY <1>1, <1>2, <1>3, <2>2, <3>1 DEF MonthStart, DaysBefore
  <2>. QED
    BY <1>1, <2>1, <2>2
<1>. HIDE DEF y, k, leap
<1>7. /\ k < 11 => DaysBefore[k + 2] + (IF k + 1 > 1 /\ leap THEN 1 ELSE 0) =
                  DaysBefore[k + 1] + (IF k > 1 /\ leap THEN 1 ELSE 0) + Length(m)
      /\ k = 11 => 365 + (IF leap THEN 1 ELSE 0) =
                  DaysBefore[k + 1] + (IF k > 1 /\ leap THEN 1 ELSE 0) + Length(m)
      /\ DaysBefore[k + 1] \in Int /\ DaysBefore[1] = 0
      /\ k < 11 => DaysBefore[k + 2] \in Int
      /\ Length(m) \in 28..31
  BY <1>1, <1>4 DEF DaysBefore
<1>. QED
  BY <1>1, <1>3, <1>5, <1>6, <1>7

(* Months have 28 to 31 days, all together.                                *)
LEMMA MonthsSpan ==
  ASSUME NEW m \in Nat
  PROVE  28 * m <= MonthStart(m) /\ MonthStart(m) <= 31 * m
<1>. DEFINE Spans(k) == 28 * k <= MonthStart(k) /\ MonthStart(k) <= 31 * k
            T == {k \in Nat : ~Spans(k)}
<1>1. Spans(0)
  BY OccurrenceAssumption DEF MonthStart, DaysBefore, LeapYears
<1>2. ASSUME NEW k \in Nat, Spans(k) PROVE Spans(k + 1)
  BY <1>2, MonthsFollow
<1>. HIDE DEF Spans
<1>3. T = {}
  <2>1. SUFFICES ASSUME T # {} PROVE FALSE
    OBVIOUS
  <2>2. PICK k \in T : \A n \in T : k <= n
    BY <2>1, LeastNumber
  <2>3. k \in Nat /\ k # 0 /\ ~Spans(k)
    BY <1>1, <2>2
  <2>4. k - 1 \in Nat /\ (k - 1) + 1 = k
    BY <2>3
  <2>5. Spans(k - 1)
    BY <2>2, <2>4
  <2>. QED
    BY <1>2, <2>3, <2>4, <2>5
<1>4. Spans(m)
  BY <1>3
<1>. QED
  BY <1>4 DEF Spans

(* A later month starts when the one before it has ended.                  *)
LEMMA MonthsIncrease ==
  ASSUME NEW m \in Nat, NEW n \in Nat, m < n
  PROVE  MonthStart(m + 1) <= MonthStart(n)
<1>. DEFINE T == {k \in Nat : m < k /\ ~(MonthStart(m + 1) <= MonthStart(k))}
<1>1. SUFFICES ASSUME T # {} PROVE FALSE
  OBVIOUS
<1>2. PICK k \in T : \A j \in T : k <= j
  BY <1>1, LeastNumber
<1>3. k \in Nat /\ m < k /\ ~(MonthStart(m + 1) <= MonthStart(k))
  BY <1>2
<1>4. MonthStart(m + 1) \in Int
  BY MonthsFollow
<1>5. k # m + 1
  BY <1>3, <1>4
<1>6. k - 1 \in Nat /\ m < k - 1 /\ (k - 1) + 1 = k
  BY <1>3, <1>5
<1>7. k - 1 \notin T
  BY <1>2, <1>6
<1>8. MonthStart(m + 1) <= MonthStart(k - 1)
  BY <1>6, <1>7
<1>9. /\ MonthStart(k - 1) \in Int /\ Length(k - 1) \in 28..31
      /\ MonthStart(k) = MonthStart(k - 1) + Length(k - 1)
  BY <1>6, MonthsFollow
<1>. QED
  BY <1>3, <1>4, <1>8, <1>9

(* Every day is in one month.                                              *)
LEMMA MonthOfDay ==
  ASSUME NEW d \in Nat
  PROVE  /\ MonthOf(d) \in Nat
         /\ MonthStart(MonthOf(d)) <= d /\ d < MonthStart(MonthOf(d) + 1)
         /\ DayOfMonth(d) \in 1..Length(MonthOf(d))
<1>. DEFINE T == {k \in Nat : d < MonthStart(k)}
<1>1. d + 1 \in T
  <2>1. MonthStart(d + 1) \in Int /\ 28 * (d + 1) <= MonthStart(d + 1)
    BY MonthsSpan, MonthsFollow
  <2>. QED
    BY <2>1
<1>2. PICK k \in T : \A j \in T : k <= j
  BY <1>1, LeastNumber
<1>3. k \in Nat /\ d < MonthStart(k) /\ MonthStart(k) \in Int
  BY <1>2, MonthsFollow
<1>4. k # 0
  BY <1>3, MonthsSpan
<1>5. k - 1 \in Nat /\ (k - 1) + 1 = k /\ MonthStart(k - 1) \in Int
  BY <1>3, <1>4, MonthsFollow
<1>6. MonthStart(k - 1) <= d
  BY <1>2, <1>5
<1>7. k - 1 \in (d \div 31)..(d \div 28)
  <2>1. 28 * (k - 1) <= MonthStart(k - 1) /\ MonthStart(k) <= 31 * k
    BY <1>3, <1>5, MonthsSpan
  <2>. QED
    BY <1>3, <1>5, <1>6, <2>1
<1>8. \E m \in (d \div 31)..(d \div 28) : MonthStart(m) <= d /\ d < MonthStart(m + 1)
  BY <1>3, <1>5, <1>6, <1>7
<1>9. /\ MonthOf(d) \in (d \div 31)..(d \div 28)
      /\ MonthStart(MonthOf(d)) <= d /\ d < MonthStart(MonthOf(d) + 1)
  BY <1>8 DEF MonthOf
<1>10. MonthOf(d) \in Nat
  BY <1>9
<1>11. /\ MonthStart(MonthOf(d)) \in Int /\ Length(MonthOf(d)) \in 28..31
       /\ MonthStart(MonthOf(d) + 1) = MonthStart(MonthOf(d)) + Length(MonthOf(d))
  BY <1>10, MonthsFollow
<1>. QED
  BY <1>9, <1>10, <1>11 DEF DayOfMonth

(* The month that has a day is its month.                                  *)
LEMMA DayInMonth ==
  ASSUME NEW m \in Nat, NEW k \in 1..Length(m), NEW d, d = MonthStart(m) + k - 1
  PROVE  d \in Nat /\ MonthOf(d) = m /\ DayOfMonth(d) = k
<1>1. /\ MonthStart(m) \in Int /\ Length(m) \in 28..31 /\ 28 * m <= MonthStart(m)
      /\ MonthStart(m + 1) = MonthStart(m) + Length(m)
  BY MonthsFollow, MonthsSpan
<1>2. d \in Nat /\ MonthStart(m) <= d /\ d < MonthStart(m + 1)
  BY <1>1
<1>3. /\ MonthOf(d) \in Nat /\ MonthStart(MonthOf(d)) \in Int
      /\ MonthStart(MonthOf(d) + 1) \in Int
      /\ MonthStart(MonthOf(d)) <= d /\ d < MonthStart(MonthOf(d) + 1)
  BY <1>2, MonthOfDay, MonthsFollow
<1>4. ~(m < MonthOf(d))
  <2>1. m < MonthOf(d) => MonthStart(m + 1) <= MonthStart(MonthOf(d))
    BY <1>3, MonthsIncrease
  <2>. QED
    BY <1>1, <1>2, <1>3, <2>1
<1>5. ~(MonthOf(d) < m)
  <2>1. MonthOf(d) < m => MonthStart(MonthOf(d) + 1) <= MonthStart(m)
    BY <1>3, MonthsIncrease
  <2>. QED
    BY <1>1, <1>2, <1>3, <2>1
<1>6. MonthOf(d) = m
  BY <1>3, <1>4, <1>5
<1>. QED
  BY <1>1, <1>2, <1>6 DEF DayOfMonth

(* Months and their days come in the order of the days.                    *)
LEMMA LaterDay ==
  ASSUME NEW d \in Nat, NEW e \in Nat, d < e
  PROVE  /\ MonthOf(d) <= MonthOf(e)
         /\ MonthOf(d) = MonthOf(e) => DayOfMonth(d) < DayOfMonth(e)
<1>1. /\ MonthOf(d) \in Nat /\ MonthStart(MonthOf(d)) <= d
      /\ d < MonthStart(MonthOf(d) + 1)
      /\ MonthOf(e) \in Nat /\ MonthStart(MonthOf(e)) <= e
      /\ e < MonthStart(MonthOf(e) + 1)
  BY MonthOfDay
<1>2. /\ MonthStart(MonthOf(d)) \in Int /\ MonthStart(MonthOf(e)) \in Int
      /\ MonthStart(MonthOf(d) + 1) \in Int /\ MonthStart(MonthOf(e) + 1) \in Int
  BY <1>1, MonthsFollow
<1>3. MonthOf(e) < MonthOf(d) => MonthStart(MonthOf(e) + 1) <= MonthStart(MonthOf(d))
  BY <1>1, MonthsIncrease
<1>. QED
  BY <1>1, <1>2, <1>3 DEF DayOfMonth

\* The rule and the start a schedule may have, and a day it has reached.
Reached(d) ==
  /\ schedule.rule \in ParsedRule /\ schedule.start \in Nat
  /\ d \in Nat /\ (d = schedule.start \/ IsDate(d))

\* The date after a day.
IsNext(e, d) ==
  /\ e \in Nat /\ d < e /\ IsDate(e)
  /\ \A x \in (d + 1)..(e - 1) : ~IsDate(x)

(* Zero is a multiple of every interval.                                   *)
LEMMA ZeroIsMultiple ==
  ASSUME NEW n \in Nat \ {0}
  PROVE  0 % n = 0
<1>1. (n * 0 + 0) % n = 0
  <2>1. 0 \in Int /\ 0 \in 0..(n - 1)
    OBVIOUS
  <2>. QED
    BY <2>1, Quotient, Zenon
<1>. QED
  BY <1>1

(* Dates that lie n days apart.                                            *)
LEMMA EqualStep ==
  ASSUME NEW d, Reached(d), NEW n \in Nat \ {0},
         \A x \in Nat : IsDate(x) <=> x > schedule.start /\ (x - schedule.start) % n = 0
  PROVE  IsNext(d + n, d)
<1>. DEFINE s == schedule.start
<1>1. s \in Nat /\ d \in Nat /\ d >= s /\ (d - s) % n = 0
  <2>1. d = s => d - s = 0
    BY DEF Reached
  <2>2. d = s => (d - s) % n = 0
    BY <2>1, ZeroIsMultiple
  <2>. QED
    BY <2>2 DEF Reached
<1>2. /\ ((d - s) + n) % n = 0
      /\ \A j \in 1..(n - 1) : ((d - s) + j) % n # 0
  <2>1. d - s \in Int
    BY <1>1
  <2>. HIDE DEF s
  <2>. QED
    BY <1>1, <2>1, NextMultiple
<1>3. IsDate(d + n)
  <2>1. d + n \in Nat /\ d + n > s /\ (d + n) - s = (d - s) + n
    BY <1>1
  <2>2. ((d + n) - s) % n = 0
    BY <1>2, <2>1
  <2>. QED
    BY <2>1, <2>2
<1>4. ASSUME NEW x \in (d + 1)..(d + n - 1) PROVE ~IsDate(x)
  <2>1. x \in Nat /\ x - d \in 1..(n - 1) /\ x - s = (d - s) + (x - d)
    BY <1>1
  <2>2. (x - s) % n # 0
    BY <1>2, <2>1
  <2>. QED
    BY <2>1, <2>2
<1>. QED
  BY <1>1, <1>3, <1>4 DEF IsNext

(* A step of a daily rule leads to its next date.                          *)
LEMMA DailyStep ==
  ASSUME NEW d, Reached(d), schedule.rule.freq = "DAILY"
  PROVE  IsNext(Stepped(d), d)
<1>1. schedule.rule.interval \in Nat \ {0}
  BY DEF Reached, ParsedRule
<1>2. \A x \in Nat : IsDate(x) <=>
        x > schedule.start /\ (x - schedule.start) % schedule.rule.interval = 0
  BY DEF IsDate
<1>3. Stepped(d) = d + schedule.rule.interval
  BY DEF Stepped, StepFrom
<1>. QED
  BY <1>1, <1>2, <1>3, EqualStep

(* A step of a weekly rule without weekdays leads to its next date.        *)
LEMMA WeeklyStep ==
  ASSUME NEW d, Reached(d), schedule.rule.freq = "WEEKLY", schedule.rule.byDay = {}
  PROVE  IsNext(Stepped(d), d)
<1>1. 7 * schedule.rule.interval \in Nat \ {0}
  BY DEF Reached, ParsedRule
<1>2. \A x \in Nat : IsDate(x) <=>
        x > schedule.start /\ (x - schedule.start) % (7 * schedule.rule.interval) = 0
  BY DEF IsDate
<1>3. Stepped(d) = d + 7 * schedule.rule.interval
  BY DEF Stepped, StepFrom
<1>. QED
  BY <1>1, <1>2, <1>3, EqualStep

(* Dates on listed weekdays.                                               *)
LEMMA WeekdaysStep ==
  ASSUME NEW d, Reached(d), schedule.rule.freq = "WEEKLY", schedule.rule.byDay # {}
  PROVE  IsNext(Stepped(d), d)
<1>. DEFINE s == schedule.start
            n == schedule.rule.interval
            D == schedule.rule.byDay
            later == {w \in D : w > Weekday(d)}
            First(S) == CHOOSE w \in S : \A v \in S : w <= v
            e == Stepped(d)
<1>1. /\ s \in Nat /\ d \in Nat /\ n \in Nat \ {0}
      /\ D \in SUBSET (0..6) /\ D # {} /\ FirstWeekday \in Nat
  BY OccurrenceAssumption DEF Reached, ParsedRule
<1>2. \A x \in Nat : IsDate(x) <=>
        x > s /\ Weekday(x) \in D /\ (Week(x) - Week(s)) % n = 0
  BY DEF IsDate
<1>3. \A x \in Nat : /\ x + FirstWeekday = 7 * Week(x) + Weekday(x)
                      /\ Week(x) \in Nat /\ Weekday(x) \in 0..6
  BY <1>1 DEF Week, Weekday
<1>4. \A S \in SUBSET D : S # {} => First(S) \in S /\ \A v \in S : First(S) <= v
  <2>1. ASSUME NEW S \in SUBSET D, S # {}
        PROVE  \E w \in S : \A v \in S : w <= v
    <3>1. S \in SUBSET Nat
      BY <1>1
    <3>. QED
      BY <2>1, <3>1, LeastNumber
  <2>. QED
    BY <2>1
<1>5. e = IF later # {} THEN d + First(later) - Weekday(d)
          ELSE d + (7 - Weekday(d)) + 7 * (n - 1) + First(D)
  BY DEF Stepped, StepFrom, NextWeekday
<1>6. d >= s /\ (Week(d) - Week(s)) % n = 0
  <2>1. CASE d = s
    <3>1. Week(d) - Week(s) = 0
      BY <1>1, <1>3, <2>1
    <3>. QED
      BY <1>1, <2>1, <3>1, ZeroIsMultiple
  <2>2. CASE IsDate(d)
    BY <1>1, <1>2, <2>2
  <2>. QED
    BY <2>1, <2>2 DEF Reached
<1>. DEFINE weeks == Week(d) - Week(s)
<1>7. /\ weeks \in Int /\ (weeks + n) % n = 0
      /\ \A j \in 1..(n - 1) : (weeks + j) % n # 0
  <2>1. weeks \in Int /\ weeks % n = 0
    BY <1>1, <1>3, <1>6
  <2>. HIDE DEF weeks, n
  <2>. QED
    BY <1>1, <2>1, NextMultiple
<1>8. \A x \in Nat, k \in Nat, w \in 0..6 :
        x + FirstWeekday = 7 * k + w => Week(x) = k /\ Weekday(x) = w
  BY <1>1 DEF Week, Weekday
<1>9. CASE later # {}
  <2>. DEFINE f == First(later)
  <2>1. /\ f \in D /\ f \in 0..6 /\ f > Weekday(d)
        /\ \A v \in D : v > Weekday(d) => f <= v
    <3>. HIDE DEF First
    <3>1. later \in SUBSET D
      OBVIOUS
    <3>. QED
      BY <1>1, <1>4, <1>9, <3>1
  <2>2. e = d + f - Weekday(d)
    BY <1>5, <1>9
  <2>. HIDE DEF f, e, First, later
  <2>3. /\ d + FirstWeekday = 7 * Week(d) + Weekday(d)
        /\ Week(d) \in Nat /\ Weekday(d) \in 0..6
    BY <1>1, <1>3
  <2>4. e \in Nat /\ d < e /\ e + FirstWeekday = 7 * Week(d) + f
    BY <1>1, <2>1, <2>2, <2>3
  <2>5. Week(e) = Week(d) /\ Weekday(e) = f
    BY <1>8, <2>1, <2>3, <2>4
  <2>6. IsDate(e)
    BY <1>1, <1>2, <1>6, <2>1, <2>4, <2>5
  <2>7. ASSUME NEW x \in (d + 1)..(e - 1) PROVE ~IsDate(x)
    <3>1. x \in Nat /\ x > d /\ x < e
      BY <1>1, <2>4
    <3>2. /\ x + FirstWeekday = 7 * Week(x) + Weekday(x)
          /\ Week(x) \in Nat /\ Weekday(x) \in 0..6
      BY <1>3, <3>1
    <3>3. Weekday(x) > Weekday(d) /\ Weekday(x) < f
      BY <1>1, <2>1, <2>3, <2>4, <3>1, <3>2
    <3>4. Weekday(x) \notin D
      BY <2>1, <2>3, <3>2, <3>3
    <3>. QED
      BY <1>2, <3>1, <3>4
  <2>. QED
    BY <2>4, <2>6, <2>7 DEF IsNext, e
<1>10. CASE later = {}
  <2>. DEFINE f == First(D)
  <2>1. f \in D /\ f \in 0..6 /\ \A v \in D : f <= v
    <3>. HIDE DEF First
    <3>. QED
      BY <1>1, <1>4
  <2>2. e = d + (7 - Weekday(d)) + 7 * (n - 1) + f
    BY <1>5, <1>10
  <2>3. \A v \in D : ~(v > Weekday(d))
    BY <1>10
  <2>. HIDE DEF f, e, First, later
  <2>4. /\ d + FirstWeekday = 7 * Week(d) + Weekday(d)
        /\ Week(d) \in Nat /\ Weekday(d) \in 0..6 /\ Week(s) \in Nat
    BY <1>1, <1>3
  <2>5. /\ e \in Nat /\ d < e /\ Week(d) + n \in Nat
        /\ e + FirstWeekday = 7 * (Week(d) + n) + f
    <3>. HIDE DEF n
    <3>. QED
      BY <1>1, <2>1, <2>2, <2>4
  <2>6. Week(e) = Week(d) + n /\ Weekday(e) = f
    BY <1>8, <2>1, <2>4, <2>5
  <2>7. (Week(e) - Week(s)) % n = 0
    <3>1. Week(e) - Week(s) = weeks + n
      BY <1>1, <2>4, <2>6
    <3>. QED
      BY <1>7, <3>1
  <2>8. IsDate(e)
    BY <1>1, <1>2, <1>6, <2>1, <2>5, <2>6, <2>7
  <2>9. ASSUME NEW x \in (d + 1)..(e - 1) PROVE ~IsDate(x)
    <3>1. x \in Nat /\ x > d /\ x < e
      BY <1>1, <2>5
    <3>2. /\ x + FirstWeekday = 7 * Week(x) + Weekday(x)
          /\ Week(x) \in Nat /\ Weekday(x) \in 0..6
      BY <1>3, <3>1
    <3>3. \/ Week(x) = Week(d) /\ Weekday(x) > Weekday(d)
          \/ Week(x) - Week(d) \in 1..(n - 1)
          \/ Week(x) = Week(d) + n /\ Weekday(x) < f
      <4>. HIDE DEF n
      <4>. QED
        BY <1>1, <2>1, <2>4, <2>5, <3>1, <3>2
    <3>4. CASE Week(x) - Week(d) \in 1..(n - 1)
      <4>1. Week(x) - Week(s) = weeks + (Week(x) - Week(d))
        BY <2>4, <3>2
      <4>2. (Week(x) - Week(s)) % n # 0
        BY <1>7, <3>4, <4>1
      <4>. QED
        BY <1>2, <3>1, <4>2
    <3>5. CASE Weekday(x) > Weekday(d)
      BY <1>2, <2>3, <3>1, <3>5
    <3>6. CASE Weekday(x) < f
      <4>1. Weekday(x) \notin D
        BY <2>1, <3>2, <3>6
      <4>. QED
        BY <1>2, <3>1, <4>1
    <3>. QED
      BY <3>3, <3>4, <3>5, <3>6
  <2>. QED
    BY <2>5, <2>8, <2>9 DEF IsNext, e
<1>. QED
  BY <1>9, <1>10

(* A month has one day that is wanted.                                     *)
LEMMA WantedDay ==
  ASSUME NEW rule \in ParsedRule, NEW anchor \in Nat \ {0}
  PROVE  /\ \A m \in Nat : DayIn(rule, m, anchor) \in 1..Length(m)
         /\ \A d \in Nat : Wanted(d, rule, anchor) <=>
                           DayOfMonth(d) = DayIn(rule, MonthOf(d), anchor)
<1>1. rule.byMonthDay \in Int
  BY DEF ParsedRule
<1>2. ASSUME NEW m \in Nat PROVE DayIn(rule, m, anchor) \in 1..Length(m)
  <2>1. Length(m) \in 28..31
    BY MonthsFollow
  <2>. QED
    BY <1>1, <2>1 DEF DayIn, Lower, Higher
<1>3. ASSUME NEW d \in Nat
      PROVE  Wanted(d, rule, anchor) <=> DayOfMonth(d) = DayIn(rule, MonthOf(d), anchor)
  <2>1. /\ MonthOf(d) \in Nat /\ Length(MonthOf(d)) \in 28..31
        /\ DayOfMonth(d) \in 1..Length(MonthOf(d))
    BY MonthOfDay, MonthsFollow
  <2>. QED
    BY <1>1, <2>1 DEF Wanted, DayIn, Lower, Higher
<1>. QED
  BY <1>2, <1>3

(* A step of a monthly rule leads to its next date.                        *)
LEMMA MonthlyStep ==
  ASSUME NEW d, Reached(d), schedule.rule.freq = "MONTHLY"
  PROVE  IsNext(Stepped(d), d)
<1>. DEFINE s == schedule.start
            r == schedule.rule
            n == schedule.rule.interval
            anchor == DayOfMonth(s)
            next == MonthOf(d) + n
            day == DayIn(r, next, anchor)
            months == MonthOf(d) - MonthOf(s)
            e == Stepped(d)
<1>1. /\ s \in Nat /\ d \in Nat /\ n \in Nat \ {0} /\ r \in ParsedRule
      /\ MonthOf(s) \in Nat /\ MonthOf(d) \in Nat /\ next \in Nat
      /\ anchor \in Nat \ {0}
  <2>1. s \in Nat /\ d \in Nat /\ n \in Nat \ {0} /\ r \in ParsedRule
    BY DEF Reached, ParsedRule
  <2>2. MonthOf(s) \in Nat /\ MonthOf(d) \in Nat /\ anchor \in Nat \ {0}
    BY <2>1, MonthOfDay, MonthsFollow
  <2>. QED
    BY <2>1, <2>2
<1>2. /\ \A m \in Nat : DayIn(r, m, anchor) \in 1..Length(m)
      /\ \A x \in Nat : Wanted(x, r, anchor) <=> DayOfMonth(x) = DayIn(r, MonthOf(x), anchor)
  BY <1>1, WantedDay
<1>3. \A x \in Nat : IsDate(x) <=>
        /\ x > s /\ MonthOf(x) - MonthOf(s) > 0
        /\ (MonthOf(x) - MonthOf(s)) % n = 0
        /\ DayOfMonth(x) = DayIn(r, MonthOf(x), anchor)
  BY <1>2 DEF IsDate
<1>4. e = MonthStart(next) + day - 1
  BY DEF Stepped, StepFrom, OnDay
<1>5. e \in Nat /\ MonthOf(e) = next /\ DayOfMonth(e) = day
  <2>1. day \in 1..Length(next)
    BY <1>1, <1>2
  <2>. HIDE DEF day, next, e
  <2>. QED
    BY <1>1, <1>4, <2>1, DayInMonth
<1>6. d >= s /\ months >= 0 /\ months % n = 0
  <2>1. CASE d = s
    <3>1. months = 0
      BY <1>1, <2>1
    <3>. QED
      BY <1>1, <2>1, <3>1, ZeroIsMultiple
  <2>2. CASE IsDate(d)
    BY <1>1, <1>3, <2>2
  <2>. QED
    BY <2>1, <2>2 DEF Reached
<1>7. /\ months \in Nat /\ (months + n) % n = 0
      /\ \A j \in 1..(n - 1) : (months + j) % n # 0
  <2>1. months \in Nat /\ months \in Int /\ n \in Nat \ {0} /\ months % n = 0
    BY <1>1, <1>6
  <2>. HIDE DEF months, n
  <2>. QED
    BY <2>1, NextMultiple
<1>. HIDE DEF e, day
<1>8. d < e
  <2>1. ~(e < d)
    <3>1. e < d => MonthOf(e) <= MonthOf(d)
      BY <1>1, <1>5, LaterDay
    <3>. QED
      BY <1>1, <1>5, <3>1
  <2>2. e # d
    BY <1>1, <1>5
  <2>. QED
    BY <1>1, <1>5, <2>1, <2>2
<1>9. IsDate(e)
  <2>1. MonthOf(e) - MonthOf(s) = months + n /\ e > s
    BY <1>1, <1>5, <1>6, <1>8
  <2>2. (MonthOf(e) - MonthOf(s)) % n = 0 /\ MonthOf(e) - MonthOf(s) > 0
    BY <1>1, <1>7, <2>1
  <2>. QED
    BY <1>3, <1>5, <2>1, <2>2 DEF day
<1>10. ASSUME NEW x \in (d + 1)..(e - 1), IsDate(x) PROVE FALSE
  <2>1. x \in Nat /\ d < x /\ x < e
    BY <1>1, <1>5
  <2>2. /\ MonthOf(x) \in Nat /\ DayOfMonth(x) \in Int /\ DayOfMonth(d) \in Int
        /\ DayOfMonth(e) \in Int
    BY <1>1, <1>5, <2>1, MonthOfDay
  <2>3. /\ MonthOf(d) <= MonthOf(x) /\ MonthOf(x) <= next
        /\ MonthOf(d) = MonthOf(x) => DayOfMonth(d) < DayOfMonth(x)
        /\ MonthOf(x) = next => DayOfMonth(x) < DayOfMonth(e)
    BY <1>1, <1>5, <2>1, LaterDay
  <2>4. /\ MonthOf(x) - MonthOf(s) > 0 /\ (MonthOf(x) - MonthOf(s)) % n = 0
        /\ DayOfMonth(x) = DayIn(r, MonthOf(x), anchor)
    BY <1>3, <1>10, <2>1
  <2>5. MonthOf(x) # next
    <3>1. MonthOf(x) = next => DayOfMonth(x) = DayOfMonth(e)
      BY <1>5, <2>4 DEF day
    <3>. QED
      BY <2>2, <2>3, <3>1
  <2>6. MonthOf(x) # MonthOf(d)
    <3>1. SUFFICES ASSUME MonthOf(x) = MonthOf(d) PROVE FALSE
      OBVIOUS
    <3>2. d # s
      BY <1>1, <2>4, <3>1
    <3>3. DayOfMonth(d) = DayIn(r, MonthOf(d), anchor)
      BY <1>1, <1>3, <3>2 DEF Reached
    <3>. QED
      BY <2>2, <2>3, <2>4, <3>1, <3>3
  <2>7. MonthOf(x) - MonthOf(d) \in 1..(n - 1)
    BY <1>1, <2>2, <2>3, <2>5, <2>6
  <2>8. MonthOf(x) - MonthOf(s) = months + (MonthOf(x) - MonthOf(d))
    BY <1>1, <2>2
  <2>9. (months + (MonthOf(x) - MonthOf(d))) % n # 0
    BY <1>7, <2>7
  <2>. QED
    BY <2>4, <2>8, <2>9
<1>. QED
  BY <1>5, <1>8, <1>9, <1>10 DEF IsNext, e

(* A month, counted from the first, is one of a year.                      *)
LEMMA YearAndMonth ==
  ASSUME NEW m \in Nat
  PROVE  m = 12 * (m \div 12) + (m % 12) /\ m % 12 \in 0..11 /\ m \div 12 \in Nat
<1>. DEFINE q == m \div 12
            k == m % 12
<1>1. m = 12 * q + k /\ k \in 0..11 /\ q \in Int
  BY Division
<1>. HIDE DEF q, k
<1>2. q \in Nat
  BY <1>1
<1>3. m = 12 * q + k /\ k \in 0..11 /\ q \in Nat
  BY <1>1, <1>2, Zenon
<1>. QED
  BY <1>3, Zenon DEF q, k

(* A step of a yearly rule leads to its next date.                         *)
LEMMA YearlyStep ==
  ASSUME NEW d, Reached(d), schedule.rule.freq = "YEARLY"
  PROVE  IsNext(Stepped(d), d)
<1>. DEFINE s == schedule.start
            r == schedule.rule
            n == schedule.rule.interval
            anchor == DayOfMonth(s)
            Year(x) == MonthOf(x) \div 12
            Month(x) == MonthOf(x) % 12
            month == IF r.byMonth # 0 THEN r.byMonth - 1 ELSE Month(s)
            next == 12 * (Year(d) + n) + month
            day == DayIn(r, next, anchor)
            years == Year(d) - Year(s)
            e == Stepped(d)
<1>1. \A x \in Nat : /\ MonthOf(x) = 12 * Year(x) + Month(x)
                      /\ MonthOf(x) \in Nat /\ Year(x) \in Nat /\ Month(x) \in 0..11
                      /\ DayOfMonth(x) \in Nat \ {0}
  <2>1. ASSUME NEW x \in Nat PROVE MonthOf(x) \in Nat /\ DayOfMonth(x) \in Nat \ {0}
    BY MonthOfDay, MonthsFollow
  <2>2. ASSUME NEW x \in Nat
        PROVE  /\ MonthOf(x) = 12 * Year(x) + Month(x)
               /\ Year(x) \in Nat /\ Month(x) \in 0..11
    BY <2>1, YearAndMonth
  <2>. QED
    BY <2>1, <2>2
<1>. HIDE DEF Year, Month
<1>2. /\ s \in Nat /\ d \in Nat /\ n \in Nat \ {0} /\ r \in ParsedRule
      /\ anchor \in Nat \ {0} /\ month \in 0..11 /\ next \in Nat
  <2>1. /\ s \in Nat /\ d \in Nat /\ n \in Nat \ {0} /\ r \in ParsedRule
        /\ r.byMonth \in 0..12
    BY DEF Reached, ParsedRule
  <2>2. /\ Month(s) \in 0..11 /\ Year(d) \in Nat /\ anchor \in Nat \ {0}
    BY <1>1, <2>1
  <2>3. month \in 0..11
    BY <2>1, <2>2
  <2>. QED
    BY <2>1, <2>2, <2>3
<1>3. /\ \A m \in Nat : DayIn(r, m, anchor) \in 1..Length(m)
      /\ \A x \in Nat : Wanted(x, r, anchor) <=> DayOfMonth(x) = DayIn(r, MonthOf(x), anchor)
  BY <1>2, WantedDay
<1>4. \A x \in Nat : IsDate(x) <=>
        /\ x > s /\ Year(x) - Year(s) > 0 /\ (Year(x) - Year(s)) % n = 0
        /\ Month(x) = month
        /\ DayOfMonth(x) = DayIn(r, MonthOf(x), anchor)
  BY <1>3 DEF IsDate, Year, Month
<1>5. e = MonthStart(next) + day - 1
  BY DEF Stepped, StepFrom, OnDay, Year, Month
<1>. HIDE DEF month
<1>6. e \in Nat /\ MonthOf(e) = next /\ DayOfMonth(e) = day
  <2>1. day \in 1..Length(next)
    BY <1>2, <1>3
  <2>. HIDE DEF day, next, e
  <2>. QED
    BY <1>2, <1>5, <2>1, DayInMonth
<1>7. Year(e) = Year(d) + n /\ Month(e) = month /\ MonthOf(d) < MonthOf(e)
  <2>1. /\ MonthOf(e) = 12 * Year(e) + Month(e) /\ Year(e) \in Nat /\ Month(e) \in 0..11
        /\ MonthOf(d) = 12 * Year(d) + Month(d) /\ Year(d) \in Nat /\ Month(d) \in 0..11
    BY <1>1, <1>2, <1>6
  <2>2. MonthOf(e) = 12 * (Year(d) + n) + month /\ month \in 0..11 /\ n \in Nat \ {0}
    BY <1>2, <1>6
  <2>. HIDE DEF n, e
  <2>. QED
    BY <2>1, <2>2
<1>8. d >= s /\ years >= 0 /\ years % n = 0
  <2>1. CASE d = s
    <3>1. years = 0
      BY <1>1, <1>2, <2>1
    <3>. QED
      BY <1>2, <2>1, <3>1, ZeroIsMultiple
  <2>2. CASE IsDate(d)
    BY <1>1, <1>2, <1>4, <2>2
  <2>. QED
    BY <2>1, <2>2 DEF Reached
<1>9. /\ years \in Nat /\ (years + n) % n = 0
      /\ \A j \in 1..(n - 1) : (years + j) % n # 0
  <2>1. years \in Nat /\ years \in Int /\ n \in Nat \ {0} /\ years % n = 0
    BY <1>1, <1>2, <1>8
  <2>. HIDE DEF years, n
  <2>. QED
    BY <2>1, NextMultiple
<1>. HIDE DEF e, day
<1>10. d < e
  <2>1. /\ d \in Nat /\ e \in Nat /\ MonthOf(d) \in Nat /\ MonthOf(e) \in Nat
        /\ MonthOf(d) < MonthOf(e)
    BY <1>1, <1>2, <1>6, <1>7
  <2>2. e < d => MonthOf(e) <= MonthOf(d)
    BY <2>1, LaterDay
  <2>3. e # d
    BY <2>1
  <2>4. ~(e < d)
    BY <2>1, <2>2
  <2>. QED
    BY <2>1, <2>3, <2>4
<1>11. IsDate(e)
  <2>1. Year(e) - Year(s) = years + n /\ e > s
    BY <1>1, <1>2, <1>6, <1>7, <1>8, <1>10
  <2>2. (Year(e) - Year(s)) % n = 0 /\ Year(e) - Year(s) > 0
    BY <1>2, <1>9, <2>1
  <2>. QED
    BY <1>4, <1>6, <1>7, <2>1, <2>2 DEF day
<1>12. ASSUME NEW x \in (d + 1)..(e - 1), IsDate(x) PROVE FALSE
  <2>1. x \in Nat /\ d < x /\ x < e
    BY <1>2, <1>6
  <2>2. /\ MonthOf(x) = 12 * Year(x) + Month(x) /\ Year(x) \in Nat /\ Month(x) \in 0..11
        /\ MonthOf(d) = 12 * Year(d) + Month(d) /\ Year(d) \in Nat /\ Month(d) \in 0..11
        /\ MonthOf(e) = 12 * Year(e) + Month(e) /\ Year(s) \in Nat
        /\ DayOfMonth(x) \in Int /\ DayOfMonth(d) \in Int /\ DayOfMonth(e) \in Int
    BY <1>1, <1>2, <1>6, <2>1
  <2>3. /\ MonthOf(d) <= MonthOf(x) /\ MonthOf(x) <= MonthOf(e)
        /\ MonthOf(d) = MonthOf(x) => DayOfMonth(d) < DayOfMonth(x)
        /\ MonthOf(x) = MonthOf(e) => DayOfMonth(x) < DayOfMonth(e)
    BY <1>2, <1>6, <2>1, LaterDay
  <2>4. /\ Year(x) - Year(s) > 0 /\ (Year(x) - Year(s)) % n = 0
        /\ Month(x) = month /\ DayOfMonth(x) = DayIn(r, MonthOf(x), anchor)
    BY <1>4, <1>12, <2>1
  <2>5. Year(x) # Year(e)
    <3>1. SUFFICES ASSUME Year(x) = Year(e) PROVE FALSE
      OBVIOUS
    <3>2. MonthOf(x) = MonthOf(e)
      BY <1>7, <2>2, <2>4, <3>1
    <3>3. DayOfMonth(x) = DayOfMonth(e)
      BY <1>6, <2>4, <3>2 DEF day
    <3>. QED
      BY <2>2, <2>3, <3>2, <3>3
  <2>6. Year(x) # Year(d)
    <3>1. SUFFICES ASSUME Year(x) = Year(d) PROVE FALSE
      OBVIOUS
    <3>2. d # s
      BY <1>2, <2>2, <2>4, <3>1
    <3>3. Month(d) = month /\ DayOfMonth(d) = DayIn(r, MonthOf(d), anchor)
      BY <1>2, <1>4, <3>2 DEF Reached
    <3>4. MonthOf(x) = MonthOf(d)
      BY <2>2, <2>4, <3>1, <3>3
    <3>. QED
      BY <2>2, <2>3, <2>4, <3>3, <3>4
  <2>7. Year(x) - Year(d) \in 1..(n - 1)
    BY <1>2, <1>7, <2>2, <2>3, <2>5, <2>6
  <2>8. Year(x) - Year(s) = years + (Year(x) - Year(d))
    BY <2>2
  <2>9. (years + (Year(x) - Year(d))) % n # 0
    BY <1>9, <2>7
  <2>. QED
    BY <2>4, <2>8, <2>9
<1>. QED
  BY <1>6, <1>10, <1>11, <1>12 DEF IsNext, e

(* A step leads to the next date, whatever the rule.                       *)
LEMMA StepIsNext ==
  ASSUME NEW d, Reached(d)
  PROVE  IsNext(Stepped(d), d)
<1>1. schedule.rule.freq \in {"DAILY", "WEEKLY", "MONTHLY", "YEARLY"}
  BY DEF Reached, ParsedRule
<1>. QED
  BY <1>1, DailyStep, WeeklyStep, WeekdaysStep, MonthlyStep, YearlyStep

DatesIn(first, last) == {x \in first..last : IsDate(x)}

\* Until a date is reached that is not due, those passed are all due, and as
\* many as the iterations count.
ScheduleInv ==
  /\ schedule.rule \in ParsedRule /\ schedule.start \in Nat
  /\ schedule.now \in Int /\ schedule.ends \in Int
  /\ iterations \in Nat
  /\ verdict \in {"new", "stepping", "given up", "accepted", "unfireable"}
  /\ verdict = "new" => occurrence = schedule.start /\ iterations = 0
  /\ verdict # "new" =>
       /\ occurrence \in Nat /\ IsDate(occurrence)
       /\ \A x \in DatesIn(schedule.start, occurrence - 1) :
            x <= Higher(schedule.start, schedule.now)
       /\ Cardinality(DatesIn(schedule.start, occurrence)) = iterations + 1
  /\ verdict \in {"accepted", "unfireable"} => ~Due(occurrence)
  /\ verdict = "accepted" => schedule.ends = 0 \/ occurrence <= schedule.ends
  /\ verdict = "unfireable" => occurrence > schedule.ends
  /\ verdict = "given up" => Due(occurrence) /\ iterations = MaxIterations

(* A rule has no date on the day it starts, nor before.                    *)
LEMMA DatesFollowTheStart ==
  ASSUME NEW d, IsDate(d)
  PROVE  d > schedule.start
BY Zenon DEF IsDate

(* The dates between two days can be counted.                              *)
LEMMA DatesAreFinite ==
  ASSUME NEW a \in Int, NEW b \in Int
  PROVE  IsFiniteSet(DatesIn(a, b)) /\ Cardinality(DatesIn(a, b)) \in Nat
<1>1. IsFiniteSet(a..b)
  BY FS_Interval
<1>2. DatesIn(a, b) \subseteq a..b
  BY DEF DatesIn
<1>3. IsFiniteSet(DatesIn(a, b))
  BY <1>1, <1>2, FS_Subset
<1>. QED
  BY <1>3, FS_CardinalityType

(* The dates of a rule do not change while it is stepped.                  *)
LEMMA ScheduleStays ==
  ASSUME schedule' = schedule
  PROVE  /\ \A x : IsDate(x)' <=> IsDate(x)
         /\ \A a, b : DatesIn(a, b)' = DatesIn(a, b)
         /\ \A x : Due(x)' <=> Due(x)
<1>1. \A x : IsDate(x)' <=> IsDate(x)
  BY DEF IsDate
<1>. QED
  BY <1>1 DEF DatesIn, Due

(* A step passes the date it leaves, and no other.                         *)
LEMMA OneDateFurther ==
  ASSUME NEW d, Reached(d), d >= schedule.start, NEW e, IsNext(e, d)
  PROVE  /\ DatesIn(schedule.start, e) = DatesIn(schedule.start, d) \cup {e}
         /\ DatesIn(schedule.start, e - 1) = DatesIn(schedule.start, d)
         /\ Cardinality(DatesIn(schedule.start, e)) =
              Cardinality(DatesIn(schedule.start, d)) + 1
<1>1. schedule.start \in Nat /\ d \in Nat /\ e \in Nat /\ d < e /\ IsDate(e)
  BY DEF Reached, IsNext
<1>2. \A x \in schedule.start..e : IsDate(x) => x <= d \/ x = e
  BY <1>1 DEF IsNext
<1>3. DatesIn(schedule.start, e) = DatesIn(schedule.start, d) \cup {e}
  BY <1>1, <1>2 DEF DatesIn
<1>4. DatesIn(schedule.start, e - 1) = DatesIn(schedule.start, d)
  BY <1>1, <1>2 DEF DatesIn
<1>5. e \notin DatesIn(schedule.start, d)
  BY <1>1 DEF DatesIn
<1>6. IsFiniteSet(DatesIn(schedule.start, d))
  <2>1. schedule.start \in Int /\ d \in Int
    BY <1>1
  <2>. QED
    BY <2>1, DatesAreFinite
<1>. QED
  BY <1>3, <1>4, <1>5, <1>6, FS_AddElement

(* The invariant holds before the first step.                              *)
LEMMA ScheduleInitInv == ScheduleInit => ScheduleInv
<1>. SUFFICES ASSUME ScheduleInit PROVE ScheduleInv
  OBVIOUS
<1>1. PICK r \in Rules, s \in Starts, w \in Delays, t \in Terms :
        schedule = [rule |-> r, start |-> s, now |-> s + w,
                    ends |-> IF t = 0 THEN 0 ELSE s + w + t]
  BY DEF ScheduleInit
<1>2. r \in ParsedRule /\ s \in Nat /\ w \in Int /\ t \in Nat
  BY OccurrenceAssumption
<1>. QED
  BY <1>1, <1>2 DEF ScheduleInit, ScheduleInv

(* Every step keeps the invariant.                                         *)
LEMMA ScheduleNextInv == ScheduleInv /\ [ScheduleNext]_scheduleVars => ScheduleInv'
<1>. SUFFICES ASSUME ScheduleInv, [ScheduleNext]_scheduleVars PROVE ScheduleInv'
  OBVIOUS
<1>1. schedule' = schedule
  BY DEF ScheduleNext, FirstOccurrence, NextIteration, GiveUp, Judge, scheduleVars
<1>2. /\ \A x : IsDate(x)' <=> IsDate(x)
      /\ \A a, b : DatesIn(a, b)' = DatesIn(a, b)
      /\ \A x : Due(x)' <=> Due(x)
  BY <1>1, ScheduleStays
<1>3. /\ schedule.rule \in ParsedRule /\ schedule.start \in Nat
      /\ schedule.now \in Int /\ schedule.ends \in Int /\ iterations \in Nat
  BY DEF ScheduleInv
<1>. DEFINE s == schedule.start
            due == Higher(schedule.start, schedule.now)
<1>4. CASE FirstOccurrence
  <2>1. Reached(s) /\ occurrence = s /\ iterations = 0
    BY <1>3, <1>4 DEF Reached, FirstOccurrence, ScheduleInv
  <2>2. occurrence' = Stepped(s) /\ IsNext(occurrence', s)
    BY <1>4, <2>1, StepIsNext DEF FirstOccurrence
  <2>3. DatesIn(s, s) = {}
    BY <1>3, DatesFollowTheStart DEF DatesIn
  <2>4. /\ DatesIn(s, occurrence' - 1) = {}
        /\ Cardinality(DatesIn(s, occurrence')) = 1
    BY <1>3, <2>1, <2>2, <2>3, OneDateFurther, FS_EmptySet
  <2>. QED
    BY <1>1, <1>2, <1>3, <1>4, <2>1, <2>2, <2>4
       DEF FirstOccurrence, ScheduleInv, IsNext
<1>5. CASE NextIteration
  <2>1. /\ occurrence >= s /\ occurrence \in Nat /\ IsDate(occurrence)
        /\ occurrence <= schedule.now
        /\ \A x \in DatesIn(s, occurrence - 1) : x <= due
        /\ Cardinality(DatesIn(s, occurrence)) = iterations + 1
        /\ Reached(occurrence)
    <3>1. /\ occurrence \in Nat /\ IsDate(occurrence)
          /\ occurrence <= schedule.now
          /\ \A x \in DatesIn(s, occurrence - 1) : x <= due
          /\ Cardinality(DatesIn(s, occurrence)) = iterations + 1
      BY <1>5 DEF NextIteration, ScheduleInv, Due
    <3>2. occurrence >= s
      BY <1>3, <3>1, DatesFollowTheStart
    <3>. QED
      BY <1>3, <3>1, <3>2 DEF Reached
  <2>2. occurrence' = Stepped(occurrence) /\ IsNext(occurrence', occurrence)
    BY <1>5, <2>1, StepIsNext DEF NextIteration
  <2>3. /\ DatesIn(s, occurrence' - 1) = DatesIn(s, occurrence)
        /\ Cardinality(DatesIn(s, occurrence')) = (iterations + 1) + 1
    BY <2>1, <2>2, OneDateFurther
  <2>4. \A x \in DatesIn(s, occurrence) : x <= due
    BY <1>3, <2>1 DEF DatesIn, Higher
  <2>. QED
    BY <1>1, <1>2, <1>3, <1>5, <2>2, <2>3, <2>4 DEF NextIteration, ScheduleInv, IsNext
<1>6. CASE GiveUp
  BY <1>1, <1>2, <1>3, <1>6 DEF GiveUp, ScheduleInv
<1>7. CASE Judge
  <2>1. schedule.ends = 0 \/ occurrence <= schedule.ends \/ occurrence > schedule.ends
    BY <1>3, <1>7 DEF Judge, ScheduleInv
  <2>. QED
    BY <1>1, <1>2, <1>3, <1>7, <2>1 DEF Judge, ScheduleInv
<1>8. CASE UNCHANGED scheduleVars
  BY <1>1, <1>2, <1>3, <1>8 DEF scheduleVars, ScheduleInv
<1>. QED
  BY <1>4, <1>5, <1>6, <1>7, <1>8 DEF ScheduleNext

(* The next occurrence of a rule is the first of its dates after the       *)
(* present, for every rule parseRRule lets through, every start, present   *)
(* and end, and any limit of iterations (computeNextOccurrence).           *)
THEOREM NoDateIsSkipped == ScheduleSpec => []NextOccurrenceIsNext
<1>1. ScheduleInv => NextOccurrenceIsNext
  <2>. SUFFICES ASSUME ScheduleInv PROVE NextOccurrenceIsNext
    OBVIOUS
  <2>. DEFINE s == schedule.start
              due == Higher(schedule.start, schedule.now)
              Dates(first, last) == {d \in first..last : IsDate(d)}
  <2>1. s \in Nat /\ schedule.now \in Int /\ schedule.ends \in Int /\ due \in Int /\ due >= s
    <3>1. s \in Nat /\ schedule.now \in Int /\ schedule.ends \in Int
      BY DEF ScheduleInv
    <3>. QED
      BY <3>1 DEF Higher
  <2>2. \A a, b : Dates(a, b) = DatesIn(a, b)
    BY DEF DatesIn
  <2>3. ASSUME verdict \in {"accepted", "unfireable"}
        PROVE  /\ IsDate(occurrence) /\ Dates(due + 1, occurrence - 1) = {}
               /\ verdict = "unfireable" => Dates(due + 1, schedule.ends) = {}
    <3>1. /\ occurrence \in Nat /\ IsDate(occurrence)
          /\ \A x \in DatesIn(s, occurrence - 1) : x <= due
          /\ verdict = "unfireable" => occurrence > schedule.ends
      BY <2>3 DEF ScheduleInv
    <3>2. \A x \in (due + 1)..(occurrence - 1) : ~IsDate(x)
      BY <2>1, <3>1 DEF DatesIn
    <3>. QED
      BY <2>1, <3>1, <3>2
  <2>4. ASSUME verdict = "given up"
        PROVE  Cardinality(Dates(s, schedule.now)) > MaxIterations
    <3>1. /\ occurrence \in Nat /\ occurrence <= schedule.now
          /\ Cardinality(DatesIn(s, occurrence)) = MaxIterations + 1
      BY <2>4 DEF ScheduleInv, Due
    <3>2. DatesIn(s, occurrence) \subseteq DatesIn(s, schedule.now)
      BY <2>1, <3>1 DEF DatesIn
    <3>3. /\ Cardinality(DatesIn(s, occurrence)) <= Cardinality(DatesIn(s, schedule.now))
          /\ Cardinality(DatesIn(s, schedule.now)) \in Nat
      <4>1. s \in Int /\ schedule.now \in Int
        BY <2>1
      <4>2. /\ IsFiniteSet(DatesIn(s, schedule.now))
            /\ Cardinality(DatesIn(s, schedule.now)) \in Nat
        BY <4>1, DatesAreFinite
      <4>. QED
        BY <3>2, <4>2, FS_Subset
    <3>4. Dates(s, schedule.now) = DatesIn(s, schedule.now)
      BY DEF DatesIn
    <3>5. MaxIterations \in Nat
      BY OccurrenceAssumption
    <3>. HIDE DEF Dates
    <3>. QED
      BY <3>1, <3>3, <3>4, <3>5
  <2>5. verdict = "accepted" => schedule.ends = 0 \/ occurrence <= schedule.ends
    BY DEF ScheduleInv
  <2>. QED
    BY <2>3, <2>4, <2>5 DEF NextOccurrenceIsNext
<1>. QED
  BY <1>1, ScheduleInitInv, ScheduleNextInv, PTL DEF ScheduleSpec
=============================================================================
