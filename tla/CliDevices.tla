----------------------------- MODULE CliDevices -----------------------------
(***************************************************************************)
(* Command-line devices.  A device asks for an authorization and shows its *)
(* user code; a person who is signed in approves the code; the device      *)
(* polls with its device code until it receives a token.  Polls are        *)
(* anonymous, so that no subject lock orders them, and each counts against *)
(* the window of its client and address, also when it is refused.          *)
(*                                                                         *)
(* The redemption and the token are one transaction.  A device that loses  *)
(* the answer of its COMMIT polls again and finds the code redeemed.       *)
(***************************************************************************)
EXTENDS Naturals, FiniteSets

CONSTANTS
  Devices,       \* authorizations asked for
  People,        \* subjects who approve
  Polls,         \* requests for a token
  Addresses,     \* where requests come from
  Lifetime,      \* ten minutes, in ticks
  PollLimit,     \* polls a window admits
  ApprovalLimit, \* approvals a window admits of a person
  LastInstant    \* bound: how far time goes

Noone == "noone"
ASSUME CliDevicesAssumption ==
  /\ Lifetime \in Nat \ {0}
  /\ PollLimit \in Nat /\ ApprovalLimit \in Nat /\ LastInstant \in Nat
  /\ Noone \notin People

VARIABLES
  instant,    \* the clock: a window of the rate limit is one tick
  grant,      \* authorizations: expiry, who approved, whether redeemed
  tokens,     \* tokens issued: device, subject and poll
  used,       \* requests the window of an address has counted
  approvals,  \* approvals the window of a person has counted
  poll        \* each poll: pc, device, address, its reading of the clock

deviceVars == <<instant, grant, tokens, used, approvals, poll>>

NoGrant == [expires |-> 0, by |-> Noone, redeemed |-> FALSE]
Token == [device : Devices, subject : People, poll : Polls]

DeviceTypeOK ==
  /\ instant \in 0..LastInstant
  /\ grant \in [Devices -> [expires : Nat, by : People \cup {Noone}, redeemed : BOOLEAN]]
  /\ tokens \subseteq Token
  /\ used \in [Addresses -> Nat]
  /\ approvals \in [People -> 0..ApprovalLimit]
  /\ \A p \in Polls : poll[p].pc \in {"new", "admitted", "redeemed", "token",
                                      "invalid", "limited", "failed"}

DeviceInit ==
  /\ instant = 0
  /\ grant = [d \in Devices |-> NoGrant]
  /\ tokens = {}
  /\ used = [a \in Addresses |-> 0]
  /\ approvals = [s \in People |-> 0]
  /\ poll = [p \in Polls |-> [pc |-> "new"]]

NextWindow ==
  /\ instant < LastInstant
  /\ instant' = instant + 1
  /\ used' = [a \in Addresses |-> 0]
  /\ approvals' = [s \in People |-> 0]
  /\ UNCHANGED <<grant, tokens, poll>>

Running(p) == poll[p].pc \in {"admitted", "redeemed"}

\* The counter is a row: a request waits for one of its window that is open.
Count(a) ==
  /\ \A p \in Polls : Running(p) => poll[p].from # a \/ poll[p].now # instant
  /\ used' = [used EXCEPT ![a] = @ + 1]

\* authorize: a fresh user code, its collisions tried again under a savepoint.
Authorize(d, a) ==
  /\ grant[d].expires = 0
  /\ used[a] < PollLimit
  /\ Count(a)
  /\ grant' = [grant EXCEPT ![d].expires = instant + Lifetime]
  /\ UNCHANGED <<instant, tokens, approvals, poll>>

\* The row a redemption has updated is locked until it commits.
Free(d) == \A p \in Polls : poll[p].pc = "redeemed" => poll[p].device # d

\* The first to approve keeps it, and may approve again, until it is redeemed.
Approvable(d, s) ==
  /\ ~grant[d].redeemed
  /\ (grant[d].by = Noone /\ grant[d].expires > instant) \/ grant[d].by = s

\* The person's rate limit, whose count stays although the code is refused, and
\* approve_cli_device_authorization.  Past the limit nothing but the count
\* changes, and nothing looks at how far past it is.
Approve(d, s) ==
  /\ approvals[s] < ApprovalLimit
  /\ Free(d)
  /\ approvals' = [approvals EXCEPT ![s] = @ + 1]
  /\ grant' = IF Approvable(d, s)
                THEN [grant EXCEPT ![d].by = IF @ = Noone THEN s ELSE @] ELSE grant
  /\ UNCHANGED <<instant, tokens, used, poll>>

\* The rate limit, then the redemption, with the same reading of the clock.
BeginPoll(p, d, a) ==
  /\ poll[p].pc = "new"
  /\ Count(a)
  /\ poll' = [poll EXCEPT ![p] =
       [pc |-> IF used[a] < PollLimit THEN "admitted" ELSE "limited",
        device |-> d, from |-> a, now |-> instant]]
  /\ UNCHANGED <<instant, grant, tokens, approvals>>

\* Faulty variant: a code that was redeemed is redeemed again.
RedeemableAgain(d, now) == grant[d].by # Noone /\ grant[d].expires > now

\* where approved_at is not null and expires_at > p_now and redeemed_at is null
Redeemable(d, now) ==
  /\ grant[d].by # Noone
  /\ grant[d].expires > now
  /\ ~grant[d].redeemed

\* redeem_cli_device_authorization waits for the row.
Redeem(p) ==
  /\ poll[p].pc = "admitted"
  /\ Free(poll[p].device)
  /\ poll' = [poll EXCEPT ![p].pc =
       IF Redeemable(poll[p].device, poll[p].now) THEN "redeemed" ELSE "invalid"]
  /\ UNCHANGED <<instant, grant, tokens, used, approvals>>

\* insert_cli_device_token for the subject who approved, and COMMIT; its
\* answer may be lost.
IssueToken(p) ==
  LET d == poll[p].device IN
  /\ poll[p].pc = "redeemed"
  /\ grant' = [grant EXCEPT ![d].redeemed = TRUE]
  /\ tokens' = tokens \cup {[device |-> d, subject |-> grant[d].by, poll |-> p]}
  /\ \E told \in {"token", "failed"} : poll' = [poll EXCEPT ![p].pc = told]
  /\ UNCHANGED <<instant, used, approvals>>

\* A rollback takes its count back, if the window is still the same.
AbortPoll(p) ==
  /\ Running(p)
  /\ poll' = [poll EXCEPT ![p].pc = "failed"]
  /\ used' = IF poll[p].now = instant
               THEN [used EXCEPT ![poll[p].from] = @ - 1] ELSE used
  /\ UNCHANGED <<instant, grant, tokens, approvals>>

DeviceNext ==
  \/ NextWindow
  \/ \E d \in Devices : \/ \E a \in Addresses : Authorize(d, a)
                        \/ \E s \in People : Approve(d, s)
  \/ \E p \in Polls :
       \/ \E d \in Devices, a \in Addresses : BeginPoll(p, d, a)
       \/ Redeem(p) \/ IssueToken(p) \/ AbortPoll(p)

DeviceSpec == DeviceInit /\ [][DeviceNext]_deviceVars

(* An approval is good for one token, in the name of the person who        *)
(* approved, although polls overlap, lose their answers and are repeated,  *)
(* and although another person enters the same user code: what a device    *)
(* holds is that token, and no approval changes hands once it is given.    *)
OneTokenPerApproval ==
  /\ \A t, u \in tokens : t.device = u.device => t = u
  /\ \A t \in tokens : grant[t.device].redeemed /\ grant[t.device].by = t.subject
  /\ \A p \in Polls : poll[p].pc = "token" => \E t \in tokens : t.poll = p
=============================================================================
