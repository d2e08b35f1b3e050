--------------------------- MODULE AgentMessages ---------------------------
(***************************************************************************)
(* POST /v1/agent/conversations/{id}/messages under one Idempotency-Key:    *)
(* prepare() reserves the key in one transaction, execute() streams the    *)
(* provider's events to the client and then saves the run and the key in    *)
(* another.                                                                *)
(*                                                                         *)
(* Transactions of one subject follow one another (the advisory lock of    *)
(* the subject), so each is one action; between them the process may stop,  *)
(* the client may hang up, and other requests with the same key arrive.    *)
(* A run's events are told apart by their terminal event only.             *)
(***************************************************************************)
EXTENDS Integers, FiniteSets

CONSTANTS
  Requests,     \* requests that carry the key
  Bodies,       \* what Body may be: the fingerprint of each request
  RateLimit,    \* requests a minute allows
  MaxMinutes,   \* bound: minutes that pass
  MaxFaults     \* bound: failures of the database, the provider, the process

ASSUME AgentAssumption ==
  /\ "none" \notin Requests
  /\ RateLimit \in Nat
  /\ MaxMinutes \in Nat
  /\ MaxFaults \in Nat

VARIABLES
  body,     \* the fingerprint of each request
  key,      \* the row of agent_message_idempotency
  runs,     \* agent_message_runs: the terminal event each saved run ends with
  req,      \* each request in the process
  told,     \* how the client's answer ended
  count,    \* messages of the conversation counted in this minute
  minute,
  agentFaults

agentVars == <<body, key, runs, req, told, count, minute, agentFaults>>

\* The terminal event of a run; "none" stands for no events.
Ends   == {"none", "completed", "failed"}
NoKey  == [run |-> "none", body |-> "none", end |-> "none"]
ReqPCs == {"new", "streaming", "saving", "savingAgain", "releasing", "done"}
Told   == {"none", "completed", "failed", "cut", "notFound", "conflict", "limited",
           "error"}

AgentTypeOK ==
  /\ body \in [Requests -> Bodies]
  /\ key \in {NoKey} \cup [run : Requests, body : Bodies, end : Ends]
  /\ runs \in [Requests -> Ends]
  /\ req \in [Requests -> [pc : ReqPCs, end : Ends, aborted : BOOLEAN]]
  /\ told \in [Requests -> Told]
  /\ count \in Nat
  /\ minute \in 0..MaxMinutes
  /\ agentFaults \in 0..MaxFaults

AgentInit ==
  /\ body \in [Requests -> Bodies]
  /\ key = NoKey
  /\ runs = [r \in Requests |-> "none"]
  /\ req = [r \in Requests |-> [pc |-> "new", end |-> "none", aborted |-> FALSE]]
  /\ told = [r \in Requests |-> "none"]
  /\ count = 0
  /\ minute = 0
  /\ agentFaults = 0

Reserved == key # NoKey

\* The privileges on agent_message_idempotency.
Granted == {"select", "insert", "update"}

ReqAt(r, pc) == req[r].pc = pc

\* The client learns how its request ended unless it has hung up, and keeps
\* what it learned first.
Tell(r, what) ==
  told' = [told EXCEPT ![r] = IF @ = "none" THEN what ELSE @]

Fault == agentFaults < MaxFaults /\ agentFaults' = agentFaults + 1

-----------------------------------------------------------------------------
(* prepare *)

\* The conversation is gone, or the caller may no longer see it.
NotFound(r) ==
  /\ ReqAt(r, "new")
  /\ req' = [req EXCEPT ![r].pc = "done"]
  /\ Tell(r, "notFound")
  /\ UNCHANGED <<body, key, runs, count, minute, agentFaults>>

\* Faulty variant: a key without events is taken for a free one.
PrepareUnfinished(r) ==
  /\ ReqAt(r, "new")
  /\ ~Reserved \/ key.end = "none"
  /\ count < RateLimit
  /\ count' = count + 1
  /\ key' = [run |-> r, body |-> body[r], end |-> "none"]
  /\ req' = [req EXCEPT ![r].pc = "streaming"]
  /\ UNCHANGED <<body, runs, told, minute, agentFaults>>

\* A free key is reserved with no events.
Reserve(r) ==
  /\ ReqAt(r, "new")
  /\ ~Reserved
  /\ count < RateLimit
  /\ count' = count + 1
  /\ key' = [run |-> r, body |-> body[r], end |-> "none"]
  /\ req' = [req EXCEPT ![r].pc = "streaming"]
  /\ UNCHANGED <<body, runs, told, minute, agentFaults>>

\* The request over the limit is counted too: its transaction commits.
Limited(r) ==
  /\ ReqAt(r, "new")
  /\ ~Reserved
  /\ count >= RateLimit
  /\ count' = count + 1
  /\ req' = [req EXCEPT ![r].pc = "done"]
  /\ Tell(r, "limited")
  /\ UNCHANGED <<body, key, runs, minute, agentFaults>>

\* Another body, or a run that has no events yet.
Conflict(r) ==
  /\ ReqAt(r, "new")
  /\ Reserved
  /\ key.body # body[r] \/ key.end = "none"
  /\ req' = [req EXCEPT ![r].pc = "done"]
  /\ Tell(r, "conflict")
  /\ UNCHANGED <<body, key, runs, count, minute, agentFaults>>

\* The stored events are sent again.
Replay(r) ==
  /\ ReqAt(r, "new")
  /\ Reserved
  /\ key.body = body[r] /\ key.end # "none"
  /\ req' = [req EXCEPT ![r].pc = "done"]
  /\ Tell(r, key.end)
  /\ UNCHANGED <<body, key, runs, count, minute, agentFaults>>

\* The transaction fails, or commits without its reply arriving.
PrepareFails(r) ==
  /\ ReqAt(r, "new")
  /\ Fault
  /\ \/ UNCHANGED <<key, count>>
     \/ /\ ~Reserved /\ count < RateLimit
        /\ key' = [run |-> r, body |-> body[r], end |-> "none"]
        /\ count' = count + 1
     \/ /\ ~Reserved /\ count >= RateLimit
        /\ count' = count + 1
        /\ UNCHANGED key
  /\ req' = [req EXCEPT ![r].pc = "done"]
  /\ Tell(r, "error")
  /\ UNCHANGED <<body, runs, minute>>

-----------------------------------------------------------------------------
(* execute *)

\* The client closes the connection.
HangUp(r) ==
  /\ req[r].pc \in {"streaming", "saving", "savingAgain"}
  /\ ~req[r].aborted
  /\ req' = [req EXCEPT ![r].aborted = TRUE]
  /\ Tell(r, "cut")
  /\ UNCHANGED <<body, key, runs, count, minute, agentFaults>>

\* The iterator ends, or is left by break: run_completed is pushed and the
\* run saved, or the key released.
StreamEnds(r) ==
  /\ ReqAt(r, "streaming")
  /\ IF req[r].aborted
       THEN /\ req' = [req EXCEPT ![r].pc = "releasing"]
            /\ UNCHANGED told
       ELSE /\ req' = [req EXCEPT ![r].pc = "saving", ![r].end = "completed"]
            /\ Tell(r, "completed")
  /\ UNCHANGED <<body, key, runs, count, minute, agentFaults>>

\* Faulty variant: run_failed is pushed after run_completed.
AfterFailureTwice(end) == "failed"

\* push: nothing follows a terminal event.
AfterFailure(end) == IF end = "none" THEN "failed" ELSE end

\* The catch block: an aborted run is left as it is, any other is failed and
\* saved.
Caught(r) ==
  IF req[r].aborted
    THEN /\ req' = [req EXCEPT ![r].pc = "done"]
         /\ UNCHANGED told
    ELSE /\ req' = [req EXCEPT ![r].pc = "savingAgain",
                               ![r].end = AfterFailure(@)]
         /\ Tell(r, AfterFailure(req[r].end))

StreamThrows(r) ==
  /\ ReqAt(r, "streaming")
  /\ Fault
  /\ Caught(r)
  /\ UNCHANGED <<body, key, runs, count, minute>>

\* saveRun and finalizeIdempotency, in one transaction.
SaveTx(r) ==
  /\ runs' = [runs EXCEPT ![r] = req[r].end]
  /\ key' = IF Reserved THEN [key EXCEPT !.end = req[r].end] ELSE key

Save(r) ==
  /\ ReqAt(r, "saving")
  /\ SaveTx(r)
  /\ req' = [req EXCEPT ![r].pc = "done"]
  /\ UNCHANGED <<body, told, count, minute, agentFaults>>

\* The transaction fails, or commits without its reply arriving.
SaveFails(r) ==
  /\ ReqAt(r, "saving")
  /\ Fault
  /\ SaveTx(r) \/ UNCHANGED <<runs, key>>
  /\ Caught(r)
  /\ UNCHANGED <<body, count, minute>>

\* A run that is there already violates the primary key and rolls back.
SaveAgain(r) ==
  /\ ReqAt(r, "savingAgain")
  /\ IF runs[r] = "none" THEN SaveTx(r) ELSE UNCHANGED <<runs, key>>
  /\ req' = [req EXCEPT ![r].pc = "done"]
  /\ UNCHANGED <<body, told, count, minute, agentFaults>>

SaveAgainFails(r) ==
  /\ ReqAt(r, "savingAgain")
  /\ Fault
  /\ \/ runs[r] = "none" /\ SaveTx(r)
     \/ UNCHANGED <<runs, key>>
  /\ req' = [req EXCEPT ![r].pc = "done"]
  /\ UNCHANGED <<body, told, count, minute>>

\* releaseIdempotency deletes the row, if the role may; a refusal is caught
\* and, the request being aborted, dropped.
Release(r) ==
  /\ ReqAt(r, "releasing")
  /\ key' = IF "delete" \in Granted THEN NoKey ELSE key
  /\ req' = [req EXCEPT ![r].pc = "done"]
  /\ UNCHANGED <<body, runs, told, count, minute, agentFaults>>

-----------------------------------------------------------------------------

\* The process stops.
Stops(r) ==
  /\ req[r].pc \notin {"new", "done"}
  /\ Fault
  /\ req' = [req EXCEPT ![r].pc = "done"]
  /\ Tell(r, "error")
  /\ UNCHANGED <<body, key, runs, count, minute>>

\* A message of the same subject and conversation under another key; the
\* guard is a bound.
OtherMessage ==
  /\ count <= RateLimit
  /\ count' = count + 1
  /\ UNCHANGED <<body, key, runs, req, told, minute, agentFaults>>

NextMinute ==
  /\ minute < MaxMinutes
  /\ minute' = minute + 1
  /\ count' = 0
  /\ UNCHANGED <<body, key, runs, req, told, agentFaults>>

Goes(r) ==
  \/ StreamEnds(r) \/ Save(r) \/ SaveAgain(r) \/ Release(r)

AgentStep(r) ==
  \/ NotFound(r) \/ Reserve(r) \/ Limited(r) \/ Conflict(r) \/ Replay(r) \/ PrepareFails(r)
  \/ HangUp(r) \/ StreamThrows(r) \/ SaveFails(r) \/ SaveAgainFails(r)
  \/ Goes(r) \/ Stops(r)

AgentNext == OtherMessage \/ NextMinute \/ \E r \in Requests : AgentStep(r)

AgentSpec == AgentInit /\ [][AgentNext]_agentVars

-----------------------------------------------------------------------------
(* Properties *)

(* However requests with the same key overlap, fail and repeat, the provider *)
(* answers one of them and one run is recorded.                             *)
OneRunPerKey ==
  \A r, s \in Requests :
    r # s => runs[r] = "none" \/ runs[s] = "none"

(* What a key replays is the run that was saved under it: neither is ever    *)
(* recorded without the other.                                               *)
KeyMatchesRun ==
  /\ Reserved => runs[key.run] = key.end
  /\ \A r \in Requests : runs[r] # "none" => key.run = r

(* Clients that were told how the message ended were all told the same, by   *)
(* the stream or by a replay, whatever failed while the run was saved.       *)
ToldTheSame ==
  \A r, s \in Requests :
    told[r] \in {"completed", "failed"} /\ told[s] \in {"completed", "failed"}
      => told[r] = told[s]

(* A reservation is given up when its request was aborted and went through   *)
(* releaseIdempotency without a fault, so that the key can be used again.    *)
(* test/agent/agent-message.service.spec.ts:179.                             *)
AbortReleasesKey ==
  agentFaults = 0
    => \A r \in Requests :
         ReqAt(r, "done") /\ req[r].aborted /\ req[r].end = "none" => key.run # r
=============================================================================
