------------------------ MODULE AgentMessagesProofs ------------------------
(***************************************************************************)
(* What holds of AgentMessages for any number of requests, bodies, faults   *)
(* and minutes.                                                            *)
(***************************************************************************)
EXTENDS AgentMessages, TLAPS

Active(r) == req[r].pc \in {"streaming", "saving", "savingAgain", "releasing"}

\* Only the request that reserved the key has a run to end.
Owned ==
  /\ \A r \in Requests : Active(r) => Reserved /\ key.run = r
  /\ Reserved => key.run \in Requests /\ req[key.run].pc # "new"

\* What is stored is how the owner's run ended, and it is stored once.
Stored ==
  /\ KeyMatchesRun
  /\ \A r \in Requests :
       /\ runs[r] # "none" => runs[r] = req[r].end
       /\ req[r].pc \in {"new", "streaming", "saving"} => runs[r] = "none"
       /\ req[r].pc \in {"new", "streaming", "releasing"} => req[r].end = "none"

\* A request learned the end of its own run from the stream, or the stored
\* one from a replay.
Learned ==
  \A r \in Requests :
    /\ told[r] \in {"completed", "failed"} =>
         /\ Reserved
         /\ key.run = r => req[r].end = told[r]
         /\ key.run # r => key.end = told[r]
    /\ req[r].pc = "new" => told[r] = "none" /\ ~req[r].aborted
    /\ req[r].pc = "streaming" =>
         told[r] = (IF req[r].aborted THEN "cut" ELSE "none")
    /\ req[r].pc \in {"saving", "savingAgain"} =>
         told[r] = req[r].end /\ req[r].end \in {"completed", "failed"}

AgentInv == AgentTypeOK /\ Owned /\ Stored /\ Learned

(* A record of the key's row is a reservation: the absent row is told apart  *)
(* because no request is named "none" (AgentMessages, NoKey).                *)
LEMMA ReservedIsReal ==
  ASSUME NEW r \in Requests, NEW b, NEW e
  PROVE  [run |-> r, body |-> b, end |-> e] # NoKey
BY AgentAssumption DEF NoKey

(* The initial state satisfies the invariant: no row, no run, no request.    *)
LEMMA AgentInitial == AgentInit => AgentInv
BY AgentAssumption
DEF AgentInit, AgentInv, AgentTypeOK, Owned, Stored, Learned, KeyMatchesRun,
    Active, Reserved, NoKey, Ends, ReqPCs, Told

(* Every step of one request preserves the invariant: only the owner's steps *)
(* touch the row and the run (AgentMessageService.prepare and execute).      *)
LEMMA AgentStepKeeps ==
  ASSUME AgentInv, NEW r \in Requests, AgentStep(r)
  PROVE  AgentInv'
<1> USE AgentAssumption, ReservedIsReal
        DEF AgentInv, AgentTypeOK, Owned, Stored, Learned, KeyMatchesRun,
            Active, Reserved, ReqAt, Tell, Ends, ReqPCs, Told
<1>1. CASE Reserve(r)
  <2>1. key' # NoKey
    BY <1>1 DEF Reserve
  <2>2. AgentTypeOK'
    BY <1>1, <2>1 DEF Reserve
  <2>6. \A s \in Requests : ~Active(s) /\ runs[s] = "none"
    BY <1>1 DEF Reserve, NoKey
  <2>3. Owned'
    BY <1>1, <2>1, <2>6 DEF Reserve
  <2>4. Stored'
    BY <1>1, <2>1, <2>6 DEF Reserve
  <2>5. Learned'
    BY <1>1, <2>1, <2>6 DEF Reserve
  <2> QED
    BY <2>2, <2>3, <2>4, <2>5
<1>2. CASE Limited(r)
  BY <1>2 DEF Limited
<1>3. CASE Conflict(r)
  BY <1>3 DEF Conflict
<1>4. CASE Replay(r)
  BY <1>4 DEF Replay
<1>5. CASE PrepareFails(r)
  BY <1>5 DEF PrepareFails, Fault, NoKey
<1>6. CASE HangUp(r)
  <2>1. /\ req[r] \in [pc : ReqPCs, end : Ends, aborted : BOOLEAN]
        /\ req'[r] = [req[r] EXCEPT !.aborted = TRUE]
    BY <1>6 DEF HangUp
  <2>2. AgentTypeOK'
    BY <1>6, <2>1 DEF HangUp
  <2>3. Owned'
    BY <1>6, <2>1 DEF HangUp
  <2>4. Stored'
    BY <1>6, <2>1 DEF HangUp
  <2>5. Learned'
    BY <1>6, <2>1 DEF HangUp
  <2> QED
    BY <2>2, <2>3, <2>4, <2>5
<1>7. CASE StreamThrows(r)
  <2>1. req[r] \in [pc : ReqPCs, end : Ends, aborted : BOOLEAN]
    OBVIOUS
  <2>2. AgentTypeOK'
    BY <1>7, <2>1 DEF StreamThrows, Fault, Caught, AfterFailure
  <2>3. Owned'
    BY <1>7, <2>1 DEF StreamThrows, Fault, Caught, AfterFailure
  <2>4. Stored'
    BY <1>7, <2>1 DEF StreamThrows, Fault, Caught, AfterFailure
  <2>5. Learned'
    BY <1>7, <2>1 DEF StreamThrows, Fault, Caught, AfterFailure
  <2> QED
    BY <2>2, <2>3, <2>4, <2>5
<1>8. CASE SaveFails(r)
  <2>1. /\ Reserved /\ key.run = r /\ runs[r] = "none" /\ key.end = "none"
        /\ told[r] = req[r].end /\ req[r].end \in {"completed", "failed"}
        /\ req[r] \in [pc : ReqPCs, end : Ends, aborted : BOOLEAN]
    BY <1>8 DEF SaveFails
  <2>2. UNCHANGED told
    BY <1>8, <2>1 DEF SaveFails, Caught, AfterFailure
  <2>3. PICK q \in [pc : ReqPCs, end : Ends, aborted : BOOLEAN] :
          /\ req' = [req EXCEPT ![r] = q]
          /\ q.pc \in {"done", "savingAgain"} /\ q.end = req[r].end
    <3>1. /\ req'[r] \in [pc : ReqPCs, end : Ends, aborted : BOOLEAN]
          /\ req'[r].pc \in {"done", "savingAgain"}
          /\ req'[r].end = req[r].end
      BY <1>8, <2>1 DEF SaveFails, Caught, AfterFailure
    <3>2. req' = [req EXCEPT ![r] = req'[r]]
      BY <1>8, <2>1 DEF SaveFails, Caught, AfterFailure
    <3> QED
      BY <3>1, <3>2
  <2>4. UNCHANGED <<body, count, minute>> /\ agentFaults' \in 0..MaxFaults
    BY <1>8 DEF SaveFails, Fault
  <2>5. CASE SaveTx(r)
    BY <2>1, <2>2, <2>3, <2>4, <2>5 DEF SaveTx
  <2>6. CASE UNCHANGED <<runs, key>>
    BY <2>1, <2>2, <2>3, <2>4, <2>6
  <2> QED
    BY <1>8, <2>5, <2>6 DEF SaveFails
<1>9. CASE SaveAgainFails(r)
  <2>1. /\ Reserved /\ key.run = r
        /\ told[r] = req[r].end /\ req[r].end \in {"completed", "failed"}
    BY <1>9 DEF SaveAgainFails
  <2>2. CASE runs[r] = "none" /\ SaveTx(r)
    BY <1>9, <2>1, <2>2 DEF SaveAgainFails, Fault, SaveTx
  <2>3. CASE UNCHANGED <<runs, key>>
    BY <1>9, <2>1, <2>3 DEF SaveAgainFails, Fault
  <2> QED
    BY <1>9, <2>2, <2>3 DEF SaveAgainFails
<1>10. CASE StreamEnds(r)
  BY <1>10 DEF StreamEnds
<1>11. CASE Save(r)
  BY <1>11 DEF Save, SaveTx
<1>12. CASE SaveAgain(r)
  BY <1>12 DEF SaveAgain, SaveTx
<1>13. CASE Release(r)
  BY <1>13 DEF Release, Granted
<1>14. CASE Stops(r)
  BY <1>14 DEF Stops, Fault
<1>15. CASE NotFound(r)
  BY <1>15 DEF NotFound
<1> QED
  BY <1>1, <1>2, <1>3, <1>4, <1>5, <1>6, <1>7, <1>8, <1>9, <1>10, <1>11,
     <1>12, <1>13, <1>14, <1>15
  DEF AgentStep, Goes

(* The invariant holds for ever.                                             *)
THEOREM AgentInvariance == AgentSpec => []AgentInv
<1>1. AgentInit => AgentInv
  BY AgentInitial
<1>2. AgentInv /\ [AgentNext]_agentVars => AgentInv'
  <2> SUFFICES ASSUME AgentInv, [AgentNext]_agentVars
               PROVE  AgentInv'
    OBVIOUS
  <2>1. CASE UNCHANGED agentVars
    BY <2>1
    DEF agentVars, AgentInv, AgentTypeOK, Owned, Stored, Learned,
        KeyMatchesRun, Active, Reserved
  <2>2. CASE OtherMessage \/ NextMinute
    BY <2>2, AgentAssumption
    DEF OtherMessage, NextMinute, AgentInv, AgentTypeOK, Owned, Stored, Learned,
        KeyMatchesRun, Active, Reserved
  <2>3. CASE \E r \in Requests : AgentStep(r)
    BY <2>3, AgentStepKeeps
  <2> QED
    BY <2>1, <2>2, <2>3 DEF AgentNext
<1> QED
  BY <1>1, <1>2, PTL DEF AgentSpec

(* Every variable keeps its type.                                            *)
THEOREM AgentTypeCorrect == AgentSpec => []AgentTypeOK
BY AgentInvariance, PTL DEF AgentInv

(* One run is recorded for a key, however its requests overlap: a run is     *)
(* recorded only by the request that the row names.                          *)
THEOREM OneRun == AgentSpec => []OneRunPerKey
<1>1. AgentInv => OneRunPerKey
  BY DEF AgentInv, Stored, KeyMatchesRun, OneRunPerKey
<1> QED
  BY <1>1, AgentInvariance, PTL

(* What a key replays is the run that was saved under it.                    *)
THEOREM ReplayIsTheRun == AgentSpec => []KeyMatchesRun
<1>1. AgentInv => KeyMatchesRun
  BY DEF AgentInv, Stored
<1> QED
  BY <1>1, AgentInvariance, PTL

(* Clients that were told how the message ended were told the same.          *)
THEOREM OneEnding == AgentSpec => []ToldTheSame
<1>1. AgentInv => ToldTheSame
  <2> SUFFICES ASSUME AgentInv, NEW r \in Requests, NEW s \in Requests,
                      told[r] \in {"completed", "failed"},
                      told[s] \in {"completed", "failed"}
               PROVE  told[r] = told[s]
    BY DEF ToldTheSame
  <2>1. Reserved /\ key.run \in Requests /\ key.end = runs[key.run]
    BY DEF AgentInv, Owned, Stored, KeyMatchesRun, Learned
  <2>2. runs[key.run] # "none" => key.end = req[key.run].end
    BY <2>1 DEF AgentInv, Stored
  <2> QED
    BY <2>1, <2>2 DEF AgentInv, Learned
<1> QED
  BY <1>1, AgentInvariance, PTL
=============================================================================
