------------------------------ MODULE Commands ------------------------------
(***************************************************************************)
(* The commands and queries of the API, run two at a time: a command and   *)
(* its retry, a command and another under its key, or the commands of two  *)
(* people about the same rows.                                             *)
(*                                                                         *)
(* Statements interleave.  What a transaction writes is seen by others     *)
(* when it commits (READ COMMITTED); an update waits for the row, a unique *)
(* index for the other insert, an advisory lock for its holder, and the    *)
(* transactions of one subject follow one another.  A refusal a service    *)
(* returns commits what the transaction has written; an error rolls back.  *)
(* Row security looks at the caller's role again for each statement, and   *)
(* who takes the role away waits for nobody: an INSERT then raises, and an *)
(* UPDATE matches no row.                                                  *)
(***************************************************************************)
EXTENDS CommandCatalogue

CONSTANT Scenarios   \* the pairs to run

Requests == {1, 2}
Kinds    == {"alone", "retry", "reuse", "rivals"}

\* The two requests are commands of the catalogue; a retry is the same command.
ASSUME ScenarioAssumption ==
  \A sc \in Scenarios :
    /\ sc.kind \in Kinds
    /\ \A q \in Requests : sc.ops[q] \in DOMAIN Operations
    /\ sc.kind = "retry" => sc.ops[1] = sc.ops[2]

VARIABLES
  scene,    \* the scenario: which two requests
  rows,     \* the committed row of each table, and how many have been added
  keys,     \* the status recorded under the key of a request
  run,      \* each request
  effects,  \* the requests whose transaction has committed a write
  halves    \* but for those it has left by half, since their caller's role was lost

commandVars == <<scene, rows, keys, run, effects, halves>>

Op(q) == Operations[scene.ops[q]]
Steps(q) == Op(q).steps
Has(q, do) == \E i \in 1..Len(Steps(q)) : Steps(q)[i].do = do

\* The request may name the version of what it changes.
Conditional(q) ==
  \E i \in 1..Len(Steps(q)) :
    \/ Steps(q)[i].do = "match"
    \/ Steps(q)[i].do = "put_if" /\ Steps(q)[i].version = "header"

KeyOf(q) == IF scene.kind \in {"retry", "reuse"} THEN 1 ELSE q
Other(q) == 3 - q

OfTables(steps) ==
  {steps[i].table : i \in {j \in 1..Len(steps) : "table" \in DOMAIN steps[j]}}

Involved(s) == UNION {OfTables(Operations[s.ops[q]].steps) : q \in Requests}

Failure == 500
Unknown == 503

Nothing == [t \in {} |-> 0]

NewRun(matches) ==
  [pc |-> "new", at |-> 1, matches |-> matches, seen |-> Nothing, dirty |-> Nothing,
   added |-> {}, locks |-> {}, recorded |-> NoAnswer, answer |-> NoAnswer,
   replayed |-> FALSE]

CommandTypeOK ==
  /\ scene \in Scenarios
  /\ DOMAIN rows = Involved(scene)
  /\ \A t \in DOMAIN rows :
       rows[t].state \in RowStates[t] /\ {rows[t].version, rows[t].added} \subseteq 0..2
  /\ keys \in [Requests -> {NoAnswer} \cup (200..599)]
  /\ effects \cup halves \subseteq Requests
  /\ \A q \in Requests :
       /\ run[q].pc \in {"new", "open", "over"}
       /\ run[q].at \in 1..(Len(Steps(q)) + 1)
       /\ \A t \in DOMAIN run[q].seen : run[q].seen[t].state \in RowStates[t]
       /\ \A t \in DOMAIN run[q].dirty : run[q].dirty[t].state \in RowStates[t]
       /\ run[q].added \cup run[q].locks \subseteq DOMAIN rows
       /\ {run[q].recorded, run[q].answer} \subseteq {NoAnswer} \cup (200..599)
       /\ {run[q].matches, run[q].replayed} \subseteq BOOLEAN

\* A default model is one of an active credential.
DefaultActive(start) ==
  {"defaultModel", "credential"} \subseteq DOMAIN start
    /\ start["defaultModel"] = "present" => start["credential"] = "active"

CommandInit ==
  /\ scene \in Scenarios
  /\ \E start \in [Involved(scene) -> UNION {RowStates[t] : t \in Tables}] :
       /\ \A t \in Involved(scene) : start[t] \in RowStates[t]
       /\ DefaultActive(start)
       /\ rows = [t \in Involved(scene) |->
                    [state |-> start[t], version |-> 0, added |-> 0]]
  /\ keys = [q \in Requests |-> NoAnswer]
  /\ \E m \in [Requests -> BOOLEAN] :
       /\ \A q \in Requests : m[q] => Conditional(q)
       /\ run = [q \in Requests |-> NewRun(m[q])]
  /\ effects = {}
  /\ halves = {}

-----------------------------------------------------------------------------
(* Requests *)

\* The controller finds the request malformed.
Reject(q) ==
  /\ run[q].pc = "new"
  /\ scene.kind = "alone"
  /\ \E s \in Op(q).rejects :
       run' = [run EXCEPT ![q].pc = "over", ![q].answer = s]
  /\ UNCHANGED <<scene, rows, keys, effects>>

\* begin, and the lock of the subject.
Begin(q) ==
  /\ run[q].pc = "new"
  /\ scene.kind = "alone" => q = 1
  /\ KeyOf(q) = KeyOf(Other(q)) => run[Other(q)].pc # "open"
  /\ run' = [run EXCEPT ![q].pc = "open"]
  /\ UNCHANGED <<scene, rows, keys, effects>>

At(q) == Steps(q)[run[q].at]

Doing(q, do) ==
  /\ run[q].pc = "open"
  /\ run[q].at <= Len(Steps(q))
  /\ At(q).do = do

\* The row as this transaction sees it.
Row(q, t) == IF t \in DOMAIN run[q].dirty THEN run[q].dirty[t]
             ELSE [state |-> rows[t].state, version |-> rows[t].version]

Continue(q, changed) ==
  /\ run' = [run EXCEPT ![q] = [changed EXCEPT !.at = @ + 1]]
  /\ UNCHANGED <<scene, rows, keys, effects>>

Tidies(q, t) ==
  \E i \in 1..Len(Steps(q)) :
    "tidies" \in DOMAIN Steps(q)[i] /\ Steps(q)[i].table = t

Wrote(q) == run[q].added # {} \/ \E t \in DOMAIN run[q].dirty : ~Tidies(q, t)

ApplyRows(q) ==
  rows' = [t \in DOMAIN rows |->
    [state   |-> Row(q, t).state,
     version |-> Row(q, t).version,
     added   |-> rows[t].added + IF t \in run[q].added THEN 1 ELSE 0]]

Apply(q) ==
  /\ ApplyRows(q)
  /\ effects' = IF Wrote(q) THEN effects \cup {q} ELSE effects

Over(q, status) ==
  run' = [run EXCEPT ![q].pc = "over", ![q].answer = status, ![q].locks = {}]

Status(q, kind) ==
  IF kind \in DOMAIN Op(q).answers THEN Op(q).answers[kind] ELSE NoAnswer

Past(q, do) == \E i \in 1..(run[q].at - 1) : Steps(q)[i].do = do
Keeps(q) == \E i \in 1..(run[q].at - 1) :
              Steps(q)[i].do = "replay" /\ Steps(q)[i].keeps

KeepRefusal(q, kind) ==
  keys' = IF Keeps(q) THEN [keys EXCEPT ![KeyOf(q)] = Status(q, kind)] ELSE keys

\* The service returns a refusal: the transaction commits.
Return(q, kind) ==
  /\ Over(q, Status(q, kind))
  /\ Apply(q)
  /\ KeepRefusal(q, kind)
  /\ UNCHANGED scene

\* An error: the transaction is rolled back.
Throw(q, status) ==
  /\ Over(q, status)
  /\ UNCHANGED <<scene, rows, keys, effects>>

Refuse(q, kind) ==
  IF "throws" \in DOMAIN At(q) THEN Throw(q, Status(q, kind)) ELSE Return(q, kind)

-----------------------------------------------------------------------------
(* Steps *)

AskStep(q) ==
  /\ Doing(q, "ask")
  /\ Continue(q, run[q]) \/ Refuse(q, At(q).kind)

ReplayStep(q) ==
  /\ Doing(q, "replay")
  /\ IF keys[KeyOf(q)] = NoAnswer
       THEN Continue(q, run[q])
       ELSE IF scene.kind = "reuse"
         THEN Throw(q, Status(q, "keyConflict"))
         ELSE /\ run' = [run EXCEPT ![q].pc = "over", ![q].replayed = TRUE,
                                    ![q].answer = keys[KeyOf(q)], ![q].locks = {}]
              /\ UNCHANGED <<scene, rows, keys, effects>>

\* What is known of the rows, with this of one more.
With(views, t, view) ==
  [u \in DOMAIN views \cup {t} |-> IF u = t THEN view ELSE views[u]]

See(q, t) == [run[q] EXCEPT !.seen = With(@, t, Row(q, t))]

FindStep(q) ==
  /\ Doing(q, "find")
  /\ LET t == At(q).table IN
     IF Row(q, t).state = "absent" /\ "kind" \in DOMAIN At(q)
       THEN Refuse(q, At(q).kind) ELSE Continue(q, See(q, t))

LockStep(q) ==
  /\ Doing(q, "lock")
  /\ At(q).table \notin run[Other(q)].locks
  /\ Continue(q, [run[q] EXCEPT !.locks = @ \cup {At(q).table}])

IsStep(q) ==
  /\ Doing(q, "is")
  /\ IF run[q].seen[At(q).table].state \in At(q).in
       THEN Continue(q, run[q]) ELSE Refuse(q, At(q).kind)

ExpectedVersion == 0   \* the version both clients have read

MatchStep(q) ==
  /\ Doing(q, "match")
  /\ IF run[q].matches => run[q].seen[At(q).table].version = ExpectedVersion
       THEN Continue(q, run[q]) ELSE Refuse(q, At(q).kind)

InsertStep(q) ==
  /\ Doing(q, "insert")
  /\ Continue(q, [run[q] EXCEPT !.added = @ \cup {At(q).table}])

UniqueStep(q) ==
  /\ Doing(q, "unique")
  /\ LET t == At(q).table IN
     /\ run[Other(q)].pc = "open" => t \notin run[Other(q)].added
     /\ \/ /\ rows[t].added = 0
           /\ Continue(q, [run[q] EXCEPT !.added = @ \cup {t}])
        \/ Refuse(q, At(q).kind)

Waits(q, t) == run[Other(q)].pc = "open" /\ t \in DOMAIN run[Other(q)].dirty

Writing(q, t, to) ==
  [run[q] EXCEPT !.dirty =
     With(@, t, [state   |-> IF to = Same THEN Row(q, t).state ELSE to,
                 version |-> Row(q, t).version + 1])]

PutStep(q) ==
  /\ Doing(q, "put")
  /\ LET t == At(q).table IN
     /\ ~Waits(q, t)
     /\ Continue(q, IF Row(q, t).state \in At(q).in
                      THEN Writing(q, t, At(q).to) ELSE run[q])

\* The version the row must still have.
NamedVersion(q, t) ==
  IF At(q).version = "any" THEN Row(q, t).version
  ELSE IF At(q).version = "sent" \/ run[q].matches THEN ExpectedVersion
  ELSE IF At(q).version = "read" THEN run[q].seen[t].version
  ELSE Row(q, t).version

PutIfStep(q) ==
  /\ Doing(q, "put_if")
  /\ LET t   == At(q).table
         row == Row(q, t)
     IN
     /\ ~Waits(q, t)
     /\ IF row.state \in At(q).in /\ row.version = NamedVersion(q, t)
          THEN Continue(q, Writing(q, t, At(q).to))
          ELSE Refuse(q, IF row.state \in DOMAIN At(q).zero
                           THEN At(q).zero[row.state] ELSE At(q).zero.stale)

\* The caller's role was lost since it was looked at, row security hides the row
\* and the service takes it for one another request has changed or removed.  What
\* the transaction has written before is committed with the refusal.
LoseRole(q) ==
  /\ Doing(q, "put_if")
  /\ At(q).table \notin OwnTables /\ "throws" \notin DOMAIN At(q)
  /\ ~Waits(q, At(q).table)
  /\ \E x \in DOMAIN At(q).zero :
       /\ Over(q, Status(q, At(q).zero[x]))
       /\ KeepRefusal(q, At(q).zero[x])
  /\ ApplyRows(q)
  /\ halves' = IF Wrote(q) THEN halves \cup {q} ELSE halves
  /\ UNCHANGED <<scene, effects>>

RecordStep(q) ==
  /\ Doing(q, "record")
  /\ Continue(q, [run[q] EXCEPT !.recorded = At(q).status])

Ready(q) == run[q].pc = "open" /\ run[q].at > Len(Steps(q))

\* COMMIT; the client may not hear of it.
CommitCommand(q) ==
  /\ Ready(q)
  /\ \E status \in {Op(q).ok, Unknown} : Over(q, status)
  /\ Apply(q)
  /\ keys' = IF run[q].recorded = NoAnswer THEN keys
             ELSE [keys EXCEPT ![KeyOf(q)] = run[q].recorded]
  /\ UNCHANGED scene

\* A statement or COMMIT fails, or a deadline passes.
AbortCommand(q) ==
  /\ run[q].pc = "open"
  /\ Throw(q, Failure)

StepOf(q) ==
  \/ AskStep(q) \/ ReplayStep(q) \/ FindStep(q) \/ LockStep(q) \/ IsStep(q)
  \/ MatchStep(q) \/ InsertStep(q) \/ UniqueStep(q) \/ PutStep(q) \/ PutIfStep(q)
  \/ RecordStep(q)

CommandNext ==
  \E q \in Requests :
    \/ /\ Reject(q) \/ Begin(q) \/ StepOf(q) \/ CommitCommand(q) \/ AbortCommand(q)
       /\ UNCHANGED halves
    \/ LoseRole(q)

CommandSpec == CommandInit /\ [][CommandNext]_commandVars

-----------------------------------------------------------------------------
(* Properties *)

Answered(q) == run[q].answer
Done(q)     == Answered(q) = Op(q).ok

(* A command that is sent twice, by a client that was not answered or does *)
(* not want to wait, takes effect once, if it has a key or names the       *)
(* version it changes; with a key it is not executed again once it has     *)
(* taken effect, and a replay tells what the first was told.               *)
SentTwiceDoneOnce ==
  scene.kind = "retry" => \A q \in Requests :
    /\ effects = Requests
         => /\ Conditional(q) /\ ~Has(q, "replay")
            /\ ~(run[1].matches /\ run[2].matches)
    /\ run[q].pc = "open" /\ Past(q, "replay") => Other(q) \notin effects
    /\ run[q].replayed =>
         /\ Answered(q) = Answered(Other(q)) \/ Answered(Other(q)) = Unknown
         /\ Done(q) => effects = {Other(q)}

(* A command that is refused or fails has changed nothing, although the    *)
(* refusals a service returns commit its transaction; and every refusal    *)
(* of a service has a status, so that the client gets an answer.  Those of *)
(* LeftByHalf alone, whose last update comes after other writes, leave     *)
(* these behind where their caller loses the role in between.              *)
EmptyRefusals ==
  \A q \in Requests : run[q].pc = "over" =>
    /\ Answered(q) # NoAnswer
    /\ q \in effects => Done(q) \/ Answered(q) = Unknown

RefusalsLeaveNothing ==
  /\ EmptyRefusals
  /\ \A q \in halves : run[q].pc = "over" /\ scene.ops[q] \in LeftByHalf

\* Step i checks the row as others have left it; the row is under the lock or
\* the update of this transaction, which names the version it was sent.
Protected(q, i) ==
  LET t == Steps(q)[i].table IN
  /\ t \in run[q].locks \cup DOMAIN run[q].dirty
  /\ \A j \in 1..Len(Steps(q)) :
       Steps(q)[j].do = "match" /\ Steps(q)[j].table = t => run[q].matches
  /\ \A j \in 1..(i - 1) : Steps(q)[j].do \in {"put", "put_if"} => Steps(q)[j].table # t

(* What a command has checked of a row under its lock, or of the version   *)
(* its client has read, is still so when it commits: no other has changed  *)
(* it in between, and no change of another is overwritten.                 *)
ChecksStillHold ==
  \A q \in Requests : Ready(q) => \A i \in 1..Len(Steps(q)) :
    LET step == Steps(q)[i] IN
    /\ step.do = "is" /\ Protected(q, i) => rows[step.table].state \in step.in
    /\ step.do = "match" /\ Protected(q, i)
         => rows[step.table].version = ExpectedVersion

(* The default model is one of an active credential: to set it and to      *)
(* deactivate or revoke the credential, which lie in two tables, exclude   *)
(* each other by the lock their triggers take.                             *)
DefaultIsActive == DefaultActive([t \in DOMAIN rows |-> rows[t].state])
=============================================================================
