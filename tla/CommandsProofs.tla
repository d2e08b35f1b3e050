--------------------------- MODULE CommandsProofs ---------------------------
(***************************************************************************)
(* Theorems about two requests of the API that meet, for every pair of     *)
(* commands of the catalogue: a command that is refused leaves nothing,    *)
(* the default model stays that of an active credential, what was checked  *)
(* still holds at COMMIT, and what is sent twice is done once.             *)
(*                                                                         *)
(* Own(q) says of an open transaction how what it has seen, written and    *)
(* locked follows from the steps it has passed and from the rows as the    *)
(* other leaves them; the rest relates the two transactions and the        *)
(* record of their key.                                                    *)
(***************************************************************************)
EXTENDS Commands, OperationShapes, TLAPS

Open(q)   == run[q].pc = "open"
Passed(q) == 1..(run[q].at - 1)
Latest(q) == run[q].at - 1

-----------------------------------------------------------------------------
(* The inductive invariant *)

RunFields == {"pc", "at", "matches", "seen", "dirty", "added", "locks", "recorded",
              "answer", "replayed"}

\* A set of row views, one for each of some tables.
Views(views) ==
  \A t \in DOMAIN views :
    t \in DOMAIN rows /\ views[t].state \in RowStates[t] /\ views[t].version \in Nat

Typed ==
  /\ scene \in Scenarios
  /\ DOMAIN rows = Involved(scene)
  /\ \A t \in DOMAIN rows : rows[t].state \in RowStates[t] /\ rows[t].version \in Nat
  /\ DOMAIN keys = Requests /\ effects \subseteq Requests /\ DOMAIN run = Requests
  /\ \A q \in Requests :
       /\ DOMAIN run[q] = RunFields
       /\ run[q].pc \in {"new", "open", "over"}
       /\ run[q].at \in Nat \ {0} /\ run[q].at =< Len(Steps(q)) + 1
       /\ {run[q].matches, run[q].replayed} \subseteq BOOLEAN
       /\ run[q].matches => Conditional(q)
       /\ Views(run[q].seen) /\ Views(run[q].dirty)

Fresh ==
  \A q \in Requests : run[q].pc = "new" =>
    /\ run[q].at = 1 /\ run[q].seen = Nothing /\ run[q].dirty = Nothing
    /\ run[q].added = {} /\ run[q].recorded = NoAnswer

\* Two requests with one key do not run at a time.
Serial == KeyOf(1) = KeyOf(2) => ~(Open(1) /\ Open(2))

\* No lock and no changed row belongs to both.
Apart ==
  /\ \A q \in Requests : ~Open(q) => run[q].locks = {}
  /\ run[1].locks \cap run[2].locks = {}
  /\ Open(1) /\ Open(2) => DOMAIN run[1].dirty \cap DOMAIN run[2].dirty = {}

LocksTaken(q) ==
  /\ \A i \in Passed(q) : Steps(q)[i].do = "lock" => Steps(q)[i].table \in run[q].locks
  /\ \A t \in run[q].locks : \E i \in Passed(q) : LocksAt(Steps(q), i, t)

RowsAdded(q) == run[q].added # {} <=> \E i \in Passed(q) : AddsAt(Steps(q), i)

StatusRecorded(q) ==
  IF \E i \in Passed(q) : Steps(q)[i].do = "record"
    THEN \E i \in Passed(q) :
           Steps(q)[i].do = "record" /\ run[q].recorded = Steps(q)[i].status
    ELSE run[q].recorded = NoAnswer

RowsSeen(q) ==
  \A i \in Passed(q) : Steps(q)[i].do = "find" => Steps(q)[i].table \in DOMAIN run[q].seen

\* A check holds of what was seen last.
ChecksPassed(q) ==
  \A i \in Passed(q), t \in DOMAIN rows : NoFinds(Steps(q), t, i, Latest(q)) =>
    /\ IsAt(Steps(q), i, t) => run[q].seen[t].state \in Steps(q)[i].in
    /\ MatchAt(Steps(q), i, t) /\ run[q].matches
         => run[q].seen[t].version = ExpectedVersion

\* A changed row was changed by a step passed, out of the states the first of
\* them is for, into that of the last; and its version has grown.
WrittenBy(q) ==
  \A t \in DOMAIN run[q].dirty :
    /\ run[q].dirty[t].version > rows[t].version
    /\ \E i \in Passed(q) :
         PutsAt(Steps(q), i, t) /\ Steps(q)[i].to \in {run[q].dirty[t].state, Same}
    /\ \E i \in Passed(q) : PutsAt(Steps(q), i, t) /\ rows[t].state \in Steps(q)[i].in
    /\ Preserved(Steps(q), t) => run[q].dirty[t].state = rows[t].state

PutsDone(q) ==
  \A i \in Passed(q) :
    /\ Steps(q)[i].do = "put_if" => Steps(q)[i].table \in DOMAIN run[q].dirty
    /\ Steps(q)[i].do = "put" /\ Steps(q)[i].in = RowStates[Steps(q)[i].table]
         => Steps(q)[i].table \in DOMAIN run[q].dirty

\* A row of the version that was seen is as it was seen.
VersionSeen(q) ==
  \A t \in DOMAIN run[q].seen : FindsFirst(Steps(q), t) =>
    /\ run[q].seen[t].version =< rows[t].version
    /\ (run[q].seen[t].version = rows[t].version) =>
         run[q].seen[t].state = rows[t].state

\* A row is in the state it was seen in; a default model may have gone, which
\* one who loses the role leaves removed without having taken the lock.
Stands(t, seen, state) == state = seen \/ (t = "defaultModel" /\ state = "absent")

\* What was seen under its lock is so while the transaction has not changed it.
ViewStands(q) ==
  \A f \in Passed(q), t \in DOMAIN rows :
    Guarded(Steps(q), f, t) /\ NoPuts(Steps(q), t, f, Latest(q))
      => Stands(t, run[q].seen[t].state, Row(q, t).state)

\* And, but for what the transaction itself changes, until it ends.
RowStands(q) ==
  \A f \in Passed(q), t \in DOMAIN rows :
    NoPuts(Steps(q), t, 1, f) /\ NoFinds(Steps(q), t, f + 1, Latest(q)) =>
      /\ Guarded(Steps(q), f, t) => Stands(t, run[q].seen[t].state, rows[t].state)
      /\ scene.kind = "retry" /\ FindsAt(Steps(q), f, t)
           => run[q].seen[t].state = rows[t].state

\* The step changes the version the client has read.
WritesExpected(q, w) ==
  /\ Steps(q)[w].do = "put_if"
  /\ \/ Steps(q)[w].version = "sent"
     \/ Steps(q)[w].version # "any" /\ run[q].matches

VersionWritten(q) ==
  \A w \in Passed(q) :
    WritesExpected(q, w) => rows[Steps(q)[w].table].version = ExpectedVersion

TakenOut(q) ==
  scene.kind = "retry" =>
    \A t \in DOMAIN rows : \A f, k \in 1..Len(Steps(q)) : \A w \in Passed(q) :
      TakesOutAt(Steps(q), t, f, k, w) =>
        t \in DOMAIN run[q].dirty /\ run[q].dirty[t].state = Steps(q)[w].to

Own(q) ==
  /\ LocksTaken(q) /\ RowsAdded(q) /\ StatusRecorded(q) /\ RowsSeen(q)
  /\ ChecksPassed(q) /\ WrittenBy(q) /\ PutsDone(q) /\ VersionSeen(q)
  /\ ViewStands(q) /\ RowStands(q) /\ VersionWritten(q) /\ TakenOut(q)

EffectsOver == \A q \in Requests : q \in effects \/ run[q].replayed => run[q].pc = "over"

(* Retries *)

\* Who runs on found no record, and none is written meanwhile.
KeyFree == \A q \in Requests : Open(q) /\ Past(q, "replay") => keys[1] = NoAnswer

KeyKept == \A q \in effects : Replays(Steps(q)) => keys[1] # NoAnswer

\* The record is the answer of one that ran.
KeyTold ==
  keys[1] # NoAnswer => \E p \in Requests :
    /\ run[p].pc = "over" /\ ~run[p].replayed
    /\ run[p].answer \in {keys[1], Unknown}
    /\ (keys[1] = Op(p).ok) => p \in effects

ReplayTold ==
  \A q \in Requests : run[q].replayed =>
    /\ q \notin effects
    /\ run[Other(q)].pc = "over" /\ ~run[Other(q)].replayed
    /\ run[q].answer = run[Other(q)].answer \/ run[Other(q)].answer = Unknown
    /\ Done(q) => Other(q) \in effects

VersionTaken ==
  \A q \in effects : \A w \in 1..Len(Steps(q)) :
    NamesVersionAt(Steps(q), w) => rows[Steps(q)[w].table].version > ExpectedVersion

OutTaken ==
  \A q \in effects, t \in DOMAIN rows : \A f, k, w \in 1..Len(Steps(q)) :
    TakesOutAt(Steps(q), t, f, k, w) => rows[t].state = Steps(q)[w].to

OnceOnly ==
  effects = Requests =>
    /\ NamesVersion(Steps(1)) /\ ~Replays(Steps(1))
    /\ ~(run[1].matches /\ run[2].matches)

RetriesOnce ==
  scene.kind = "retry" =>
    /\ KeyFree /\ KeyKept /\ KeyTold /\ ReplayTold
    /\ VersionTaken /\ OutTaken /\ OnceOnly

CommandInv ==
  /\ Typed /\ Fresh /\ Serial /\ Apart /\ EffectsOver
  /\ \A q \in Requests : Open(q) => Own(q)
  /\ EmptyRefusals /\ DefaultIsActive /\ RetriesOnce

-----------------------------------------------------------------------------
(* Shapes *)

\* The lemmas below take of the catalogue what this one says of a request's
\* command.
LEMMA Shapes ==
  ASSUME Typed, NEW q \in Requests
  PROVE  /\ Op(q).steps = Steps(q) /\ Len(Steps(q)) \in Nat
         /\ WellFormed(Op(q)) /\ HasAnswers(Op(q)) /\ TakesGuards(Op(q))
         /\ RefusesFirst(Op(q)) /\ KeepsDefault(Op(q)) /\ ChecksLast(Op(q))
         /\ MayBeRetried(Op(q)) /\ LeavesLittle(Op(q))
         /\ scene.ops[q] \notin LeftByHalf => LeavesNothing(Op(q))
<1>1. scene.ops[q] \in DOMAIN Operations
  BY ScenarioAssumption DEF Typed
<1>2. /\ WellFormed(Op(q)) /\ HasAnswers(Op(q)) /\ TakesGuards(Op(q))
      /\ RefusesFirst(Op(q)) /\ KeepsDefault(Op(q)) /\ ChecksLast(Op(q))
      /\ MayBeRetried(Op(q)) /\ LeavesLittle(Op(q))
      /\ scene.ops[q] \notin LeftByHalf => LeavesNothing(Op(q))
  BY <1>1, CatalogueAssumption DEF Op
<1>3. Op(q).steps = Steps(q)
  BY DEF Steps
<1>. QED
  BY <1>2, <1>3 DEF WellFormed

\* What a step is, and the row it is about.
LEMMA StepShape ==
  ASSUME Typed, NEW q \in Requests, NEW i \in 1..Len(Steps(q))
  PROVE  /\ Steps(q)[i].do \in StepDos
         /\ Steps(q)[i].do = "replay" => Steps(q)[i].kind = "keyConflict"
         /\ Steps(q)[i].do \notin {"ask", "replay", "record"} =>
              Steps(q)[i].table \in DOMAIN rows /\ Steps(q)[i].table \in Tables
         /\ Steps(q)[i].do \in {"put", "put_if"} =>
              Steps(q)[i].to \in RowStates[Steps(q)[i].table] \cup {Same}
         /\ (Steps(q)[i].do \in {"is", "match"}
             \/ (Steps(q)[i].do = "put_if" /\ Steps(q)[i].version = "read")) =>
              \E f \in 1..(i - 1) : FindsAt(Steps(q), f, Steps(q)[i].table)
<1>1. Op(q).steps = Steps(q) /\ WellFormed(Op(q))
  BY Shapes
<1>2. /\ Steps(q)[i].do \in StepDos
      /\ Steps(q)[i].do = "replay" => Steps(q)[i].kind = "keyConflict"
      /\ Steps(q)[i].do \notin {"ask", "replay", "record"} =>
           "table" \in DOMAIN Steps(q)[i] /\ Steps(q)[i].table \in Tables
      /\ Steps(q)[i].do \in {"put", "put_if"} =>
           Steps(q)[i].to \in RowStates[Steps(q)[i].table] \cup {Same}
      /\ (Steps(q)[i].do \in {"is", "match"}
          \/ (Steps(q)[i].do = "put_if" /\ Steps(q)[i].version = "read")) =>
           \E f \in 1..(i - 1) : FindsAt(Steps(q), f, Steps(q)[i].table)
  BY <1>1 DEF WellFormed
<1>3. ASSUME "table" \in DOMAIN Steps(q)[i]
      PROVE  Steps(q)[i].table \in DOMAIN rows
  <2>1. Steps(q)[i].table \in OfTables(Steps(q))
    BY <1>3 DEF OfTables
  <2>2. OfTables(Steps(q)) \subseteq Involved(scene)
    BY DEF Involved, Steps, Op
  <2>. QED
    BY <2>1, <2>2 DEF Typed
<1>. QED
  BY <1>2, <1>3

\* A row as its transaction sees it.
LEMMA RowTyped ==
  ASSUME Typed, NEW q \in Requests, NEW t \in DOMAIN rows
  PROVE  Row(q, t).state \in RowStates[t] /\ Row(q, t).version \in Nat
  BY DEF Typed, Views, Row

-----------------------------------------------------------------------------
(* Steps *)

LEMMA ContinueFields ==
  ASSUME NEW q \in Requests, NEW c, Typed, DOMAIN c = RunFields, Continue(q, c)
  PROVE  /\ DOMAIN run' = Requests /\ DOMAIN run'[q] = RunFields
         /\ run'[Other(q)] = run[Other(q)]
         /\ run'[q].at = c.at + 1 /\ run'[q].pc = c.pc /\ run'[q].matches = c.matches
         /\ run'[q].seen = c.seen /\ run'[q].dirty = c.dirty /\ run'[q].added = c.added
         /\ run'[q].locks = c.locks /\ run'[q].recorded = c.recorded
         /\ run'[q].answer = c.answer /\ run'[q].replayed = c.replayed
         /\ UNCHANGED <<scene, rows, keys, effects>>
  BY DEF Continue, Typed, RunFields, Requests, Other

\* The request changes nothing of its run but pc, answer, replayed and locks.
SameRun(q) ==
  /\ DOMAIN run' = Requests /\ DOMAIN run'[q] = RunFields
  /\ run'[Other(q)] = run[Other(q)]
  /\ run'[q].at = run[q].at /\ run'[q].matches = run[q].matches
  /\ run'[q].seen = run[q].seen /\ run'[q].dirty = run[q].dirty
  /\ run'[q].added = run[q].added /\ run'[q].recorded = run[q].recorded

LEMMA OverFields ==
  ASSUME NEW q \in Requests, NEW status, Typed, Over(q, status)
  PROVE  /\ SameRun(q) /\ run'[q].pc = "over" /\ run'[q].locks = {}
         /\ run'[q].answer = status /\ run'[q].replayed = run[q].replayed
  BY DEF Over, Typed, RunFields, Requests, Other, SameRun

Puts(q) == At(q).do \in {"put", "put_if"}

\* The request goes on to its next step.
Continues(q) ==
  /\ Open(q) /\ run[q].at =< Len(Steps(q))
  /\ DOMAIN run' = Requests /\ DOMAIN run'[q] = RunFields
  /\ run'[Other(q)] = run[Other(q)]
  /\ run'[q].pc = "open" /\ run'[q].at = run[q].at + 1
  /\ run'[q].matches = run[q].matches /\ run'[q].answer = run[q].answer
  /\ run'[q].replayed = run[q].replayed
  /\ UNCHANGED <<scene, rows, keys, effects>>
  /\ run'[q].locks =
       IF At(q).do = "lock" THEN run[q].locks \cup {At(q).table} ELSE run[q].locks
  /\ At(q).do = "lock" => At(q).table \notin run[Other(q)].locks
  /\ run'[q].added =
       IF At(q).do \in {"insert", "unique"} THEN run[q].added \cup {At(q).table}
       ELSE run[q].added
  /\ run'[q].recorded = IF At(q).do = "record" THEN At(q).status ELSE run[q].recorded
  /\ run'[q].seen =
       IF At(q).do = "find" THEN With(run[q].seen, At(q).table, Row(q, At(q).table))
       ELSE run[q].seen
  /\ run'[q].dirty =
       IF Puts(q) /\ Row(q, At(q).table).state \in At(q).in
         THEN With(run[q].dirty, At(q).table,
                   [state   |-> IF At(q).to = Same THEN Row(q, At(q).table).state
                                ELSE At(q).to,
                    version |-> Row(q, At(q).table).version + 1])
         ELSE run[q].dirty
  /\ Puts(q) => ~Waits(q, At(q).table)
  /\ At(q).do = "put_if" =>
       /\ Row(q, At(q).table).state \in At(q).in
       /\ Row(q, At(q).table).version = NamedVersion(q, At(q).table)
  /\ At(q).do = "is" => run[q].seen[At(q).table].state \in At(q).in
  /\ At(q).do = "match" /\ run[q].matches
       => run[q].seen[At(q).table].version = ExpectedVersion
  /\ At(q).do = "replay" => keys[KeyOf(q)] = NoAnswer

\* A step refuses.
Refuses(q, kind) ==
  /\ Open(q) /\ run[q].at =< Len(Steps(q))
  /\ At(q).do # "replay" /\ kind \in RefusalKinds(At(q))
  /\ At(q).do = "put_if" /\ At(q).version = "any" =>
       Row(q, At(q).table).state \notin At(q).in
  /\ Refuse(q, kind)

\* The record of the key answers the request.
AnswersAgain(q) ==
  /\ Open(q) /\ run[q].at =< Len(Steps(q)) /\ At(q).do = "replay"
  /\ keys[KeyOf(q)] # NoAnswer
  /\ SameRun(q) /\ run'[q].pc = "over" /\ run'[q].locks = {}
  /\ UNCHANGED <<scene, rows, keys, effects>>
  /\ \/ /\ run'[q].replayed = run[q].replayed
        /\ run'[q].answer = Status(q, "keyConflict")
        /\ scene.kind # "retry"
     \/ run'[q].replayed = TRUE /\ run'[q].answer = keys[KeyOf(q)]

LEMMA StepCases ==
  ASSUME Typed, NEW q \in Requests, StepOf(q)
  PROVE  \/ Continues(q) \/ AnswersAgain(q) \/ \E kind : Refuses(q, kind)
<1>. DEFINE s == Steps(q)
            t == At(q).table
<1>1. /\ Open(q) /\ run[q].at =< Len(Steps(q)) /\ run[q].at \in 1..Len(Steps(q))
      /\ DOMAIN run[q] = RunFields /\ Len(Steps(q)) \in Nat
      /\ run[q].at \in Nat
  BY Shapes DEF StepOf, AskStep, ReplayStep, FindStep, LockStep, IsStep, MatchStep,
     InsertStep, UniqueStep, PutStep, PutIfStep, RecordStep, Doing, Open, Typed
<1>2. CASE AskStep(q)
  <2>1. CASE Continue(q, run[q])
    BY <1>1, <1>2, <2>1, ContinueFields
    DEF AskStep, Doing, Continues, Puts, Open
  <2>2. CASE Refuse(q, At(q).kind)
    BY <1>1, <1>2, <2>2 DEF AskStep, Doing, Refuses, RefusalKinds, Open
  <2>. QED
    BY <1>2, <2>1, <2>2 DEF AskStep
<1>3. CASE ReplayStep(q)
  <2>1. CASE keys[KeyOf(q)] = NoAnswer
    BY <1>1, <1>3, <2>1, ContinueFields
    DEF ReplayStep, Doing, Continues, Puts, Open
  <2>2. CASE keys[KeyOf(q)] # NoAnswer /\ scene.kind = "reuse"
    <3>1. Throw(q, Status(q, "keyConflict")) /\ At(q).do = "replay"
      BY <1>3, <2>2 DEF ReplayStep, Doing
    <3>. QED
      BY <1>1, <2>2, <3>1, OverFields DEF AnswersAgain, Throw, Open
  <2>3. CASE keys[KeyOf(q)] # NoAnswer /\ scene.kind # "reuse"
    <3>1. /\ run' = [run EXCEPT ![q].pc = "over", ![q].replayed = TRUE,
                                ![q].answer = keys[KeyOf(q)], ![q].locks = {}]
          /\ UNCHANGED <<scene, rows, keys, effects>> /\ At(q).do = "replay"
      BY <1>3, <2>3 DEF ReplayStep, Doing
    <3>2. /\ SameRun(q) /\ run'[q].pc = "over" /\ run'[q].locks = {}
          /\ run'[q].replayed = TRUE /\ run'[q].answer = keys[KeyOf(q)]
      BY <3>1 DEF Typed, RunFields, Requests, Other, SameRun
    <3>. QED
      BY <1>1, <2>3, <3>1, <3>2 DEF AnswersAgain, Open
  <2>. QED
    BY <2>1, <2>2, <2>3
<1>4. CASE FindStep(q)
  <2>1. CASE Continue(q, See(q, t))
    <3>1. /\ DOMAIN See(q, t) = RunFields /\ See(q, t).at = run[q].at
          /\ See(q, t).seen = With(run[q].seen, t, Row(q, t))
          /\ See(q, t).pc = run[q].pc /\ See(q, t).matches = run[q].matches
          /\ See(q, t).dirty = run[q].dirty /\ See(q, t).added = run[q].added
          /\ See(q, t).locks = run[q].locks /\ See(q, t).recorded = run[q].recorded
          /\ See(q, t).answer = run[q].answer /\ See(q, t).replayed = run[q].replayed
      BY <1>1 DEF See, RunFields
    <3>. QED
      BY <1>1, <1>4, <2>1, <3>1, ContinueFields
      DEF FindStep, Doing, Continues, Puts, Open
  <2>2. CASE "kind" \in DOMAIN At(q) /\ Refuse(q, At(q).kind)
    BY <1>1, <1>4, <2>2 DEF FindStep, Doing, Refuses, RefusalKinds, Open
  <2>. QED
    BY <1>4, <2>1, <2>2 DEF FindStep
<1>5. CASE LockStep(q)
  <2>. DEFINE c == [run[q] EXCEPT !.locks = @ \cup {t}]
  <2>1. /\ Continue(q, c) /\ At(q).do = "lock" /\ t \notin run[Other(q)].locks
    BY <1>5 DEF LockStep, Doing
  <2>2. /\ DOMAIN c = RunFields /\ c.at = run[q].at /\ c.locks = run[q].locks \cup {t}
        /\ c.pc = run[q].pc /\ c.matches = run[q].matches /\ c.seen = run[q].seen
        /\ c.dirty = run[q].dirty /\ c.added = run[q].added
        /\ c.recorded = run[q].recorded /\ c.answer = run[q].answer
        /\ c.replayed = run[q].replayed
    BY <1>1 DEF RunFields
  <2>. HIDE DEF c
  <2>. QED
    BY <1>1, <2>1, <2>2, ContinueFields DEF Continues, Puts, Open
<1>6. CASE IsStep(q)
  <2>1. CASE Continue(q, run[q]) /\ run[q].seen[t].state \in At(q).in
    BY <1>1, <1>6, <2>1, ContinueFields
    DEF IsStep, Doing, Continues, Puts, Open
  <2>2. CASE Refuse(q, At(q).kind)
    BY <1>1, <1>6, <2>2 DEF IsStep, Doing, Refuses, RefusalKinds, Open
  <2>. QED
    BY <1>6, <2>1, <2>2 DEF IsStep
<1>7. CASE MatchStep(q)
  <2>1. CASE Continue(q, run[q])
             /\ (run[q].matches => run[q].seen[t].version = ExpectedVersion)
    BY <1>1, <1>7, <2>1, ContinueFields
    DEF MatchStep, Doing, Continues, Puts, Open
  <2>2. CASE Refuse(q, At(q).kind)
    BY <1>1, <1>7, <2>2 DEF MatchStep, Doing, Refuses, RefusalKinds, Open
  <2>. QED
    BY <1>7, <2>1, <2>2 DEF MatchStep
<1>8. ASSUME At(q).do \in {"insert", "unique"},
             Continue(q, [run[q] EXCEPT !.added = @ \cup {t}])
      PROVE  Continues(q)
  <2>. DEFINE c == [run[q] EXCEPT !.added = @ \cup {t}]
  <2>1. Continue(q, c)
    BY <1>8
  <2>2. /\ DOMAIN c = RunFields /\ c.at = run[q].at /\ c.added = run[q].added \cup {t}
        /\ c.pc = run[q].pc /\ c.matches = run[q].matches /\ c.seen = run[q].seen
        /\ c.dirty = run[q].dirty /\ c.locks = run[q].locks
        /\ c.recorded = run[q].recorded /\ c.answer = run[q].answer
        /\ c.replayed = run[q].replayed
    BY <1>1 DEF RunFields
  <2>. HIDE DEF c
  <2>. QED
    BY <1>1, <1>8, <2>1, <2>2, ContinueFields DEF Continues, Puts, Open
<1>9. CASE InsertStep(q)
  BY <1>8, <1>9 DEF InsertStep, Doing
<1>10. CASE UniqueStep(q)
  <2>1. CASE Continue(q, [run[q] EXCEPT !.added = @ \cup {t}])
    BY <1>8, <1>10, <2>1 DEF UniqueStep, Doing
  <2>2. CASE Refuse(q, At(q).kind)
    BY <1>1, <1>10, <2>2 DEF UniqueStep, Doing, Refuses, RefusalKinds, Open
  <2>. QED
    BY <1>10, <2>1, <2>2 DEF UniqueStep
<1>11. ASSUME Puts(q), ~Waits(q, t), Row(q, t).state \in At(q).in,
              Continue(q, Writing(q, t, At(q).to)),
              At(q).do = "put_if" => Row(q, t).version = NamedVersion(q, t)
       PROVE  Continues(q)
  <2>. DEFINE c == Writing(q, t, At(q).to)
              view == [state   |-> IF At(q).to = Same THEN Row(q, t).state ELSE At(q).to,
                       version |-> Row(q, t).version + 1]
  <2>1. /\ DOMAIN c = RunFields /\ c.at = run[q].at
        /\ c.dirty = With(run[q].dirty, t, view)
        /\ c.pc = run[q].pc /\ c.matches = run[q].matches /\ c.seen = run[q].seen
        /\ c.added = run[q].added /\ c.locks = run[q].locks
        /\ c.recorded = run[q].recorded /\ c.answer = run[q].answer
        /\ c.replayed = run[q].replayed
    BY <1>1 DEF RunFields, Writing
  <2>. HIDE DEF c
  <2>2. Continue(q, c)
    BY <1>11 DEF c
  <2>. QED
    BY <1>1, <1>11, <2>1, <2>2, ContinueFields DEF Continues, Puts, Open
<1>12. CASE PutStep(q)
  <2>1. CASE Row(q, t).state \in At(q).in
    BY <1>11, <1>12, <2>1 DEF PutStep, Doing, Puts
  <2>2. CASE Row(q, t).state \notin At(q).in
    <3>1. Continue(q, run[q]) /\ At(q).do = "put" /\ ~Waits(q, t)
      BY <1>12, <2>2 DEF PutStep, Doing
    <3>. QED
      BY <1>1, <2>2, <3>1, ContinueFields DEF Continues, Puts, Open
  <2>. QED
    BY <2>1, <2>2
<1>13. CASE PutIfStep(q)
  <2>1. At(q).do = "put_if" /\ ~Waits(q, t)
    BY <1>13 DEF PutIfStep, Doing
  <2>2. CASE Row(q, t).state \in At(q).in /\ Row(q, t).version = NamedVersion(q, t)
    <3>1. Continue(q, Writing(q, t, At(q).to))
      BY <1>13, <2>2 DEF PutIfStep
    <3>. QED
      BY <1>11, <2>1, <2>2, <3>1 DEF Puts
  <2>3. CASE ~(Row(q, t).state \in At(q).in /\ Row(q, t).version = NamedVersion(q, t))
    <3>. DEFINE x == Row(q, t).state
                kind == IF x \in DOMAIN At(q).zero THEN At(q).zero[x] ELSE At(q).zero.stale
    <3>1. Refuse(q, kind)
      BY <1>13, <2>3 DEF PutIfStep
    <3>2. At(q).version = "any" => x \notin At(q).in
      BY <2>3 DEF NamedVersion
    <3>3. t \in DOMAIN rows
      BY <1>1, <2>1, StepShape DEF At
    <3>4. x \in RowStates[t]
      BY <3>3, RowTyped
    <3>5. kind \in RefusalKinds(At(q))
      <4>1. x \notin At(q).in \/ At(q).version # "any"
        BY <3>2
      <4>2. kind \in {IF y \in DOMAIN At(q).zero THEN At(q).zero[y] ELSE At(q).zero.stale :
                       y \in {z \in RowStates[At(q).table] :
                                z \notin At(q).in \/ At(q).version # "any"}}
        BY <3>4, <4>1
      <4>. HIDE DEF kind
      <4>. QED
        BY <2>1, <4>2 DEF RefusalKinds
    <3>. QED
      BY <1>1, <2>1, <3>1, <3>2, <3>5 DEF Refuses
  <2>. QED
    BY <2>2, <2>3
<1>14. CASE RecordStep(q)
  <2>. DEFINE c == [run[q] EXCEPT !.recorded = At(q).status]
  <2>1. Continue(q, c) /\ At(q).do = "record"
    BY <1>14 DEF RecordStep, Doing
  <2>2. /\ DOMAIN c = RunFields /\ c.at = run[q].at /\ c.recorded = At(q).status
        /\ c.pc = run[q].pc /\ c.matches = run[q].matches /\ c.seen = run[q].seen
        /\ c.dirty = run[q].dirty /\ c.added = run[q].added /\ c.locks = run[q].locks
        /\ c.answer = run[q].answer /\ c.replayed = run[q].replayed
    BY <1>1 DEF RunFields
  <2>. HIDE DEF c
  <2>. QED
    BY <1>1, <2>1, <2>2, ContinueFields DEF Continues, Puts, Open
<1>. QED
  BY <1>2, <1>3, <1>4, <1>5, <1>6, <1>7, <1>9, <1>10, <1>12, <1>13, <1>14 DEF StepOf

-----------------------------------------------------------------------------
(* A step that goes on *)

LEMMA Onward ==
  ASSUME Typed, NEW q \in Requests, Continues(q)
  PROVE  /\ Passed(q)' = Passed(q) \cup {run[q].at} /\ run[q].at \notin Passed(q)
         /\ Latest(q)' = run[q].at /\ run[q].at \in 1..Len(Steps(q))
         /\ run[q].at \in Nat /\ Latest(q) \in Nat /\ Latest(q) + 1 = run[q].at
         /\ Passed(q) \subseteq 1..Len(Steps(q)) /\ Len(Steps(q)) \in Nat
         /\ At(q) = Steps(q)[run[q].at]
         /\ \A p \in Requests : Steps(p)' = Steps(p) /\ Op(p)' = Op(p)
         /\ At(q).do \in StepDos
         /\ At(q).do \notin {"ask", "replay", "record"} => At(q).table \in DOMAIN rows
         /\ Open(q)'
<1>1. Len(Steps(q)) \in Nat /\ run[q].at \in Nat \ {0} /\ run[q].at =< Len(Steps(q))
  BY Shapes DEF Typed, Continues
<1>2. /\ Passed(q)' = Passed(q) \cup {run[q].at} /\ run[q].at \notin Passed(q)
      /\ Latest(q)' = run[q].at /\ run[q].at \in 1..Len(Steps(q))
      /\ run[q].at \in Nat /\ Latest(q) \in Nat /\ Latest(q) + 1 = run[q].at
      /\ Passed(q) \subseteq 1..Len(Steps(q))
  <2>1. run'[q].at = run[q].at + 1
    BY DEF Continues
  <2>2. Passed(q)' = 1..run[q].at /\ Latest(q)' = run[q].at
    BY <1>1, <2>1, SMTT(40) DEF Passed, Latest
  <2>. QED
    BY <1>1, <2>2 DEF Passed, Latest
<1>3. /\ At(q) = Steps(q)[run[q].at] /\ Open(q)'
      /\ \A p \in Requests : Steps(p)' = Steps(p) /\ Op(p)' = Op(p)
  BY DEF Continues, Open, At, Steps, Op
<1>. QED
  BY <1>1, <1>2, <1>3, StepShape

\* What the transaction now has written of a row.
LEMMA Dirtied ==
  ASSUME Typed, NEW q \in Requests, Continues(q), NEW t \in DOMAIN run'[q].dirty
  PROVE  \/ t \in DOMAIN run[q].dirty /\ run'[q].dirty[t] = run[q].dirty[t]
         \/ /\ Puts(q) /\ t = At(q).table /\ t \in DOMAIN rows
            /\ ~Waits(q, t) /\ Row(q, t).state \in At(q).in
            /\ run'[q].dirty[t].state =
                 IF At(q).to = Same THEN Row(q, t).state ELSE At(q).to
            /\ run'[q].dirty[t].version = Row(q, t).version + 1
<1>. DEFINE u == At(q).table
            view == [state   |-> IF At(q).to = Same THEN Row(q, u).state ELSE At(q).to,
                     version |-> Row(q, u).version + 1]
<1>1. CASE Puts(q) /\ Row(q, u).state \in At(q).in
  <2>1. run'[q].dirty = With(run[q].dirty, u, view)
    BY <1>1 DEF Continues
  <2>2. /\ DOMAIN run'[q].dirty = DOMAIN run[q].dirty \cup {u}
        /\ run'[q].dirty[u] = view
        /\ \A v \in DOMAIN run[q].dirty : v # u => run'[q].dirty[v] = run[q].dirty[v]
    <3>. HIDE DEF view
    <3>. QED
      BY <2>1 DEF With
  <2>3. u \in DOMAIN rows
    BY <1>1, Onward DEF Puts
  <2>4. CASE t = u
    BY <1>1, <2>2, <2>3, <2>4 DEF Continues
  <2>5. CASE t # u
    BY <2>2, <2>5
  <2>. QED
    BY <2>4, <2>5
<1>2. CASE ~(Puts(q) /\ Row(q, u).state \in At(q).in)
  BY <1>2 DEF Continues
<1>. QED
  BY <1>1, <1>2

\* Changed rows stay changed.
LEMMA StaysDirty ==
  ASSUME NEW q \in Requests, Continues(q)
  PROVE  /\ DOMAIN run[q].dirty \subseteq DOMAIN run'[q].dirty
         /\ Puts(q) /\ Row(q, At(q).table).state \in At(q).in
              => At(q).table \in DOMAIN run'[q].dirty
         /\ \A t \in DOMAIN run[q].dirty :
              ~PutsAt(Steps(q), run[q].at, t) => run'[q].dirty[t] = run[q].dirty[t]
<1>. DEFINE u == At(q).table
            view == [state   |-> IF At(q).to = Same THEN Row(q, u).state ELSE At(q).to,
                     version |-> Row(q, u).version + 1]
<1>1. CASE Puts(q) /\ Row(q, u).state \in At(q).in
  <2>1. run'[q].dirty = With(run[q].dirty, u, view)
    BY <1>1 DEF Continues
  <2>2. /\ DOMAIN run'[q].dirty = DOMAIN run[q].dirty \cup {u}
        /\ \A v \in DOMAIN run[q].dirty : v # u => run'[q].dirty[v] = run[q].dirty[v]
    <3>. HIDE DEF view
    <3>. QED
      BY <2>1 DEF With
  <2>. QED
    BY <1>1, <2>2 DEF PutsAt, Puts, At
<1>2. CASE ~(Puts(q) /\ Row(q, u).state \in At(q).in)
  BY <1>2 DEF Continues
<1>. QED
  BY <1>1, <1>2

\* What the transaction now has seen of a row.
LEMMA SeenNow ==
  ASSUME Typed, NEW q \in Requests, Continues(q)
  PROVE  /\ DOMAIN run[q].seen \subseteq DOMAIN run'[q].seen
         /\ \A t \in DOMAIN run[q].seen :
              ~FindsAt(Steps(q), run[q].at, t) => run'[q].seen[t] = run[q].seen[t]
         /\ \A t : FindsAt(Steps(q), run[q].at, t) =>
              t \in DOMAIN rows /\ t \in DOMAIN run'[q].seen
              /\ run'[q].seen[t] = Row(q, t)
         /\ \A t \in DOMAIN run'[q].seen :
              t \in DOMAIN run[q].seen \/ FindsAt(Steps(q), run[q].at, t)
<1>1. CASE At(q).do = "find"
  <2>1. run'[q].seen = With(run[q].seen, At(q).table, Row(q, At(q).table))
    BY <1>1 DEF Continues
  <2>2. At(q).table \in DOMAIN rows
    BY <1>1, Onward, SMTT(40)
  <2>. QED
    BY <1>1, <2>1, <2>2 DEF FindsAt, At, With
<1>2. CASE At(q).do # "find"
  BY <1>2 DEF Continues, FindsAt, At
<1>. QED
  BY <1>1, <1>2, SMTT(40)

LEMMA ContinueTyped ==
  ASSUME Typed, NEW q \in Requests, Continues(q)
  PROVE  Typed'
<1>1. /\ Other(q) \in Requests /\ \A p \in Requests : p = q \/ p = Other(q)
      /\ UNCHANGED <<scene, rows, keys, effects>>
  BY DEF Requests, Other, Continues
<1>2. /\ scene' \in Scenarios /\ DOMAIN rows' = Involved(scene')
      /\ \A t \in DOMAIN rows' : rows'[t].state \in RowStates[t] /\ rows'[t].version \in Nat
      /\ DOMAIN keys' = Requests /\ effects' \subseteq Requests /\ DOMAIN run' = Requests
  BY <1>1 DEF Typed, Continues
<1>3. ASSUME NEW p \in Requests
      PROVE  /\ DOMAIN run'[p] = RunFields
             /\ run'[p].pc \in {"new", "open", "over"}
             /\ run'[p].at \in Nat \ {0} /\ run'[p].at =< Len(Steps(p)) + 1
             /\ {run'[p].matches, run'[p].replayed} \subseteq BOOLEAN
             /\ run'[p].matches => Conditional(p)
  <2>1. CASE p = q
    BY <2>1, Onward DEF Continues, Typed
  <2>2. CASE p = Other(q)
    BY <2>2 DEF Continues, Typed
  <2>. QED
    BY <1>1, <2>1, <2>2
<1>4. Views(run[Other(q)].seen) /\ Views(run[Other(q)].dirty)
      /\ Views(run[q].seen) /\ Views(run[q].dirty)
  BY <1>1 DEF Typed
<1>5. Views(run'[q].seen)
  <2>. SUFFICES ASSUME NEW t \in DOMAIN run'[q].seen
                PROVE  /\ t \in DOMAIN rows
                       /\ run'[q].seen[t].state \in RowStates[t]
                       /\ run'[q].seen[t].version \in Nat
    BY DEF Views
  <2>1. CASE FindsAt(Steps(q), run[q].at, t)
    BY <2>1, SeenNow, RowTyped
  <2>2. CASE ~FindsAt(Steps(q), run[q].at, t)
    BY <1>4, <2>2, SeenNow DEF Views
  <2>. QED
    BY <2>1, <2>2
<1>6. Views(run'[q].dirty)
  <2>. SUFFICES ASSUME NEW t \in DOMAIN run'[q].dirty
                PROVE  /\ t \in DOMAIN rows
                       /\ run'[q].dirty[t].state \in RowStates[t]
                       /\ run'[q].dirty[t].version \in Nat
    BY DEF Views
  <2>1. CASE t \in DOMAIN run[q].dirty /\ run'[q].dirty[t] = run[q].dirty[t]
    BY <1>4, <2>1 DEF Views
  <2>2. CASE /\ Puts(q) /\ t = At(q).table /\ t \in DOMAIN rows
             /\ run'[q].dirty[t].state =
                  IF At(q).to = Same THEN Row(q, t).state ELSE At(q).to
             /\ run'[q].dirty[t].version = Row(q, t).version + 1
    <3>1. At(q).to \in RowStates[t] \cup {Same}
      BY <2>2, Onward, StepShape, SMTT(40) DEF Puts
    <3>. QED
      BY <2>2, <3>1, RowTyped
  <2>. QED
    BY <2>1, <2>2, Dirtied
<1>7. \A p \in Requests : Views(run[p].seen)' /\ Views(run[p].dirty)'
  BY <1>1, <1>4, <1>5, <1>6 DEF Views, Continues
<1>8. \A p \in Requests : Steps(p)' = Steps(p) /\ (Conditional(p)' <=> Conditional(p))
  BY Onward DEF Conditional
<1>. QED
  BY <1>2, <1>3, <1>7, <1>8 DEF Typed

LEMMA ContinueLocks ==
  ASSUME Typed, NEW q \in Requests, Continues(q), LocksTaken(q)
  PROVE  LocksTaken(q)'
<1>1. /\ Passed(q)' = Passed(q) \cup {run[q].at} /\ Steps(q)' = Steps(q)
      /\ At(q) = Steps(q)[run[q].at]
      /\ run'[q].locks =
           IF At(q).do = "lock" THEN run[q].locks \cup {At(q).table} ELSE run[q].locks
  BY Onward DEF Continues
<1>2. \A i \in Passed(q)' :
        Steps(q)[i].do = "lock" => Steps(q)[i].table \in run'[q].locks
  BY <1>1 DEF LocksTaken
<1>3. \A t \in run'[q].locks : \E i \in Passed(q)' : LocksAt(Steps(q), i, t)
  BY <1>1 DEF LocksTaken, LocksAt
<1>. QED
  BY <1>1, <1>2, <1>3 DEF LocksTaken

LEMMA ContinueAdded ==
  ASSUME Typed, NEW q \in Requests, Continues(q), RowsAdded(q)
  PROVE  RowsAdded(q)'
<1>1. /\ Passed(q)' = Passed(q) \cup {run[q].at} /\ Steps(q)' = Steps(q)
      /\ At(q) = Steps(q)[run[q].at]
      /\ run'[q].added = IF At(q).do \in {"insert", "unique"}
                           THEN run[q].added \cup {At(q).table} ELSE run[q].added
  BY Onward DEF Continues
<1>2. CASE AddsAt(Steps(q), run[q].at)
  <2>1. run'[q].added # {}
    BY <1>1, <1>2 DEF AddsAt
  <2>2. \E i \in Passed(q)' : AddsAt(Steps(q), i)
    BY <1>1, <1>2
  <2>. QED
    BY <1>1, <2>1, <2>2 DEF RowsAdded
<1>3. CASE ~AddsAt(Steps(q), run[q].at)
  <2>1. run'[q].added = run[q].added
    BY <1>1, <1>3 DEF AddsAt
  <2>2. (\E i \in Passed(q)' : AddsAt(Steps(q), i))
          <=> (\E i \in Passed(q) : AddsAt(Steps(q), i))
    BY <1>1, <1>3
  <2>. QED
    BY <1>1, <2>1, <2>2 DEF RowsAdded
<1>. QED
  BY <1>2, <1>3

LEMMA ContinueRecorded ==
  ASSUME Typed, NEW q \in Requests, Continues(q), StatusRecorded(q)
  PROVE  StatusRecorded(q)'
<1>1. /\ Passed(q)' = Passed(q) \cup {run[q].at} /\ Steps(q)' = Steps(q)
      /\ At(q) = Steps(q)[run[q].at]
      /\ run'[q].recorded =
           IF At(q).do = "record" THEN At(q).status ELSE run[q].recorded
  BY Onward DEF Continues
<1>2. CASE At(q).do = "record"
  BY <1>1, <1>2 DEF StatusRecorded
<1>3. CASE At(q).do # "record"
  BY <1>1, <1>3 DEF StatusRecorded
<1>. QED
  BY <1>2, <1>3

LEMMA ContinueSeen ==
  ASSUME Typed, NEW q \in Requests, Continues(q), RowsSeen(q)
  PROVE  RowsSeen(q)'
<1>1. /\ Passed(q)' = Passed(q) \cup {run[q].at} /\ Steps(q)' = Steps(q)
  BY Onward
<1>2. \A i \in Passed(q) :
        Steps(q)[i].do = "find" => Steps(q)[i].table \in DOMAIN run'[q].seen
  BY SeenNow DEF RowsSeen
<1>3. Steps(q)[run[q].at].do = "find" =>
        Steps(q)[run[q].at].table \in DOMAIN run'[q].seen
  BY SeenNow DEF FindsAt
<1>. QED
  BY <1>1, <1>2, <1>3 DEF RowsSeen

\* What a check is of has been seen.
LEMMA CheckedSeen ==
  ASSUME Typed, NEW q \in Requests, RowsSeen(q), NEW t,
         NEW i \in 1..Len(Steps(q)), i =< run[q].at,
         IsAt(Steps(q), i, t) \/ MatchAt(Steps(q), i, t)
  PROVE  t \in DOMAIN run[q].seen /\ t \in DOMAIN rows
<1>1. PICK f \in 1..(i - 1) : FindsAt(Steps(q), f, t)
  BY StepShape DEF IsAt, MatchAt
<1>2. f \in Passed(q)
  BY <1>1 DEF Passed, Typed
<1>. QED
  BY <1>1, <1>2 DEF RowsSeen, FindsAt, Typed, Views

LEMMA ContinueChecks ==
  ASSUME Typed, NEW q \in Requests, Continues(q), RowsSeen(q), ChecksPassed(q)
  PROVE  ChecksPassed(q)'
<1>. DEFINE n == run[q].at
<1>1. /\ Passed(q)' = Passed(q) \cup {n} /\ Steps(q)' = Steps(q) /\ Latest(q)' = n
      /\ At(q) = Steps(q)[n] /\ n \in 1..Len(Steps(q)) /\ n \in Nat
      /\ Passed(q) \subseteq 1..Len(Steps(q)) /\ Latest(q) \in Nat /\ Latest(q) + 1 = n
      /\ Passed(q) = 1..Latest(q)
      /\ DOMAIN rows' = DOMAIN rows
  BY Onward DEF Continues, Passed, Latest
<1>2. /\ At(q).do = "is" => run[q].seen[At(q).table].state \in At(q).in
      /\ At(q).do = "match" /\ run[q].matches
           => run[q].seen[At(q).table].version = ExpectedVersion
      /\ run'[q].matches = run[q].matches
      /\ At(q).do # "find" => run'[q].seen = run[q].seen
  BY DEF Continues
<1>3. ASSUME NEW i \in Passed(q), NEW t \in DOMAIN rows, NoFinds(Steps(q), t, i, n),
             IsAt(Steps(q), i, t) \/ MatchAt(Steps(q), i, t)
      PROVE  /\ NoFinds(Steps(q), t, i, Latest(q))
             /\ run'[q].seen[t] = run[q].seen[t]
  <2>1. NoFinds(Steps(q), t, i, Latest(q)) /\ ~FindsAt(Steps(q), n, t)
    BY <1>1, <1>3 DEF NoFinds
  <2>2. t \in DOMAIN run[q].seen
    BY <1>1, <1>3, CheckedSeen
  <2>. QED
    BY <2>1, <2>2, SeenNow
<1>. SUFFICES ASSUME NEW i \in Passed(q) \cup {n}, NEW t \in DOMAIN rows,
                     NoFinds(Steps(q), t, i, n)
              PROVE  /\ IsAt(Steps(q), i, t) => run'[q].seen[t].state \in Steps(q)[i].in
                     /\ MatchAt(Steps(q), i, t) /\ run'[q].matches
                          => run'[q].seen[t].version = ExpectedVersion
  BY <1>1 DEF ChecksPassed
<1>4. CASE i \in Passed(q)
  BY <1>2, <1>3, <1>4 DEF ChecksPassed
<1>5. CASE i = n
  BY <1>1, <1>2, <1>5 DEF IsAt, MatchAt
<1>. QED
  BY <1>4, <1>5

LEMMA ContinueWritten ==
  ASSUME Typed, NEW q \in Requests, Continues(q), WrittenBy(q)
  PROVE  WrittenBy(q)'
<1>. DEFINE n == run[q].at
<1>1. /\ Passed(q)' = Passed(q) \cup {n} /\ Steps(q)' = Steps(q)
      /\ At(q) = Steps(q)[n] /\ n \in 1..Len(Steps(q)) /\ rows' = rows
      /\ Passed(q) \subseteq 1..Len(Steps(q))
  BY Onward DEF Continues
<1>. SUFFICES ASSUME NEW t \in DOMAIN run'[q].dirty
              PROVE  /\ run'[q].dirty[t].version > rows[t].version
                     /\ \E i \in Passed(q) \cup {n} :
                          /\ PutsAt(Steps(q), i, t)
                          /\ Steps(q)[i].to \in {run'[q].dirty[t].state, Same}
                     /\ \E i \in Passed(q) \cup {n} :
                          PutsAt(Steps(q), i, t) /\ rows[t].state \in Steps(q)[i].in
                     /\ Preserved(Steps(q), t) => run'[q].dirty[t].state = rows[t].state
  BY <1>1 DEF WrittenBy
<1>2. CASE t \in DOMAIN run[q].dirty /\ run'[q].dirty[t] = run[q].dirty[t]
  BY <1>2 DEF WrittenBy
<1>3. CASE /\ Puts(q) /\ t = At(q).table /\ t \in DOMAIN rows
           /\ Row(q, t).state \in At(q).in
           /\ run'[q].dirty[t].state =
                IF At(q).to = Same THEN Row(q, t).state ELSE At(q).to
           /\ run'[q].dirty[t].version = Row(q, t).version + 1
  <2>1. PutsAt(Steps(q), n, t)
    BY <1>1, <1>3 DEF Puts, PutsAt
  <2>2. Row(q, t).version >= rows[t].version
    <3>1. CASE t \in DOMAIN run[q].dirty
      BY <3>1 DEF Row, WrittenBy, Typed, Views
    <3>2. CASE t \notin DOMAIN run[q].dirty
      BY <1>3, <3>2 DEF Row, Typed
    <3>. QED
      BY <3>1, <3>2
  <2>3. run'[q].dirty[t].version > rows[t].version
    BY <1>3, <2>2, RowTyped DEF Typed
  <2>4. At(q).to \in {run'[q].dirty[t].state, Same}
    BY <1>3
  <2>5. \E i \in Passed(q) \cup {n} :
          PutsAt(Steps(q), i, t) /\ rows[t].state \in Steps(q)[i].in
    <3>1. CASE t \in DOMAIN run[q].dirty
      BY <3>1, SMTT(40) DEF WrittenBy
    <3>2. CASE t \notin DOMAIN run[q].dirty
      BY <1>1, <1>3, <2>1, <3>2 DEF Row
    <3>. QED
      BY <3>1, <3>2
  <2>6. ASSUME Preserved(Steps(q), t)
        PROVE  run'[q].dirty[t].state = rows[t].state
    <3>1. Row(q, t).state = rows[t].state
      BY <1>3, <2>6 DEF Row, WrittenBy
    <3>2. At(q).to = Same \/ At(q).in \subseteq {At(q).to}
      BY <1>1, <2>1, <2>6 DEF Preserved, Preserves
    <3>. QED
      BY <1>3, <3>1, <3>2
  <2>. QED
    BY <1>1, <2>1, <2>3, <2>4, <2>5, <2>6
<1>. QED
  BY <1>2, <1>3, Dirtied

LEMMA ContinuePuts ==
  ASSUME Typed, NEW q \in Requests, Continues(q), PutsDone(q)
  PROVE  PutsDone(q)'
<1>. DEFINE n == run[q].at
<1>1. /\ Passed(q)' = Passed(q) \cup {n} /\ Steps(q)' = Steps(q)
      /\ At(q) = Steps(q)[n] /\ DOMAIN run[q].dirty \subseteq DOMAIN run'[q].dirty
      /\ Puts(q) => At(q).table \in DOMAIN rows
  BY Onward, StaysDirty DEF Puts
<1>2. At(q).do = "put_if" => At(q).table \in DOMAIN run'[q].dirty
  BY StaysDirty DEF Puts, Continues
<1>3. At(q).do = "put" /\ At(q).in = RowStates[At(q).table]
        => At(q).table \in DOMAIN run'[q].dirty
  BY <1>1, StaysDirty, RowTyped DEF Puts
<1>. QED
  BY <1>1, <1>2, <1>3 DEF PutsDone

\* A row no step passed has changed is as it was committed.
LEMMA NotYetWritten ==
  ASSUME NEW q \in Requests, WrittenBy(q), NEW t,
         \A i \in Passed(q) : ~PutsAt(Steps(q), i, t)
  PROVE  /\ t \notin DOMAIN run[q].dirty
         /\ Row(q, t).state = rows[t].state /\ Row(q, t).version = rows[t].version
  BY DEF WrittenBy, Row

LEMMA RowKept ==
  ASSUME Typed, NEW q \in Requests, Continues(q), NEW t, ~PutsAt(Steps(q), run[q].at, t)
  PROVE  Row(q, t)' = Row(q, t)
<1>1. At(q) = Steps(q)[run[q].at] /\ rows' = rows
  BY Onward DEF Continues
<1>2. t \in DOMAIN run'[q].dirty => t \in DOMAIN run[q].dirty
  BY <1>1, Dirtied DEF Puts, PutsAt
<1>3. t \in DOMAIN run[q].dirty =>
        t \in DOMAIN run'[q].dirty /\ run'[q].dirty[t] = run[q].dirty[t]
  BY StaysDirty
<1>. QED
  BY <1>1, <1>2, <1>3 DEF Row

LEMMA ContinueVersions ==
  ASSUME Typed, NEW q \in Requests, Continues(q), WrittenBy(q), VersionSeen(q)
  PROVE  VersionSeen(q)'
<1>. DEFINE n == run[q].at
<1>1. /\ Steps(q)' = Steps(q) /\ n \in 1..Len(Steps(q)) /\ rows' = rows
      /\ Passed(q) \subseteq 1..Len(Steps(q)) /\ Passed(q) = 1..(n - 1) /\ n \in Nat
      /\ Len(Steps(q)) \in Nat
  BY Onward DEF Continues, Passed
<1>. SUFFICES ASSUME NEW t \in DOMAIN run'[q].seen, FindsFirst(Steps(q), t)
              PROVE  /\ run'[q].seen[t].version =< rows[t].version
                     /\ (run'[q].seen[t].version = rows[t].version) =>
                          run'[q].seen[t].state = rows[t].state
  BY <1>1 DEF VersionSeen
<1>2. CASE FindsAt(Steps(q), n, t)
  <2>1. ASSUME NEW i \in Passed(q), PutsAt(Steps(q), i, t)
        PROVE  FALSE
    <3>1. NoFinds(Steps(q), t, i, Len(Steps(q)))
      BY <1>1, <2>1 DEF FindsFirst
    <3>2. n \in i..Len(Steps(q))
      BY <1>1
    <3>. QED
      BY <1>2, <3>1, <3>2 DEF NoFinds
  <2>2. /\ run'[q].seen[t].state = rows[t].state
        /\ run'[q].seen[t].version = rows[t].version /\ t \in DOMAIN rows
    BY <1>2, <2>1, NotYetWritten, SeenNow
  <2>. QED
    BY <2>2 DEF Typed
<1>3. CASE ~FindsAt(Steps(q), n, t)
  BY <1>3, SeenNow DEF VersionSeen
<1>. QED
  BY <1>2, <1>3

LEMMA ContinueView ==
  ASSUME Typed, NEW q \in Requests, Continues(q), RowsSeen(q), ViewStands(q)
  PROVE  ViewStands(q)'
<1>. DEFINE n == run[q].at
<1>1. /\ Passed(q)' = Passed(q) \cup {n} /\ Steps(q)' = Steps(q) /\ Latest(q)' = n
      /\ rows' = rows /\ n \in Nat /\ Latest(q) + 1 = n /\ Passed(q) = 1..Latest(q)
      /\ Latest(q) \in Nat
  BY Onward DEF Continues, Passed, Latest
<1>. SUFFICES ASSUME NEW f \in Passed(q) \cup {n}, NEW t \in DOMAIN rows,
                     Guarded(Steps(q), f, t), NoPuts(Steps(q), t, f, n)
              PROVE  Stands(t, run'[q].seen[t].state, Row(q, t)'.state)
  BY <1>1 DEF ViewStands, Stands
<1>2. n \in f..n /\ f \in Nat
  BY <1>1
<1>3. Row(q, t)' = Row(q, t)
  BY <1>2, RowKept DEF NoPuts
<1>4. CASE FindsAt(Steps(q), n, t)
  BY <1>3, <1>4, SeenNow DEF Stands
<1>5. CASE ~FindsAt(Steps(q), n, t)
  <2>1. f \in Passed(q) /\ FindsAt(Steps(q), f, t)
    BY <1>5 DEF Guarded
  <2>2. NoPuts(Steps(q), t, f, Latest(q))
    BY <1>1, <1>2 DEF NoPuts
  <2>3. Stands(t, run[q].seen[t].state, Row(q, t).state)
    BY <2>1, <2>2 DEF ViewStands
  <2>4. t \in DOMAIN run[q].seen
    BY <2>1 DEF RowsSeen, FindsAt
  <2>. QED
    BY <1>3, <1>5, <2>3, <2>4, SeenNow
<1>. QED
  BY <1>4, <1>5

LEMMA ContinueRow ==
  ASSUME Typed, NEW q \in Requests, Continues(q), RowsSeen(q), WrittenBy(q), RowStands(q)
  PROVE  RowStands(q)'
<1>. DEFINE n == run[q].at
<1>1. /\ Passed(q)' = Passed(q) \cup {n} /\ Steps(q)' = Steps(q) /\ Latest(q)' = n
      /\ rows' = rows /\ n \in Nat /\ Latest(q) + 1 = n /\ Passed(q) = 1..Latest(q)
      /\ Latest(q) \in Nat /\ scene' = scene
  BY Onward DEF Continues, Passed, Latest
<1>. SUFFICES ASSUME NEW f \in Passed(q) \cup {n}, NEW t \in DOMAIN rows,
                     FindsAt(Steps(q), f, t),
                     NoPuts(Steps(q), t, 1, f), NoFinds(Steps(q), t, f + 1, n)
              PROVE  /\ Guarded(Steps(q), f, t)
                          => Stands(t, run'[q].seen[t].state, rows[t].state)
                     /\ scene.kind = "retry" => run'[q].seen[t].state = rows[t].state
  BY <1>1 DEF RowStands, Guarded, Stands
<1>2. f \in Nat
  BY <1>1
<1>3. CASE f = n
  <2>1. \A i \in Passed(q) : ~PutsAt(Steps(q), i, t)
    BY <1>1, <1>3 DEF NoPuts
  <2>. QED
    BY <1>2, <1>3, <2>1, NotYetWritten, SeenNow DEF Stands
<1>4. CASE f \in Passed(q)
  <2>1. NoFinds(Steps(q), t, f + 1, Latest(q)) /\ ~FindsAt(Steps(q), n, t)
    BY <1>1, <1>4 DEF NoFinds
  <2>2. /\ Guarded(Steps(q), f, t)
             => Stands(t, run[q].seen[t].state, rows[t].state)
        /\ scene.kind = "retry" => run[q].seen[t].state = rows[t].state
    BY <1>4, <2>1 DEF RowStands
  <2>3. t \in DOMAIN run[q].seen
    BY <1>2, <1>4 DEF RowsSeen, FindsAt
  <2>. QED
    BY <2>1, <2>2, <2>3, SeenNow
<1>. QED
  BY <1>3, <1>4

LEMMA ContinueExpected ==
  ASSUME Typed, NEW q \in Requests, Continues(q), WrittenBy(q), VersionWritten(q)
  PROVE  VersionWritten(q)'
<1>. DEFINE n == run[q].at
            t == At(q).table
<1>1. /\ Passed(q)' = Passed(q) \cup {n} /\ Steps(q)' = Steps(q) /\ rows' = rows
      /\ At(q) = Steps(q)[n] /\ run'[q].matches = run[q].matches
  BY Onward DEF Continues
<1>2. \A w \in Passed(q)' : WritesExpected(q, w)' <=> WritesExpected(q, w)
  BY <1>1 DEF WritesExpected
<1>3. ASSUME WritesExpected(q, n)
      PROVE  rows[t].version = ExpectedVersion
  <2>1. Row(q, t).version = NamedVersion(q, t) /\ t \in DOMAIN rows
    BY <1>1, <1>3, Onward DEF WritesExpected, Continues
  <2>2. NamedVersion(q, t) = ExpectedVersion
    BY <1>1, <1>3 DEF WritesExpected, NamedVersion
  <2>3. CASE t \in DOMAIN run[q].dirty
    BY <2>1, <2>2, <2>3 DEF Row, WrittenBy, Typed, Views, ExpectedVersion
  <2>4. CASE t \notin DOMAIN run[q].dirty
    BY <2>1, <2>2, <2>4 DEF Row
  <2>. QED
    BY <2>3, <2>4
<1>. QED
  BY <1>1, <1>2, <1>3 DEF VersionWritten

LEMMA ContinueTakenOut ==
  ASSUME Typed, NEW q \in Requests, Continues(q), ChecksPassed(q), WrittenBy(q),
         RowStands(q), TakenOut(q)
  PROVE  TakenOut(q)'
<1>. DEFINE n == run[q].at
            s == Steps(q)
<1>1. /\ Passed(q)' = Passed(q) \cup {n} /\ Steps(q)' = Steps(q) /\ rows' = rows
      /\ At(q) = Steps(q)[n] /\ scene' = scene /\ Passed(q) = 1..Latest(q)
      /\ Latest(q) \in Nat /\ n = Latest(q) + 1 /\ n \in 1..Len(Steps(q))
      /\ Len(Steps(q)) \in Nat /\ n \in Nat
  BY Onward DEF Continues, Passed, Latest
<1>. SUFFICES ASSUME scene.kind = "retry", NEW t \in DOMAIN rows,
                     NEW f \in 1..Len(Steps(q)), NEW k \in 1..Len(Steps(q)),
                     NEW w \in Passed(q) \cup {n}, TakesOutAt(Steps(q), t, f, k, w)
              PROVE  t \in DOMAIN run'[q].dirty /\ run'[q].dirty[t].state = Steps(q)[w].to
  BY <1>1 DEF TakenOut
<1>2. w \in 1..Len(Steps(q))
  BY <1>1
<1>3. CASE w \in Passed(q)
  <2>1. ~PutsAt(Steps(q), n, t)
    BY <1>1, <1>3 DEF TakesOutAt
  <2>2. t \in DOMAIN run[q].dirty /\ run[q].dirty[t].state = Steps(q)[w].to
    BY <1>3 DEF TakenOut
  <2>. QED
    BY <2>1, <2>2, StaysDirty
<1>4. CASE w = n
  <2>1. f < k /\ k < n /\ f \in Passed(q) /\ k \in Passed(q)
    BY <1>1, <1>4 DEF TakesOutAt
  <2>2. /\ NoFinds(s, t, k, Latest(q)) /\ NoFinds(s, t, f + 1, Latest(q))
        /\ NoPuts(s, t, 1, f) /\ \A i \in Passed(q) : ~PutsAt(s, i, t)
    BY <1>1, <1>4, <2>1, SMTT(40) DEF TakesOutAt, NoFinds, NoPuts
  <2>3. run[q].seen[t].state \in s[k].in
    BY <2>1, <2>2 DEF ChecksPassed, TakesOutAt
  <2>4. run[q].seen[t].state = rows[t].state
    BY <2>1, <2>2 DEF RowStands, TakesOutAt
  <2>5. t \notin DOMAIN run[q].dirty /\ Row(q, t).state = rows[t].state
    BY <2>2, NotYetWritten
  <2>6. Puts(q) /\ At(q).table = t /\ Row(q, t).state \in At(q).in /\ At(q).to # Same
    BY <1>1, <1>4, <2>3, <2>4, <2>5 DEF TakesOutAt, PutsAt, Puts
  <2>7. t \in DOMAIN run'[q].dirty
    BY <2>6, StaysDirty
  <2>. QED
    BY <1>1, <1>4, <2>5, <2>6, <2>7, Dirtied
<1>. QED
  BY <1>3, <1>4

LEMMA ContinueOwn ==
  ASSUME Typed, NEW q \in Requests, Continues(q), Own(q)
  PROVE  Own(q)'
  BY ContinueLocks, ContinueAdded, ContinueRecorded, ContinueSeen, ContinueChecks,
     ContinueWritten, ContinuePuts, ContinueVersions, ContinueView, ContinueRow,
     ContinueExpected, ContinueTakenOut DEF Own

-----------------------------------------------------------------------------
(* A request that ends *)

LEMMA TwoRequests ==
  /\ \A q \in Requests : Other(q) \in Requests /\ Other(q) # q /\ Other(Other(q)) = q
  /\ \A p, q \in Requests : p = q \/ p = Other(q)
  BY DEF Requests, Other

LEMMA Applied ==
  ASSUME NEW q \in Requests, Apply(q)
  PROVE  /\ DOMAIN rows' = DOMAIN rows
         /\ \A t \in DOMAIN rows :
              rows'[t].state = Row(q, t).state /\ rows'[t].version = Row(q, t).version
         /\ effects' = IF Wrote(q) THEN effects \cup {q} ELSE effects
  BY DEF Apply, ApplyRows

\* A row is as it was, or the transaction has changed it, and holds the lock that
\* guards its state if that is another, or leaves no default model.
RowsMove(q) ==
  /\ DOMAIN rows' = DOMAIN rows
  /\ \A t \in DOMAIN rows :
       \/ rows'[t].state = rows[t].state /\ rows'[t].version = rows[t].version
       \/ /\ t \in DOMAIN run[q].dirty
          /\ rows'[t].state = run[q].dirty[t].state
          /\ rows'[t].version = run[q].dirty[t].version
          /\ rows'[t].version > rows[t].version
          /\ t \in DOMAIN Guard /\ rows'[t].state # rows[t].state
               => \/ Guard[t] \in run[q].locks
                  \/ t = "defaultModel" /\ rows'[t].state = "absent"

\* A changed state of a guarded row is not tidied up.
LEMMA GuardedChange ==
  ASSUME Typed, NEW q \in Requests, WrittenBy(q), NEW t \in DOMAIN run[q].dirty,
         t \in DOMAIN Guard, run[q].dirty[t].state # rows[t].state
  PROVE  Wrote(q) /\ \E l \in 1..Len(Steps(q)) : LocksAt(Steps(q), l, Guard[t])
<1>1. ~Preserved(Steps(q), t)
  BY DEF WrittenBy
<1>2. ~Tidied(Steps(q), t) /\ \E l \in 1..Len(Steps(q)) : LocksAt(Steps(q), l, Guard[t])
  BY <1>1, Shapes DEF TakesGuards
<1>. QED
  BY <1>2 DEF Wrote, Tidies, Tidied

LEMMA ReadyPassed ==
  ASSUME Typed, NEW q \in Requests, Ready(q)
  PROVE  /\ Open(q) /\ Passed(q) = 1..Len(Steps(q)) /\ Latest(q) = Len(Steps(q))
         /\ Len(Steps(q)) \in Nat
<1>1. /\ run[q].at \in Nat /\ Len(Steps(q)) \in Nat
      /\ run[q].at =< Len(Steps(q)) + 1 /\ run[q].at > Len(Steps(q))
  BY Shapes DEF Typed, Ready
<1>2. run[q].at - 1 = Len(Steps(q))
  BY <1>1
<1>. QED
  BY <1>1, <1>2 DEF Ready, Open, Passed, Latest

LEMMA ApplyMoves ==
  ASSUME Typed, NEW q \in Requests, Own(q), Apply(q), Ready(q) \/ ~Wrote(q)
  PROVE  RowsMove(q)
<1>. SUFFICES ASSUME NEW t \in DOMAIN rows, t \in DOMAIN run[q].dirty
              PROVE  /\ run[q].dirty[t].version > rows[t].version
                     /\ t \in DOMAIN Guard /\ run[q].dirty[t].state # rows[t].state
                          => Guard[t] \in run[q].locks
  BY Applied DEF RowsMove, Row
<1>1. WrittenBy(q) /\ LocksTaken(q)
  BY DEF Own
<1>2. run[q].dirty[t].version > rows[t].version
  BY <1>1 DEF WrittenBy
<1>3. ASSUME t \in DOMAIN Guard, run[q].dirty[t].state # rows[t].state
      PROVE  Guard[t] \in run[q].locks
  <2>1. Wrote(q) /\ \E l \in 1..Len(Steps(q)) : LocksAt(Steps(q), l, Guard[t])
    BY <1>1, <1>3, GuardedChange
  <2>2. Passed(q) = 1..Len(Steps(q))
    BY <2>1, ReadyPassed
  <2>. QED
    BY <1>1, <2>1, <2>2 DEF LocksTaken, LocksAt
<1>. QED
  BY <1>2, <1>3

\* The transaction ends, by COMMIT or not.
Finishes(q) ==
  /\ Open(q) /\ SameRun(q) /\ run'[q].pc = "over" /\ run'[q].locks = {}
  /\ run'[q].replayed \in BOOLEAN
  /\ scene' = scene /\ DOMAIN keys' = Requests /\ effects' \subseteq Requests
  /\ RowsMove(q)

LEMMA FinishTyped ==
  ASSUME Typed, NEW q \in Requests, Finishes(q)
  PROVE  Typed'
<1>1. \A t \in DOMAIN rows : rows'[t].state \in RowStates[t] /\ rows'[t].version \in Nat
  BY DEF Typed, Views, Finishes, RowsMove
<1>2. /\ scene' \in Scenarios /\ DOMAIN rows' = Involved(scene') /\ DOMAIN rows' = DOMAIN rows
      /\ DOMAIN keys' = Requests /\ effects' \subseteq Requests /\ DOMAIN run' = Requests
  BY DEF Typed, Finishes, RowsMove, SameRun
<1>3. \A p \in Requests : Steps(p)' = Steps(p) /\ (Conditional(p)' <=> Conditional(p))
  BY DEF Steps, Op, Conditional, Finishes
<1>4. ASSUME NEW p \in Requests
      PROVE  /\ DOMAIN run'[p] = RunFields
             /\ run'[p].pc \in {"new", "open", "over"}
             /\ run'[p].at \in Nat \ {0} /\ run'[p].at =< Len(Steps(p)) + 1
             /\ {run'[p].matches, run'[p].replayed} \subseteq BOOLEAN
             /\ run'[p].matches => Conditional(p)
             /\ run'[p].seen = run[p].seen /\ run'[p].dirty = run[p].dirty
  <2>1. CASE p = q
    BY <2>1 DEF Finishes, SameRun, Typed
  <2>2. CASE p = Other(q)
    BY <2>2 DEF Finishes, SameRun, Typed
  <2>. QED
    BY <2>1, <2>2, TwoRequests
<1>5. \A p \in Requests : Views(run[p].seen)' /\ Views(run[p].dirty)'
  BY <1>2, <1>4 DEF Views, Typed
<1>. QED
  BY <1>1, <1>2, <1>3, <1>4, <1>5 DEF Typed

\* What an open transaction relies on is so for the other's end as well.
LEMMA FinishOwn ==
  ASSUME Typed, Serial, Apart, NEW p \in Requests, Finishes(p),
         NEW q \in Requests, q = Other(p), Open(q), Own(q)
  PROVE  Own(q)'
<1>1. /\ run'[q] = run[q] /\ Steps(q)' = Steps(q) /\ scene' = scene
      /\ Passed(q)' = Passed(q) /\ Latest(q)' = Latest(q)
      /\ DOMAIN rows' = DOMAIN rows /\ RowsMove(p)
  BY DEF Finishes, SameRun, Passed, Latest, Steps, Op, RowsMove
<1>2. \A t \in DOMAIN run[q].dirty :
        /\ t \in DOMAIN rows
        /\ rows'[t].state = rows[t].state /\ rows'[t].version = rows[t].version
  <2>1. DOMAIN run[1].dirty \cap DOMAIN run[2].dirty = {}
    BY DEF Apart, Finishes, Open, Requests, Other
  <2>2. DOMAIN run[p].dirty \cap DOMAIN run[q].dirty = {}
    BY <2>1 DEF Requests, Other
  <2>. QED
    BY <1>1, <2>2 DEF RowsMove, Typed, Views
<1>3. ASSUME NEW f \in Passed(q), NEW t \in DOMAIN rows
      PROVE  /\ Guarded(Steps(q), f, t) => Stands(t, rows[t].state, rows'[t].state)
             /\ scene.kind # "retry"
  <2>1. ASSUME Guarded(Steps(q), f, t)
        PROVE  Stands(t, rows[t].state, rows'[t].state)
    <3>1. PICK l \in 1..(f - 1) : LocksAt(Steps(q), l, Guard[t])
      BY <2>1 DEF Guarded
    <3>2. l \in Passed(q)
      BY <3>1 DEF Passed, Typed
    <3>3. Guard[t] \in run[q].locks
      BY <3>1, <3>2 DEF Own, LocksTaken, LocksAt
    <3>4. Guard[t] \notin run[p].locks
      BY <3>3 DEF Apart, Requests, Other
    <3>. QED
      BY <1>1, <2>1, <3>4 DEF RowsMove, Guarded, Stands
  <2>2. scene.kind # "retry"
    BY DEF Serial, KeyOf, Finishes, Open, Requests, Other
  <2>. QED
    BY <2>1, <2>2
<1>4. LocksTaken(q)' /\ RowsAdded(q)' /\ StatusRecorded(q)' /\ RowsSeen(q)'
  BY <1>1 DEF Own, LocksTaken, RowsAdded, StatusRecorded, RowsSeen
<1>5. ChecksPassed(q)' /\ PutsDone(q)'
  BY <1>1 DEF Own, ChecksPassed, PutsDone
<1>6. WrittenBy(q)'
  BY <1>1, <1>2 DEF Own, WrittenBy
<1>7. VersionSeen(q)'
  <2>. SUFFICES ASSUME NEW t \in DOMAIN run[q].seen, FindsFirst(Steps(q), t)
                PROVE  /\ run[q].seen[t].version =< rows'[t].version
                       /\ (run[q].seen[t].version = rows'[t].version) =>
                            run[q].seen[t].state = rows'[t].state
    BY <1>1 DEF VersionSeen
  <2>1. /\ run[q].seen[t].version =< rows[t].version
        /\ (run[q].seen[t].version = rows[t].version) =>
             run[q].seen[t].state = rows[t].state
    BY DEF Own, VersionSeen
  <2>2. /\ t \in DOMAIN rows /\ run[q].seen[t].version \in Nat /\ rows[t].version \in Nat
        /\ rows'[t].version \in Nat
    BY FinishTyped, <1>1 DEF Typed, Views
  <2>3. \/ rows'[t].state = rows[t].state /\ rows'[t].version = rows[t].version
        \/ rows'[t].version > rows[t].version
    BY <1>1, <2>2 DEF RowsMove
  <2>. QED
    BY <2>1, <2>2, <2>3
<1>8. ViewStands(q)'
  <2>. SUFFICES ASSUME NEW f \in Passed(q), NEW t \in DOMAIN rows,
                       Guarded(Steps(q), f, t), NoPuts(Steps(q), t, f, Latest(q))
                PROVE  Stands(t, run[q].seen[t].state, Row(q, t)'.state)
    BY <1>1 DEF ViewStands, Stands
  <2>1. Stands(t, run[q].seen[t].state, Row(q, t).state)
    BY DEF Own, ViewStands
  <2>. QED
    BY <1>1, <1>3, <2>1 DEF Row, Stands
<1>9. RowStands(q)'
  <2>. SUFFICES ASSUME NEW f \in Passed(q), NEW t \in DOMAIN rows,
                       Guarded(Steps(q), f, t), NoPuts(Steps(q), t, 1, f),
                       NoFinds(Steps(q), t, f + 1, Latest(q))
                PROVE  Stands(t, run[q].seen[t].state, rows'[t].state)
    BY <1>1, <1>3 DEF RowStands, Stands
  <2>1. Stands(t, run[q].seen[t].state, rows[t].state)
    BY DEF Own, RowStands
  <2>. QED
    BY <1>3, <2>1 DEF Stands
<1>10. VersionWritten(q)'
  <2>. SUFFICES ASSUME NEW w \in Passed(q), WritesExpected(q, w)
                PROVE  rows'[Steps(q)[w].table].version = ExpectedVersion
    BY <1>1 DEF VersionWritten, WritesExpected
  <2>1. Steps(q)[w].table \in DOMAIN run[q].dirty
    BY DEF Own, PutsDone, WritesExpected
  <2>. QED
    BY <1>2, <2>1 DEF Own, VersionWritten
<1>11. TakenOut(q)'
  BY <1>1 DEF Own, TakenOut
<1>. QED
  BY <1>4, <1>5, <1>6, <1>7, <1>8, <1>9, <1>10, <1>11 DEF Own

\* Nor does it matter to it that the other begins or goes on.
LEMMA SameOwn ==
  ASSUME NEW q \in Requests, run'[q] = run[q], rows' = rows, scene' = scene, Own(q)
  PROVE  Own(q)'
<1>1. Steps(q)' = Steps(q) /\ Passed(q)' = Passed(q) /\ Latest(q)' = Latest(q)
  BY DEF Passed, Latest, Steps, Op
<1>2. LocksTaken(q)' /\ RowsAdded(q)' /\ StatusRecorded(q)' /\ RowsSeen(q)'
  BY <1>1 DEF Own, LocksTaken, RowsAdded, StatusRecorded, RowsSeen
<1>3. ChecksPassed(q)' /\ PutsDone(q)' /\ WrittenBy(q)'
  BY <1>1 DEF Own, ChecksPassed, PutsDone, WrittenBy
<1>4. VersionSeen(q)' /\ VersionWritten(q)'
  BY <1>1 DEF Own, VersionSeen, VersionWritten, WritesExpected
<1>5. ViewStands(q)'
  BY <1>1 DEF Own, ViewStands, Row
<1>6. RowStands(q)' /\ TakenOut(q)'
  BY <1>1 DEF Own, RowStands, TakenOut
<1>. QED
  BY <1>2, <1>3, <1>4, <1>5, <1>6 DEF Own

-----------------------------------------------------------------------------
(* A request that is refused *)

\* Whoever has written has passed a step that writes.
LEMMA WroteByStep ==
  ASSUME Typed, NEW q \in Requests, Open(q), Own(q), Wrote(q)
  PROVE  \E j \in Passed(q) : WritesAt(Steps(q), j)
<1>1. CASE run[q].added # {}
  BY <1>1 DEF Own, RowsAdded, WritesAt
<1>2. CASE \E t \in DOMAIN run[q].dirty : ~Tidies(q, t)
  <2>1. PICK t \in DOMAIN run[q].dirty : ~Tidied(Steps(q), t)
    BY <1>2 DEF Tidies, Tidied
  <2>2. PICK j \in Passed(q) : PutsAt(Steps(q), j, t)
    BY DEF Own, WrittenBy
  <2>. QED
    BY <2>1, <2>2 DEF WritesAt, PutsAt
<1>. QED
  BY <1>1, <1>2 DEF Wrote

LEMMA DefaultOfActive ==
  DefaultIsActive <=>
    ({"defaultModel", "credential"} \subseteq DOMAIN rows
       /\ rows["defaultModel"].state = "present"
     => rows["credential"].state = "active")
  BY DEF DefaultIsActive, DefaultActive

LEMMA RefusalAnswers ==
  ASSUME Typed, NEW q \in Requests, NEW kind, Refuses(q, kind)
  PROVE  /\ Status(q, kind) # NoAnswer
         /\ kind \in DOMAIN Op(q).answers /\ Status(q, kind) = Op(q).answers[kind]
<1>1. run[q].at \in 1..Len(Steps(q)) /\ At(q) = Steps(q)[run[q].at]
  BY Shapes DEF Refuses, Typed, At
<1>2. RefusalKinds(At(q)) \subseteq DOMAIN Op(q).answers
  BY <1>1, Shapes DEF HasAnswers
<1>. QED
  BY <1>2, Shapes DEF HasAnswers, Refuses, Status

LEMMA ReturnsUnwritten ==
  ASSUME Typed, NEW q \in Requests, Own(q), DefaultIsActive,
         NEW kind, Refuses(q, kind), "throws" \notin DOMAIN At(q)
  PROVE  ~Wrote(q)
<1>. DEFINE s == Steps(q)
            n == run[q].at
            t == At(q).table
<1>1. /\ Open(q) /\ n \in 1..Len(s) /\ At(q) = s[n] /\ Passed(q) = 1..(n - 1)
      /\ Latest(q) = n - 1 /\ n \in Nat
  BY Shapes DEF Refuses, Typed, At, Passed, Latest
<1>2. RefusesFirst(Op(q)) /\ Op(q).steps = s
  BY Shapes
<1>3. \/ \A j \in 1..(n - 1) : ~WritesAt(s, j)
      \/ FoundFit(s, n) \/ AfterTheDefault(s, n)
  BY <1>1, <1>2 DEF RefusesFirst, Refuses
<1>4. CASE \A j \in 1..(n - 1) : ~WritesAt(s, j)
  BY <1>1, <1>4, WroteByStep
<1>5. CASE FoundFit(s, n)
  <2>1. PICK f \in 1..(n - 1), k \in 1..(n - 1) :
          /\ f < k /\ Guarded(s, f, t) /\ NoPuts(s, t, f, n - 1)
          /\ IsAt(s, k, t) /\ s[k].in \subseteq s[n].in /\ NoFinds(s, t, k, n - 1)
    BY <1>1, <1>5 DEF FoundFit
  <2>2. t \in DOMAIN rows
    BY <1>1, <1>5, StepShape DEF FoundFit
  <2>3. run[q].seen[t].state = Row(q, t).state
    BY <1>1, <1>5, <2>1, <2>2 DEF Own, ViewStands, Stands, FoundFit
  <2>4. run[q].seen[t].state \in s[k].in
    BY <1>1, <2>1, <2>2 DEF Own, ChecksPassed
  <2>5. Row(q, t).state \notin s[n].in
    BY <1>1, <1>5 DEF FoundFit, Refuses
  <2>. QED
    BY <2>1, <2>3, <2>4, <2>5
<1>6. CASE AfterTheDefault(s, n)
  <2>. SUFFICES ASSUME Wrote(q)
                PROVE  FALSE
    OBVIOUS
  <2>1. /\ t = "credential" /\ t \in DOMAIN rows /\ "active" \in s[n].in
        /\ Row(q, t).state \notin s[n].in
    BY <1>1, <1>6, StepShape DEF AfterTheDefault, Refuses
  <2>2. rows["credential"].state # "active"
    <3>1. \A i \in Passed(q) : ~PutsAt(s, i, t)
      BY <1>1, <1>6, <2>1 DEF AfterTheDefault, NoPuts
    <3>2. Row(q, t).state = rows[t].state
      BY <3>1, NotYetWritten DEF Own
    <3>. QED
      BY <2>1, <3>2
  <2>3. PICK u \in DOMAIN run[q].dirty : ~Tidied(s, u)
    <3>1. run[q].added = {}
      BY <1>1, <1>6 DEF Own, RowsAdded, AddsAt, AfterTheDefault, WritesAt
    <3>. QED
      BY <3>1 DEF Wrote, Tidies, Tidied
  <2>4. PICK i \in Passed(q) : PutsAt(s, i, u) /\ rows[u].state \in s[i].in
    BY DEF Own, WrittenBy
  <2>5. WritesAt(s, i)
    BY <2>3, <2>4 DEF WritesAt, PutsAt
  <2>6. u = "defaultModel" /\ rows[u].state = "present"
    BY <1>1, <1>6, <2>4, <2>5 DEF AfterTheDefault, PutsAt
  <2>7. u \in DOMAIN rows
    BY DEF Typed, Views
  <2>. QED
    BY <2>1, <2>2, <2>6, <2>7, DefaultOfActive
<1>. QED
  BY <1>3, <1>4, <1>5, <1>6

-----------------------------------------------------------------------------
(* The default model *)

LEMMA CommitDefault ==
  ASSUME Typed, NEW q \in Requests, Own(q), DefaultIsActive, Ready(q), Apply(q)
  PROVE  DefaultIsActive'
<1>. DEFINE s == Steps(q)
            d == "defaultModel"
            c == "credential"
<1>. SUFFICES ASSUME d \in DOMAIN rows, c \in DOMAIN rows, Row(q, d).state = "present"
              PROVE  Row(q, c).state = "active"
  <2>1. DefaultIsActive' <=>
          ({"defaultModel", "credential"} \subseteq DOMAIN rows'
             /\ rows'["defaultModel"].state = "present"
           => rows'["credential"].state = "active")
    BY DEF DefaultIsActive, DefaultActive
  <2>. QED
    BY <2>1, Applied
<1>1. KeepsDefault(Op(q)) /\ Op(q).steps = s
  BY Shapes
<1>2. Passed(q) = 1..Len(s) /\ Latest(q) = Len(s)
  BY ReadyPassed
<1>3. ASSUME NEW t \in DOMAIN rows, NEW states, FindsIn(s, t, states),
             t # d \/ "absent" \in states
      PROVE  Row(q, t).state \in states
  <2>1. PICK f \in 1..Len(s), k \in 1..Len(s) :
          /\ f < k /\ Guarded(s, f, t) /\ NoPuts(s, t, f, Len(s))
          /\ IsAt(s, k, t) /\ s[k].in \subseteq states /\ NoFinds(s, t, k, Len(s))
    BY <1>3 DEF FindsIn
  <2>2. Stands(t, run[q].seen[t].state, Row(q, t).state)
    BY <1>2, <2>1 DEF Own, ViewStands
  <2>3. run[q].seen[t].state \in s[k].in
    BY <1>2, <2>1 DEF Own, ChecksPassed
  <2>. QED
    BY <1>3, <2>1, <2>2, <2>3 DEF Stands
<1>4. CASE \E i \in 1..Len(s) : PutsAt(s, i, d) /\ s[i].to # "absent"
  <2>1. FindsIn(s, c, {"active"})
    BY <1>1, <1>4 DEF KeepsDefault
  <2>. QED
    BY <1>3, <2>1
<1>5. CASE ~\E i \in 1..Len(s) : PutsAt(s, i, d) /\ s[i].to # "absent"
  <2>1. d \notin DOMAIN run[q].dirty
    <3>. SUFFICES ASSUME d \in DOMAIN run[q].dirty
                  PROVE  FALSE
      OBVIOUS
    <3>1. PICK i \in Passed(q) : PutsAt(s, i, d) /\ s[i].to \in {run[q].dirty[d].state, Same}
      BY DEF Own, WrittenBy
    <3>2. s[i].to = "absent"
      BY <1>2, <1>5, <3>1
    <3>3. run[q].dirty[d].state = "present"
      BY DEF Row
    <3>. QED
      BY <3>1, <3>2, <3>3 DEF Same
  <2>2. rows[c].state = "active"
    BY <2>1, DefaultOfActive DEF Row
  <2>3. CASE c \notin DOMAIN run[q].dirty
    BY <2>2, <2>3 DEF Row
  <2>4. CASE c \in DOMAIN run[q].dirty /\ Preserved(s, c)
    BY <2>2, <2>4 DEF Row, Own, WrittenBy
  <2>5. CASE ~Preserved(s, c)
    <3>1. FindsIn(s, d, {"absent"})
      BY <1>1, <2>5 DEF KeepsDefault
    <3>. QED
      BY <1>3, <3>1
  <2>. QED
    BY <2>3, <2>4, <2>5
<1>. QED
  BY <1>4, <1>5

\* What is only tidied up is neither.
LEMMA UnwrittenDefault ==
  ASSUME Typed, NEW q \in Requests, Own(q), DefaultIsActive, ~Wrote(q), Apply(q)
  PROVE  DefaultIsActive'
<1>1. ASSUME NEW t \in DOMAIN rows, t \in DOMAIN Guard
      PROVE  Row(q, t).state = rows[t].state
  BY <1>1, GuardedChange DEF Row, Own
<1>2. {"defaultModel", "credential"} \subseteq DOMAIN Guard
  BY DEF Guard
<1>3. DefaultIsActive' <=>
        ({"defaultModel", "credential"} \subseteq DOMAIN rows'
           /\ rows'["defaultModel"].state = "present"
         => rows'["credential"].state = "active")
  BY DEF DefaultIsActive, DefaultActive
<1>. QED
  BY <1>1, <1>2, <1>3, Applied, DefaultOfActive

-----------------------------------------------------------------------------
(* Ends *)

LEMMA FinishInv ==
  ASSUME CommandInv, NEW q \in Requests, Finishes(q)
  PROVE  /\ Typed' /\ Fresh' /\ Serial' /\ Apart'
         /\ scene.kind = "retry" => KeyFree'
         /\ \A p \in Requests : Open(p)' => Own(p)'
<1>1. /\ Typed /\ Fresh /\ Serial /\ Apart
      /\ ~Open(q)' /\ (Open(Other(q))' <=> Open(Other(q)))
      /\ run'[Other(q)] = run[Other(q)] /\ run'[q].pc = "over" /\ run'[q].locks = {}
      /\ run'[q].dirty = run[q].dirty /\ scene' = scene /\ Open(q)
  BY DEF CommandInv, Finishes, SameRun, Open
<1>2. Fresh'
  <2>1. ASSUME NEW p \in Requests, run'[p].pc = "new"
        PROVE  p = Other(q)
    BY <1>1, <2>1, TwoRequests
  <2>. QED
    BY <1>1, <2>1 DEF Fresh
<1>3. Serial'
  BY <1>1 DEF Serial, Open, Requests, Other
<1>4. Apart'
  <2>1. \A p \in Requests : ~Open(p)' => run'[p].locks = {}
    BY <1>1, TwoRequests DEF Apart
  <2>2. run'[1].locks \cap run'[2].locks = {}
    BY <1>1 DEF Requests, Other
  <2>3. ~(Open(1)' /\ Open(2)')
    BY <1>1 DEF Open, Requests, Other
  <2>. QED
    BY <2>1, <2>2, <2>3 DEF Apart
<1>5. ASSUME NEW p \in Requests, Open(p)'
      PROVE  Own(p)' /\ p = Other(q)
  <2>1. p = Other(q) /\ Open(p)
    BY <1>1, <1>5, TwoRequests
  <2>2. Own(p)
    BY <2>1 DEF CommandInv
  <2>. QED
    BY <1>1, <2>1, <2>2, FinishOwn
<1>6. KeyFree' \/ scene.kind # "retry"
  <2>. SUFFICES ASSUME scene.kind = "retry", NEW p \in Requests, Open(p)'
                PROVE  FALSE
    BY DEF KeyFree
  <2>1. p = Other(q) /\ Open(p)
    BY <1>1, <1>5
  <2>. QED
    BY <1>1, <2>1 DEF Serial, KeyOf, Requests, Other
<1>. QED
  BY <1>1, <1>2, <1>3, <1>4, <1>5, <1>6, FinishTyped

\* The answer of a request that ends is one, and success where it had effect.
LEMMA FinishAnswer ==
  ASSUME CommandInv, NEW q \in Requests, Finishes(q),
         run'[q].answer # NoAnswer, effects' \subseteq effects \cup {q},
         q \in effects' => run'[q].answer \in {Op(q).ok, Unknown}
  PROVE  EmptyRefusals' /\ EffectsOver'
<1>1. /\ run'[Other(q)] = run[Other(q)] /\ run'[q].pc = "over" /\ scene' = scene
      /\ \A p \in Requests : Op(p)' = Op(p)
  BY DEF Finishes, SameRun, Op
<1>2. EmptyRefusals'
  <2>. SUFFICES ASSUME NEW p \in Requests, run'[p].pc = "over"
                PROVE  /\ run'[p].answer # NoAnswer
                       /\ p \in effects' => run'[p].answer \in {Op(p).ok, Unknown}
    BY <1>1 DEF EmptyRefusals, Answered, Done
  <2>1. CASE p = q
    BY <2>1
  <2>2. CASE p = Other(q)
    BY <1>1, <2>2, TwoRequests DEF CommandInv, EmptyRefusals, Answered, Done
  <2>. QED
    BY <2>1, <2>2, TwoRequests
<1>3. EffectsOver'
  <2>1. ASSUME NEW p \in Requests, p \in effects' \/ run'[p].replayed
        PROVE  run'[p].pc = "over"
    <3>1. CASE p = q
      BY <1>1, <3>1
    <3>2. CASE p = Other(q)
      BY <1>1, <2>1, <3>2, TwoRequests DEF CommandInv, EffectsOver
    <3>. QED
      BY <3>1, <3>2, TwoRequests
  <2>. QED
    BY <2>1 DEF EffectsOver
<1>. QED
  BY <1>2, <1>3

-----------------------------------------------------------------------------
(* Retries *)

LEMMA RetryShape ==
  ASSUME Typed, scene.kind = "retry", NEW p \in Requests, NEW q \in Requests
  PROVE  KeyOf(q) = 1 /\ Steps(p) = Steps(q) /\ Op(p) = Op(q)
<1>1. scene.ops[1] = scene.ops[2]
  BY ScenarioAssumption DEF Typed
<1>2. scene.ops[p] = scene.ops[q]
  BY <1>1 DEF Requests
<1>. QED
  BY <1>2 DEF KeyOf, Steps, Op

\* Nothing that is recorded, written or answered changes.
LEMMA RetryQuiet ==
  ASSUME Typed, scene.kind = "retry", EffectsOver, KeyKept, KeyTold, ReplayTold,
         VersionTaken, OutTaken, OnceOnly,
         NEW q \in Requests, run[q].pc # "over", run'[Other(q)] = run[Other(q)],
         run'[q].matches = run[q].matches, run'[q].replayed = run[q].replayed,
         UNCHANGED <<scene, rows, keys, effects>>
  PROVE  KeyKept' /\ KeyTold' /\ ReplayTold' /\ VersionTaken' /\ OutTaken' /\ OnceOnly'
<1>1. /\ \A p \in Requests : Steps(p)' = Steps(p) /\ Op(p)' = Op(p)
      /\ \A p \in Requests : run'[p].matches = run[p].matches
  BY TwoRequests DEF Steps, Op
<1>2. KeyKept'
  BY <1>1 DEF KeyKept, Typed
<1>3. KeyTold'
  <2>. SUFFICES ASSUME keys[1] # NoAnswer
                PROVE  KeyTold'
    BY DEF KeyTold
  <2>1. PICK p \in Requests : /\ run[p].pc = "over" /\ ~run[p].replayed
                              /\ run[p].answer \in {keys[1], Unknown}
                              /\ (keys[1] = Op(p).ok) => p \in effects
    BY DEF KeyTold
  <2>2. p = Other(q)
    BY <2>1, TwoRequests
  <2>3. run'[p] = run[p] /\ Op(p)' = Op(p)
    BY <1>1, <2>2
  <2>. QED
    BY <2>1, <2>3 DEF KeyTold
<1>4. \A p \in Requests : ~run'[p].replayed
  <2>1. ~run[q].replayed
    BY DEF EffectsOver
  <2>2. ~run[Other(q)].replayed
    BY TwoRequests DEF ReplayTold
  <2>. QED
    BY <2>1, <2>2, TwoRequests
<1>5. ReplayTold'
  BY <1>4 DEF ReplayTold
<1>6. VersionTaken' /\ OutTaken'
  BY <1>1 DEF VersionTaken, OutTaken, Typed
<1>7. OnceOnly'
  BY <1>1 DEF OnceOnly, Requests
<1>. QED
  BY <1>2, <1>3, <1>5, <1>6, <1>7

\* The record of the key answers.
LEMMA RetryAgain ==
  ASSUME Typed, scene.kind = "retry", EffectsOver, KeyKept, KeyTold, ReplayTold,
         VersionTaken, OutTaken, OnceOnly, NEW q \in Requests, AnswersAgain(q)
  PROVE  KeyKept' /\ KeyTold' /\ ReplayTold' /\ VersionTaken' /\ OutTaken' /\ OnceOnly'
<1>1. /\ run'[Other(q)] = run[Other(q)] /\ run'[q].matches = run[q].matches
      /\ UNCHANGED <<scene, rows, keys, effects>> /\ run[q].pc = "open"
      /\ run'[q].replayed = TRUE /\ run'[q].answer = keys[KeyOf(q)]
      /\ keys[KeyOf(q)] # NoAnswer /\ KeyOf(q) = 1
  BY RetryShape DEF AnswersAgain, SameRun, Open
<1>2. /\ \A p \in Requests : Steps(p)' = Steps(p) /\ Op(p)' = Op(p)
      /\ \A p \in Requests : run'[p].matches = run[p].matches
  BY <1>1, TwoRequests DEF Steps, Op
<1>3. PICK p \in Requests : /\ run[p].pc = "over" /\ ~run[p].replayed
                            /\ run[p].answer \in {keys[1], Unknown}
                            /\ (keys[1] = Op(p).ok) => p \in effects
  BY <1>1 DEF KeyTold
<1>4. p = Other(q) /\ run'[p] = run[p] /\ Op(p)' = Op(p) /\ Op(p) = Op(q)
  BY <1>1, <1>2, <1>3, TwoRequests, RetryShape
<1>5. KeyKept'
  BY <1>1, <1>2 DEF KeyKept, Typed
<1>6. KeyTold'
  BY <1>1, <1>3, <1>4 DEF KeyTold
<1>7. ReplayTold'
  <2>1. ~run'[Other(q)].replayed
    BY <1>3, <1>4
  <2>2. q \notin effects
    BY <1>1 DEF EffectsOver
  <2>3. run'[q].answer = Op(q).ok => Other(q) \in effects
    BY <1>1, <1>3, <1>4
  <2>4. run'[q].answer = run'[Other(q)].answer \/ run'[Other(q)].answer = Unknown
    BY <1>1, <1>3, <1>4
  <2>5. run'[Other(q)].pc = "over"
    BY <1>3, <1>4
  <2>. SUFFICES ASSUME NEW r \in Requests, run'[r].replayed
                PROVE  /\ r \notin effects
                       /\ run'[Other(r)].pc = "over" /\ ~run'[Other(r)].replayed
                       /\ \/ run'[r].answer = run'[Other(r)].answer
                          \/ run'[Other(r)].answer = Unknown
                       /\ run'[r].answer = Op(r).ok => Other(r) \in effects
    BY <1>1, <1>2 DEF ReplayTold, Done, Answered
  <2>6. r = q
    BY <2>1, TwoRequests
  <2>. QED
    BY <2>1, <2>2, <2>3, <2>4, <2>5, <2>6
<1>8. VersionTaken' /\ OutTaken'
  BY <1>1, <1>2 DEF VersionTaken, OutTaken, Typed
<1>9. OnceOnly'
  BY <1>1, <1>2 DEF OnceOnly, Requests
<1>. QED
  BY <1>5, <1>6, <1>7, <1>8, <1>9

\* Where rows move, versions grow; and a row that is taken out stays so, unless it
\* is written.
LEMMA RetryRows ==
  ASSUME Typed, scene.kind = "retry", VersionTaken, NEW q \in Requests, Finishes(q)
  PROVE  \A p \in effects : \A w \in 1..Len(Steps(p)) :
           NamesVersionAt(Steps(p), w) => rows'[Steps(p)[w].table].version > ExpectedVersion
<1>. SUFFICES ASSUME NEW p \in effects, NEW w \in 1..Len(Steps(p)),
                     NamesVersionAt(Steps(p), w)
              PROVE  rows'[Steps(p)[w].table].version > ExpectedVersion
  OBVIOUS
<1>. DEFINE t == Steps(p)[w].table
<1>1. p \in Requests
  BY DEF Typed
<1>2. t \in DOMAIN rows
  BY <1>1, StepShape DEF NamesVersionAt
<1>3. rows[t].version > ExpectedVersion /\ rows[t].version \in Nat
  BY <1>2 DEF VersionTaken, Typed
<1>4. rows'[t].version = rows[t].version \/ rows'[t].version > rows[t].version
  BY <1>2 DEF Finishes, RowsMove
<1>5. rows'[t].version \in Nat
  BY <1>2, FinishTyped DEF Typed, Finishes, RowsMove
<1>. QED
  BY <1>3, <1>4, <1>5 DEF ExpectedVersion

\* A refusal that is returned may be recorded; it is no success.
LEMMA RetryReturn ==
  ASSUME Typed, scene.kind = "retry", EffectsOver, KeyKept, KeyTold, ReplayTold,
         VersionTaken, OutTaken, OnceOnly, NEW q \in Requests, Finishes(q),
         NEW kind, run[q].at =< Len(Steps(q)), kind \in DOMAIN Op(q).answers,
         Status(q, kind) # NoAnswer, Status(q, kind) = Op(q).answers[kind],
         run'[q].answer = Status(q, kind), run'[q].replayed = run[q].replayed,
         \A t \in DOMAIN run[q].dirty : \A f, k, w \in 1..Len(Steps(q)) :
           TakesOutAt(Steps(q), t, f, k, w) => run[q].dirty[t].state = Steps(q)[w].to,
         effects' = effects,
         keys' = IF Keeps(q) THEN [keys EXCEPT ![KeyOf(q)] = Status(q, kind)] ELSE keys
  PROVE  KeyKept' /\ KeyTold' /\ ReplayTold' /\ VersionTaken' /\ OutTaken' /\ OnceOnly'
<1>1. /\ run'[Other(q)] = run[Other(q)] /\ run'[q].matches = run[q].matches
      /\ scene' = scene /\ run[q].pc = "open" /\ run'[q].pc = "over" /\ KeyOf(q) = 1
      /\ DOMAIN keys = Requests /\ 1 \in Requests
  BY RetryShape DEF Finishes, SameRun, Open, Typed, Requests
<1>2. /\ \A p \in Requests : Steps(p)' = Steps(p) /\ Op(p)' = Op(p)
      /\ \A p \in Requests : run'[p].matches = run[p].matches
  BY <1>1, TwoRequests DEF Steps, Op
<1>3. Status(q, kind) # NoAnswer /\ kind \in DOMAIN Op(q).answers
      /\ Status(q, kind) = Op(q).answers[kind]
  OBVIOUS
<1>4. keys'[1] = IF Keeps(q) THEN Status(q, kind) ELSE keys[1]
  BY <1>1
<1>5. KeyKept'
  BY <1>2, <1>3, <1>4 DEF KeyKept, Typed
<1>6. \A p \in Requests : ~run'[p].replayed
  <2>1. ~run[q].replayed
    BY <1>1 DEF EffectsOver
  <2>2. ~run[Other(q)].replayed
    BY <1>1, TwoRequests DEF ReplayTold
  <2>. QED
    BY <1>1, <2>1, <2>2, TwoRequests
<1>7. KeyTold'
  <2>1. CASE Keeps(q)
    <3>1. Replays(Steps(q))
      <4>1. PICK i \in 1..(run[q].at - 1) : Steps(q)[i].do = "replay"
        BY <2>1 DEF Keeps
      <4>2. i \in 1..Len(Steps(q))
        BY Shapes DEF Typed
      <4>. QED
        BY <4>1, <4>2 DEF Replays, ReplaysAt
    <3>2. Recorded(Op(q))
      BY <3>1, Shapes DEF MayBeRetried
    <3>3. Op(q).answers[kind] # Op(q).ok
      BY <1>3, <3>2 DEF Recorded
    <3>. QED
      BY <1>1, <1>2, <1>3, <1>4, <1>6, <2>1, <3>3 DEF KeyTold
  <2>2. CASE ~Keeps(q)
    <3>. SUFFICES ASSUME keys[1] # NoAnswer
                  PROVE  KeyTold'
      BY <1>4, <2>2 DEF KeyTold
    <3>1. PICK p \in Requests : /\ run[p].pc = "over" /\ ~run[p].replayed
                                /\ run[p].answer \in {keys[1], Unknown}
                                /\ (keys[1] = Op(p).ok) => p \in effects
      BY DEF KeyTold
    <3>2. p = Other(q)
      BY <1>1, <3>1, TwoRequests
    <3>3. run'[p] = run[p] /\ Op(p)' = Op(p)
      BY <1>1, <1>2, <3>2
    <3>. QED
      BY <1>4, <2>2, <3>1, <3>3 DEF KeyTold
  <2>. QED
    BY <2>1, <2>2
<1>8. ReplayTold'
  BY <1>6 DEF ReplayTold
<1>9. VersionTaken'
  BY <1>2, RetryRows DEF VersionTaken, Typed
<1>10. OutTaken'
  <2>1. ASSUME NEW p \in effects, NEW t \in DOMAIN rows, NEW f \in 1..Len(Steps(p)),
               NEW k \in 1..Len(Steps(p)), NEW w \in 1..Len(Steps(p)),
               TakesOutAt(Steps(p), t, f, k, w)
        PROVE  rows'[t].state = Steps(p)[w].to
    <3>1. Steps(p) = Steps(q)
      BY RetryShape DEF Typed
    <3>2. rows[t].state = Steps(p)[w].to
      BY <2>1 DEF OutTaken
    <3>3. t \in DOMAIN run[q].dirty => run[q].dirty[t].state = Steps(p)[w].to
      BY <2>1, <3>1
    <3>. QED
      BY <3>2, <3>3 DEF Finishes, RowsMove
  <2>2. DOMAIN rows' = DOMAIN rows
    BY DEF Finishes, RowsMove
  <2>. QED
    BY <1>2, <2>1, <2>2 DEF OutTaken, Typed
<1>11. OnceOnly'
  BY <1>2 DEF OnceOnly, Requests
<1>. QED
  BY <1>5, <1>7, <1>8, <1>9, <1>10, <1>11

\* The record of what it writes is written with it.
LEMMA CommitRecord ==
  ASSUME Typed, NEW q \in Requests, Own(q), Ready(q)
  PROVE  IF Replays(Steps(q)) THEN run[q].recorded = Op(q).ok /\ Wrote(q)
         ELSE run[q].recorded = NoAnswer
<1>. DEFINE s == Steps(q)
<1>1. /\ Op(q).steps = s /\ MayBeRetried(Op(q)) /\ Passed(q) = 1..Len(s)
      /\ StatusRecorded(q) /\ RowsAdded(q) /\ PutsDone(q)
  BY Shapes, ReadyPassed DEF Own
<1>2. CASE Replays(s)
  <2>1. Recorded(Op(q))
    BY <1>1, <1>2 DEF MayBeRetried
  <2>2. run[q].recorded = Op(q).ok
    BY <1>1, <2>1 DEF Recorded, StatusRecorded
  <2>3. PICK i \in 1..Len(s) : MustWriteAt(s, i)
    BY <1>1, <2>1 DEF Recorded
  <2>4. ASSUME AddsAt(s, i)
        PROVE  Wrote(q)
    BY <1>1, <2>4 DEF RowsAdded, Wrote
  <2>5. ASSUME ~AddsAt(s, i)
        PROVE  Wrote(q)
    <3>1. s[i].table \in DOMAIN run[q].dirty /\ ~Tidied(s, s[i].table)
      BY <1>1, <2>3, <2>5 DEF MustWriteAt, PutsDone
    <3>. QED
      BY <3>1 DEF Wrote, Tidies, Tidied
  <2>6. Wrote(q)
    BY <2>4, <2>5
  <2>. QED
    BY <1>2, <2>2, <2>6
<1>3. CASE ~Replays(s)
  BY <1>1, <1>3 DEF MayBeRetried, StatusRecorded
<1>. QED
  BY <1>2, <1>3

\* Who commits after the other has taken effect has no key and names no version
\* the other has not changed.
LEMMA CommitOnce ==
  ASSUME Typed, scene.kind = "retry", KeyFree, KeyKept, VersionTaken, OutTaken,
         NEW q \in Requests, Own(q), Ready(q), Wrote(q), Other(q) \in effects
  PROVE  NamesVersion(Steps(q)) /\ ~Replays(Steps(q)) /\ ~run[q].matches
<1>. DEFINE s == Steps(q)
            o == Other(q)
<1>1. /\ Op(q).steps = s /\ MayBeRetried(Op(q)) /\ Passed(q) = 1..Len(s)
      /\ Latest(q) = Len(s) /\ Len(s) \in Nat /\ Open(q) /\ o \in Requests
      /\ Steps(o) = s
  BY Shapes, ReadyPassed, TwoRequests, RetryShape
<1>2. ~Replays(s)
  <2>. SUFFICES ASSUME Replays(s)
                PROVE  FALSE
    OBVIOUS
  <2>1. Past(q, "replay")
    BY <1>1 DEF Past, Passed, Replays, ReplaysAt
  <2>. QED
    BY <1>1, <2>1 DEF KeyFree, KeyKept
<1>3. NamesVersion(s)
  <2>. SUFFICES ASSUME ~NamesVersion(s)
                PROVE  FALSE
    OBVIOUS
  <2>1. Writes(s)
    BY <1>1, WroteByStep DEF Writes
  <2>2. PICK t \in Tables : \E f, k, w \in 1..Len(s) : TakesOutAt(s, t, f, k, w)
    BY <1>1, <1>2, <2>1 DEF MayBeRetried, TakesOut
  <2>3. PICK f \in 1..Len(s), k \in 1..Len(s), w \in 1..Len(s) :
          TakesOutAt(s, t, f, k, w)
    BY <2>2
  <2>4. /\ FindsAt(s, f, t) /\ IsAt(s, k, t) /\ f < k /\ k < w /\ s[w].to \notin s[k].in
        /\ PutsAt(s, w, t)
        /\ \A j \in 1..Len(s) : (PutsAt(s, j, t) => j = w) /\ (FindsAt(s, j, t) => j = f)
    BY <2>3 DEF TakesOutAt
  <2>5. t \in DOMAIN rows
    BY <2>4, StepShape DEF PutsAt
  <2>6. /\ NoFinds(s, t, k, Len(s)) /\ NoFinds(s, t, f + 1, Len(s)) /\ NoPuts(s, t, 1, f)
    BY <1>1, <2>4 DEF NoFinds, NoPuts
  <2>7. run[q].seen[t].state \in s[k].in
    BY <1>1, <2>4, <2>5, <2>6 DEF Own, ChecksPassed
  <2>8. run[q].seen[t].state = rows[t].state
    BY <1>1, <2>4, <2>5, <2>6 DEF Own, RowStands
  <2>9. rows[t].state = s[w].to
    BY <1>1, <2>3, <2>5 DEF OutTaken
  <2>. QED
    BY <2>4, <2>7, <2>8, <2>9
<1>4. ~run[q].matches
  <2>. SUFFICES ASSUME run[q].matches
                PROVE  FALSE
    OBVIOUS
  <2>1. PICK w \in 1..Len(s) : NamesVersionAt(s, w)
    BY <1>3 DEF NamesVersion
  <2>2. rows[s[w].table].version = ExpectedVersion
    BY <1>1, <2>1 DEF Own, VersionWritten, WritesExpected, NamesVersionAt
  <2>3. rows[s[w].table].version > ExpectedVersion
    BY <1>1, <2>1 DEF VersionTaken
  <2>. QED
    BY <2>2, <2>3 DEF ExpectedVersion
<1>. QED
  BY <1>2, <1>3, <1>4

LEMMA RetryCommit ==
  ASSUME Typed, scene.kind = "retry", EffectsOver, KeyFree, KeyKept, KeyTold, ReplayTold,
         VersionTaken, OutTaken, NEW q \in Requests, Finishes(q), Own(q), Ready(q),
         Apply(q), run'[q].replayed = run[q].replayed,
         run'[q].answer \in {Op(q).ok, Unknown},
         keys' = IF run[q].recorded = NoAnswer THEN keys
                 ELSE [keys EXCEPT ![KeyOf(q)] = run[q].recorded]
  PROVE  KeyKept' /\ KeyTold' /\ ReplayTold' /\ VersionTaken' /\ OutTaken'
<1>. DEFINE s == Steps(q)
<1>1. /\ run'[Other(q)] = run[Other(q)] /\ run'[q].matches = run[q].matches
      /\ scene' = scene /\ run[q].pc = "open" /\ run'[q].pc = "over" /\ KeyOf(q) = 1
      /\ DOMAIN keys = Requests /\ 1 \in Requests /\ q \notin effects
      /\ DOMAIN rows' = DOMAIN rows /\ effects \subseteq Requests
  BY RetryShape DEF Finishes, SameRun, Open, Typed, Requests, EffectsOver, RowsMove
<1>2. /\ \A p \in Requests : Steps(p)' = Steps(p) /\ Op(p)' = Op(p) /\ Steps(p) = s
      /\ \A p \in Requests : run'[p].matches = run[p].matches
      /\ effects' = IF Wrote(q) THEN effects \cup {q} ELSE effects
  BY <1>1, TwoRequests, RetryShape, Applied DEF Steps, Op
<1>3. IF Replays(s) THEN run[q].recorded = Op(q).ok /\ Wrote(q)
      ELSE run[q].recorded = NoAnswer
  BY CommitRecord
<1>4. Op(q).ok # NoAnswer
  BY Shapes DEF HasAnswers
<1>5. keys'[1] = IF Replays(s) THEN Op(q).ok ELSE keys[1]
  BY <1>1, <1>3, <1>4
<1>6. KeyKept'
  BY <1>1, <1>2, <1>4, <1>5 DEF KeyKept
<1>7. \A p \in Requests : ~run'[p].replayed
  <2>1. ~run[q].replayed
    BY <1>1 DEF EffectsOver
  <2>2. ~run[Other(q)].replayed
    BY <1>1, TwoRequests DEF ReplayTold
  <2>. QED
    BY <1>1, <2>1, <2>2, TwoRequests
<1>8. KeyTold'
  <2>1. CASE Replays(s)
    BY <1>1, <1>2, <1>3, <1>5, <1>7, <2>1 DEF KeyTold
  <2>2. CASE ~Replays(s)
    <3>. SUFFICES ASSUME keys[1] # NoAnswer
                  PROVE  KeyTold'
      BY <1>5, <2>2 DEF KeyTold
    <3>1. PICK p \in Requests : /\ run[p].pc = "over" /\ ~run[p].replayed
                                /\ run[p].answer \in {keys[1], Unknown}
                                /\ (keys[1] = Op(p).ok) => p \in effects
      BY DEF KeyTold
    <3>2. p = Other(q)
      BY <1>1, <3>1, TwoRequests
    <3>3. run'[p] = run[p] /\ Op(p)' = Op(p) /\ effects \subseteq effects'
      BY <1>1, <1>2, <3>2
    <3>. QED
      BY <1>5, <2>2, <3>1, <3>3 DEF KeyTold
  <2>. QED
    BY <2>1, <2>2
<1>9. ReplayTold'
  BY <1>7 DEF ReplayTold
<1>10. VersionTaken'
  <2>1. ASSUME NEW w \in 1..Len(s), NamesVersionAt(s, w)
        PROVE  rows'[s[w].table].version > ExpectedVersion
    <3>1. s[w].table \in DOMAIN run[q].dirty
      BY <2>1, ReadyPassed DEF Own, PutsDone, NamesVersionAt
    <3>2. /\ s[w].table \in DOMAIN rows
          /\ run[q].dirty[s[w].table].version > rows[s[w].table].version
          /\ rows[s[w].table].version \in Nat
          /\ run[q].dirty[s[w].table].version \in Nat
      BY <3>1 DEF Own, WrittenBy, Typed, Views
    <3>3. rows'[s[w].table].version = run[q].dirty[s[w].table].version
      BY <3>1, <3>2, Applied DEF Row
    <3>. QED
      BY <3>2, <3>3 DEF ExpectedVersion
  <2>2. effects' \subseteq Requests
    BY <1>1, <1>2
  <2>. QED
    BY <1>2, <2>1, <2>2 DEF VersionTaken
<1>11. OutTaken'
  <2>1. ASSUME NEW t \in DOMAIN rows, NEW f \in 1..Len(s), NEW k \in 1..Len(s),
               NEW w \in 1..Len(s), TakesOutAt(s, t, f, k, w)
        PROVE  rows'[t].state = s[w].to
    <3>1. t \in DOMAIN run[q].dirty /\ run[q].dirty[t].state = s[w].to
      BY <2>1, ReadyPassed DEF Own, TakenOut
    <3>. QED
      BY <3>1, Applied DEF Row
  <2>2. effects' \subseteq Requests
    BY <1>1, <1>2
  <2>. QED
    BY <1>1, <1>2, <2>1, <2>2 DEF OutTaken
<1>. QED
  BY <1>6, <1>8, <1>9, <1>10, <1>11

-----------------------------------------------------------------------------
(* The invariant is inductive *)

LEMMA Starts ==
  CommandInit => CommandInv
<1>. SUFFICES ASSUME CommandInit
              PROVE  CommandInv
  OBVIOUS
<1>1. /\ scene \in Scenarios /\ DOMAIN rows = Involved(scene) /\ effects = {}
      /\ keys = [q \in Requests |-> NoAnswer] /\ DefaultIsActive
      /\ \A t \in DOMAIN rows : rows[t].state \in RowStates[t] /\ rows[t].version = 0
  <2>1. PICK start \in [Involved(scene) -> UNION {RowStates[t] : t \in Tables}] :
          /\ \A t \in Involved(scene) : start[t] \in RowStates[t]
          /\ DefaultActive(start)
          /\ rows = [t \in Involved(scene) |->
                       [state |-> start[t], version |-> 0, added |-> 0]]
    BY DEF CommandInit
  <2>2. [t \in DOMAIN rows |-> rows[t].state] = start
    BY <2>1
  <2>3. DefaultIsActive
    BY <2>1, <2>2 DEF DefaultIsActive
  <2>. QED
    BY <2>1, <2>3 DEF CommandInit
<1>2. PICK m \in [Requests -> BOOLEAN] :
        /\ \A q \in Requests : m[q] => Conditional(q)
        /\ run = [q \in Requests |-> NewRun(m[q])]
  BY DEF CommandInit
<1>3. \A q \in Requests :
        /\ DOMAIN run[q] = RunFields /\ run[q].pc = "new" /\ run[q].at = 1
        /\ run[q].matches = m[q] /\ run[q].seen = Nothing /\ run[q].dirty = Nothing
        /\ run[q].added = {} /\ run[q].locks = {} /\ run[q].recorded = NoAnswer
        /\ run[q].replayed = FALSE
  BY <1>2 DEF NewRun, RunFields
<1>4. Typed
  <2>1. \A q \in Requests : Len(Steps(q)) \in Nat
    <3>1. \A q \in Requests : scene.ops[q] \in DOMAIN Operations
      BY <1>1, ScenarioAssumption
    <3>. QED
      BY <3>1, CatalogueAssumption DEF Steps, Op, WellFormed
  <2>2. DOMAIN Nothing = {}
    BY DEF Nothing
  <2>3. \A q \in Requests : Views(run[q].seen) /\ Views(run[q].dirty)
    BY <1>3, <2>2 DEF Views
  <2>4. \A q \in Requests : /\ run[q].at =< Len(Steps(q)) + 1
                            /\ run[q].matches \in BOOLEAN
                            /\ run[q].matches => Conditional(q)
    BY <1>2, <1>3, <2>1
  <2>5. DOMAIN keys = Requests /\ DOMAIN run = Requests /\ effects \subseteq Requests
    BY <1>1, <1>2
  <2>6. \A t \in DOMAIN rows : rows[t].state \in RowStates[t] /\ rows[t].version \in Nat
    BY <1>1
  <2>7. \A q \in Requests :
          /\ DOMAIN run[q] = RunFields /\ run[q].pc \in {"new", "open", "over"}
          /\ run[q].at \in Nat \ {0} /\ {run[q].matches, run[q].replayed} \subseteq BOOLEAN
    <3>. SUFFICES ASSUME NEW q \in Requests
                  PROVE  /\ DOMAIN run[q] = RunFields
                         /\ run[q].pc \in {"new", "open", "over"}
                         /\ run[q].at \in Nat \ {0}
                         /\ run[q].matches \in BOOLEAN /\ run[q].replayed \in BOOLEAN
      OBVIOUS
    <3>1. DOMAIN run[q] = RunFields /\ run[q].pc = "new" /\ run[q].at = 1
      BY <1>3
    <3>2. run[q].at \in Nat \ {0}
      BY <3>1
    <3>3. run[q].replayed \in BOOLEAN
      <4>1. run[q].replayed = FALSE
        BY <1>3
      <4>. QED
        BY ONLY <4>1, Zenon
    <3>. QED
      BY <2>4, <3>1, <3>2, <3>3, Zenon
  <2>. QED
    BY <1>1, <2>3, <2>4, <2>5, <2>6, <2>7 DEF Typed
<1>5. Fresh /\ Serial /\ Apart /\ EffectsOver
  BY <1>1, <1>3 DEF Fresh, Serial, Apart, EffectsOver, Open, Requests
<1>6. \A q \in Requests : ~Open(q)
  BY <1>3 DEF Open
<1>7. EmptyRefusals
  BY <1>3 DEF EmptyRefusals
<1>8. RetriesOnce
  <2>1. KeyFree /\ KeyKept /\ ReplayTold /\ VersionTaken /\ OutTaken
    BY <1>1, <1>3, <1>6 DEF KeyFree, KeyKept, ReplayTold, VersionTaken, OutTaken
  <2>2. KeyTold /\ OnceOnly
    BY <1>1 DEF KeyTold, OnceOnly, Requests
  <2>. QED
    BY <2>1, <2>2 DEF RetriesOnce
<1>. QED
  BY <1>1, <1>4, <1>5, <1>6, <1>7, <1>8 DEF CommandInv

\* A malformed request is rejected, or one begins.
LEMMA NewSteps ==
  ASSUME CommandInv, NEW q \in Requests, Reject(q) \/ Begin(q)
  PROVE  CommandInv'
<1>1. /\ Typed /\ Fresh /\ Serial /\ Apart /\ EffectsOver /\ run[q].pc = "new"
      /\ EmptyRefusals /\ DefaultIsActive /\ RetriesOnce
      /\ UNCHANGED <<scene, rows, keys, effects>>
  BY DEF CommandInv, Reject, Begin
<1>2. /\ DOMAIN run' = Requests /\ DOMAIN run'[q] = RunFields
      /\ run'[Other(q)] = run[Other(q)] /\ run'[q].at = run[q].at
      /\ run'[q].matches = run[q].matches /\ run'[q].replayed = run[q].replayed
      /\ run'[q].seen = run[q].seen /\ run'[q].dirty = run[q].dirty
      /\ run'[q].added = run[q].added /\ run'[q].locks = run[q].locks
      /\ run'[q].recorded = run[q].recorded
  BY <1>1 DEF Reject, Begin, Typed, RunFields, Requests, Other
<1>3. \/ /\ run'[q].pc = "over" /\ run'[q].answer # NoAnswer
      \/ /\ run'[q].pc = "open"
         /\ KeyOf(1) = KeyOf(2) => ~Open(Other(q))
  <2>1. CASE Reject(q)
    <3>1. PICK status \in Op(q).rejects :
            run' = [run EXCEPT ![q].pc = "over", ![q].answer = status]
      BY <2>1 DEF Reject
    <3>2. status # NoAnswer
      BY <1>1, <3>1, Shapes DEF HasAnswers
    <3>. QED
      BY <1>1, <3>1, <3>2 DEF Typed, RunFields
  <2>2. CASE Begin(q)
    <3>1. run' = [run EXCEPT ![q].pc = "open"]
      BY <2>2 DEF Begin
    <3>2. run'[q].pc = "open"
      BY <1>1, <3>1 DEF Typed, RunFields
    <3>3. KeyOf(1) = KeyOf(2) => ~Open(Other(q))
      BY <2>2 DEF Begin, Open, Requests, Other
    <3>. QED
      BY <3>2, <3>3
  <2>. QED
    BY <2>1, <2>2
<1>4. /\ run[q].at = 1 /\ run[q].seen = Nothing /\ run[q].dirty = Nothing
      /\ run[q].added = {} /\ run[q].locks = {} /\ run[q].recorded = NoAnswer
      /\ Passed(q)' = {} /\ DOMAIN Nothing = {}
  BY <1>1, <1>2 DEF Fresh, Apart, Open, Passed, Nothing
<1>5. \A p \in Requests : /\ Steps(p)' = Steps(p) /\ Op(p)' = Op(p)
                          /\ Conditional(p)' <=> Conditional(p)
  BY <1>1 DEF Steps, Op, Conditional
<1>6. Typed'
  <2>1. ASSUME NEW p \in Requests
        PROVE  /\ DOMAIN run'[p] = RunFields
               /\ run'[p].pc \in {"new", "open", "over"}
               /\ run'[p].at \in Nat \ {0} /\ run'[p].at =< Len(Steps(p)) + 1
               /\ {run'[p].matches, run'[p].replayed} \subseteq BOOLEAN
               /\ run'[p].matches => Conditional(p)
               /\ Views(run[p].seen)' /\ Views(run[p].dirty)'
    <3>1. CASE p = q
      BY <1>1, <1>2, <1>3, <3>1 DEF Typed, Views
    <3>2. CASE p = Other(q)
      BY <1>1, <1>2, <3>2 DEF Typed, Views
    <3>. QED
      BY <3>1, <3>2, TwoRequests
  <2>. QED
    BY <1>1, <1>2, <1>5, <2>1 DEF Typed
<1>7. Fresh'
  <2>1. \A p \in Requests : run'[p].pc = "new" => p = Other(q)
    BY <1>3, TwoRequests
  <2>. QED
    BY <1>1, <1>2, <2>1 DEF Fresh
<1>8. Serial'
  BY <1>1, <1>2, <1>3 DEF Serial, Open, KeyOf, Requests, Other
<1>9. Apart'
  <2>1. \A p \in Requests : ~Open(p)' => run'[p].locks = {}
    BY <1>1, <1>2, <1>4, TwoRequests DEF Apart, Open
  <2>2. run'[1].locks \cap run'[2].locks = {}
    BY <1>2, <1>4 DEF Requests, Other
  <2>3. DOMAIN run'[1].dirty \cap DOMAIN run'[2].dirty = {}
    BY <1>2, <1>4 DEF Requests, Other
  <2>. QED
    BY <2>1, <2>2, <2>3 DEF Apart
<1>10. EffectsOver' /\ EmptyRefusals'
  <2>1. q \notin effects /\ ~run[q].replayed
    BY <1>1 DEF EffectsOver
  <2>2. EffectsOver'
    <3>1. ASSUME NEW p \in Requests, p \in effects \/ run'[p].replayed
          PROVE  run'[p].pc = "over"
      <4>1. p = Other(q)
        BY <1>2, <2>1, <3>1, TwoRequests
      <4>. QED
        BY <1>1, <1>2, <3>1, <4>1 DEF EffectsOver
    <3>. QED
      BY <1>1, <3>1 DEF EffectsOver
  <2>3. EmptyRefusals'
    <3>1. ASSUME NEW p \in Requests, run'[p].pc = "over"
          PROVE  /\ run'[p].answer # NoAnswer
                 /\ p \in effects => run'[p].answer \in {Op(p).ok, Unknown}
      <4>1. CASE p = q
        BY <1>3, <2>1, <3>1, <4>1
      <4>2. CASE p = Other(q)
        BY <1>1, <1>2, <3>1, <4>2 DEF EmptyRefusals, Answered, Done
      <4>. QED
        BY <4>1, <4>2, TwoRequests
    <3>. QED
      BY <1>1, <1>5, <3>1 DEF EmptyRefusals, Answered, Done
  <2>. QED
    BY <2>2, <2>3
<1>11. ASSUME NEW p \in Requests, Open(p)'
       PROVE  Own(p)'
  <2>1. CASE p = q
    <3>1. LocksTaken(q)' /\ RowsAdded(q)' /\ StatusRecorded(q)' /\ RowsSeen(q)'
      BY <1>2, <1>4 DEF LocksTaken, RowsAdded, StatusRecorded, RowsSeen
    <3>2. ChecksPassed(q)' /\ PutsDone(q)' /\ ViewStands(q)' /\ RowStands(q)'
          /\ VersionWritten(q)' /\ TakenOut(q)'
      BY <1>4 DEF ChecksPassed, PutsDone, ViewStands, RowStands, VersionWritten, TakenOut
    <3>3. WrittenBy(q)' /\ VersionSeen(q)'
      BY <1>2, <1>4 DEF WrittenBy, VersionSeen
    <3>. QED
      BY <2>1, <3>1, <3>2, <3>3 DEF Own
  <2>2. CASE p = Other(q)
    <3>1. Open(p) /\ run'[p] = run[p]
      BY <1>2, <1>11, <2>2 DEF Open
    <3>. QED
      BY <1>1, <3>1, SameOwn DEF CommandInv
  <2>. QED
    BY <2>1, <2>2, TwoRequests
<1>12. DefaultIsActive'
  BY <1>1 DEF DefaultIsActive
<1>13. RetriesOnce'
  <2>. SUFFICES ASSUME scene.kind = "retry"
                PROVE  /\ KeyFree' /\ KeyKept' /\ KeyTold' /\ ReplayTold'
                       /\ VersionTaken' /\ OutTaken' /\ OnceOnly'
    BY <1>1 DEF RetriesOnce
  <2>1. /\ KeyFree /\ KeyKept /\ KeyTold /\ ReplayTold
        /\ VersionTaken /\ OutTaken /\ OnceOnly
    BY <1>1 DEF RetriesOnce
  <2>2. KeyFree'
    <3>. SUFFICES ASSUME NEW p \in Requests, Open(p)', Past(p, "replay")'
                  PROVE  keys[1] = NoAnswer
      BY <1>1 DEF KeyFree
    <3>1. CASE p = q
      BY <1>2, <1>4, <3>1 DEF Past
    <3>2. CASE p = Other(q)
      BY <1>2, <1>5, <2>1, <3>2 DEF Past, Open, KeyFree
    <3>. QED
      BY <3>1, <3>2, TwoRequests
  <2>. QED
    BY <1>1, <1>2, <2>1, <2>2, RetryQuiet
<1>. QED
  BY <1>6, <1>7, <1>8, <1>9, <1>10, <1>11, <1>12, <1>13 DEF CommandInv

\* A request goes on to its next step.
LEMMA ContinueSteps ==
  ASSUME CommandInv, NEW q \in Requests, Continues(q)
  PROVE  CommandInv'
<1>1. /\ Typed /\ Fresh /\ Serial /\ Apart /\ EffectsOver /\ run[q].pc = "open"
      /\ EmptyRefusals /\ DefaultIsActive /\ RetriesOnce /\ Own(q) /\ Open(q)
      /\ UNCHANGED <<scene, rows, keys, effects>>
      /\ run'[Other(q)] = run[Other(q)] /\ run'[q].pc = "open"
      /\ run'[q].matches = run[q].matches /\ run'[q].replayed = run[q].replayed
  BY DEF CommandInv, Continues, Open
<1>2. \A p \in Requests : /\ Steps(p)' = Steps(p) /\ Op(p)' = Op(p)
                          /\ run'[p].pc = run[p].pc /\ (Open(p)' <=> Open(p))
  BY <1>1, TwoRequests DEF Steps, Op, Open
<1>3. Typed'
  BY <1>1, ContinueTyped
<1>4. Fresh'
  <2>1. \A p \in Requests : run'[p].pc = "new" => p = Other(q)
    BY <1>1, TwoRequests
  <2>. QED
    BY <1>1, <2>1 DEF Fresh
<1>5. Serial'
  BY <1>1, <1>2 DEF Serial, KeyOf, Requests
<1>6. Apart'
  <2>1. \A p \in Requests : ~Open(p)' => run'[p].locks = {}
    BY <1>1, <1>2, TwoRequests DEF Apart, Open
  <2>2. run[q].locks \cap run[Other(q)].locks = {}
    BY <1>1 DEF Apart, Requests, Other
  <2>3. run'[q].locks \cap run[Other(q)].locks = {}
    BY <2>2 DEF Continues
  <2>4. run'[1].locks \cap run'[2].locks = {}
    BY <1>1, <2>3 DEF Requests, Other
  <2>5. ASSUME Open(Other(q))
        PROVE  DOMAIN run'[q].dirty \cap DOMAIN run[Other(q)].dirty = {}
    <3>1. DOMAIN run[q].dirty \cap DOMAIN run[Other(q)].dirty = {}
      BY <1>1, <2>5 DEF Apart, Requests, Other
    <3>. SUFFICES ASSUME NEW t \in DOMAIN run'[q].dirty, t \in DOMAIN run[Other(q)].dirty
                  PROVE  FALSE
      OBVIOUS
    <3>2. t \in DOMAIN run[q].dirty \/ ~Waits(q, t)
      BY <1>1, Dirtied
    <3>. QED
      BY <2>5, <3>1, <3>2 DEF Waits, Open
  <2>6. Open(1)' /\ Open(2)' => DOMAIN run'[1].dirty \cap DOMAIN run'[2].dirty = {}
    BY <1>1, <1>2, <2>5 DEF Requests, Other
  <2>. QED
    BY <2>1, <2>4, <2>6 DEF Apart
<1>7. EffectsOver' /\ EmptyRefusals'
  <2>1. EffectsOver'
    <3>1. \A p \in Requests : run'[p].replayed = run[p].replayed
      BY <1>1, TwoRequests
    <3>. QED
      BY <1>1, <1>2, <3>1 DEF EffectsOver
  <2>2. ASSUME NEW p \in Requests, run'[p].pc = "over"
        PROVE  run'[p] = run[p]
    BY <1>1, <2>2, TwoRequests
  <2>. QED
    BY <1>1, <1>2, <2>1, <2>2 DEF EmptyRefusals, Answered, Done
<1>8. ASSUME NEW p \in Requests, Open(p)'
      PROVE  Own(p)'
  <2>1. CASE p = q
    BY <1>1, <2>1, ContinueOwn
  <2>2. CASE p = Other(q)
    BY <1>1, <1>2, <1>8, <2>2, SameOwn DEF CommandInv
  <2>. QED
    BY <2>1, <2>2, TwoRequests
<1>9. DefaultIsActive'
  BY <1>1 DEF DefaultIsActive
<1>10. RetriesOnce'
  <2>. SUFFICES ASSUME scene.kind = "retry"
                PROVE  /\ KeyFree' /\ KeyKept' /\ KeyTold' /\ ReplayTold'
                       /\ VersionTaken' /\ OutTaken' /\ OnceOnly'
    BY <1>1 DEF RetriesOnce
  <2>1. /\ KeyFree /\ KeyKept /\ KeyTold /\ ReplayTold
        /\ VersionTaken /\ OutTaken /\ OnceOnly
    BY <1>1 DEF RetriesOnce
  <2>2. KeyFree'
    <3>. SUFFICES ASSUME NEW p \in Requests, Open(p)', Past(p, "replay")'
                  PROVE  keys[1] = NoAnswer
      BY <1>1 DEF KeyFree
    <3>1. CASE p = q
      <4>1. PICK i \in Passed(q)' : Steps(q)[i].do = "replay"
        BY <1>2, <3>1 DEF Past, Passed
      <4>2. CASE i \in Passed(q)
        BY <1>1, <2>1, <4>1, <4>2 DEF KeyFree, Past, Passed
      <4>3. CASE i = run[q].at
        <5>1. At(q).do = "replay" /\ KeyOf(q) = 1
          BY <1>1, <4>1, <4>3, Onward, RetryShape
        <5>. QED
          BY <5>1 DEF Continues
      <4>. QED
        BY <1>1, <4>1, <4>2, <4>3, Onward
    <3>2. CASE p = Other(q)
      BY <1>1, <1>2, <2>1, <3>2 DEF Past, KeyFree
    <3>. QED
      BY <3>1, <3>2, TwoRequests
  <2>. QED
    BY <1>1, <2>1, <2>2, RetryQuiet
<1>. QED
  BY <1>3, <1>4, <1>5, <1>6, <1>7, <1>8, <1>9, <1>10 DEF CommandInv

\* A transaction is rolled back, and its request gets an answer.
LEMMA ThrowSteps ==
  ASSUME CommandInv, NEW q \in Requests, Open(q), NEW status, status # NoAnswer,
         Throw(q, status)
  PROVE  CommandInv'
<1>1. /\ Typed /\ EffectsOver /\ DefaultIsActive /\ RetriesOnce
      /\ UNCHANGED <<scene, rows, keys, effects>>
  BY DEF CommandInv, Throw
<1>2. /\ SameRun(q) /\ run'[q].pc = "over" /\ run'[q].locks = {}
      /\ run'[q].answer = status /\ run'[q].replayed = run[q].replayed
  BY <1>1, OverFields DEF Throw
<1>3. Finishes(q)
  BY <1>1, <1>2 DEF Finishes, RowsMove, Typed
<1>4. EmptyRefusals' /\ EffectsOver'
  BY <1>1, <1>2, <1>3, FinishAnswer DEF EffectsOver, Open
<1>5. DefaultIsActive'
  BY <1>1 DEF DefaultIsActive
<1>6. RetriesOnce'
  <2>. SUFFICES ASSUME scene.kind = "retry"
                PROVE  /\ KeyFree' /\ KeyKept' /\ KeyTold' /\ ReplayTold'
                       /\ VersionTaken' /\ OutTaken' /\ OnceOnly'
    BY <1>1 DEF RetriesOnce
  <2>1. /\ KeyFree /\ KeyKept /\ KeyTold /\ ReplayTold
        /\ VersionTaken /\ OutTaken /\ OnceOnly
    BY <1>1 DEF RetriesOnce
  <2>. QED
    BY <1>1, <1>2, <1>3, <2>1, FinishInv, RetryQuiet DEF SameRun, Open
<1>. QED
  BY <1>3, <1>4, <1>5, <1>6, FinishInv DEF CommandInv

\* The record of the key answers the request.
LEMMA AgainSteps ==
  ASSUME CommandInv, NEW q \in Requests, AnswersAgain(q)
  PROVE  CommandInv'
<1>1. /\ Typed /\ EffectsOver /\ DefaultIsActive /\ RetriesOnce /\ Open(q)
      /\ UNCHANGED <<scene, rows, keys, effects>>
      /\ SameRun(q) /\ run'[q].pc = "over" /\ run'[q].locks = {}
      /\ run'[q].replayed \in BOOLEAN
  BY DEF CommandInv, AnswersAgain, Typed
<1>2. Finishes(q)
  BY <1>1 DEF Finishes, RowsMove, Typed
<1>3. run'[q].answer # NoAnswer
  <2>1. run[q].at \in 1..Len(Steps(q)) /\ At(q) = Steps(q)[run[q].at]
        /\ At(q).do = "replay"
    BY <1>1, Shapes DEF AnswersAgain, Typed, At
  <2>2. RefusalKinds(At(q)) = {At(q).kind} /\ At(q).kind = "keyConflict"
    BY <1>1, <2>1, StepShape DEF RefusalKinds
  <2>3. "keyConflict" \in DOMAIN Op(q).answers
    BY <1>1, <2>1, <2>2, Shapes DEF HasAnswers
  <2>4. Status(q, "keyConflict") # NoAnswer
    BY <1>1, <2>3, Shapes DEF HasAnswers, Status
  <2>. QED
    BY <2>4 DEF AnswersAgain
<1>4. EmptyRefusals' /\ EffectsOver'
  BY <1>1, <1>2, <1>3, FinishAnswer DEF EffectsOver, Open
<1>5. DefaultIsActive'
  BY <1>1 DEF DefaultIsActive
<1>6. RetriesOnce'
  <2>. SUFFICES ASSUME scene.kind = "retry"
                PROVE  /\ KeyFree' /\ KeyKept' /\ KeyTold' /\ ReplayTold'
                       /\ VersionTaken' /\ OutTaken' /\ OnceOnly'
    BY <1>1 DEF RetriesOnce
  <2>1. /\ KeyFree /\ KeyKept /\ KeyTold /\ ReplayTold
        /\ VersionTaken /\ OutTaken /\ OnceOnly
    BY <1>1 DEF RetriesOnce
  <2>. QED
    BY <1>1, <1>2, <2>1, FinishInv, RetryAgain
<1>. QED
  BY <1>2, <1>4, <1>5, <1>6, FinishInv DEF CommandInv

\* A refusal is returned: what was tidied up is committed.
LEMMA ReturnSteps ==
  ASSUME CommandInv, NEW q \in Requests, NEW kind, Refuses(q, kind),
         "throws" \notin DOMAIN At(q)
  PROVE  CommandInv'
<1>1. /\ Typed /\ EffectsOver /\ DefaultIsActive /\ RetriesOnce /\ Open(q) /\ Own(q)
      /\ Return(q, kind)
  BY DEF CommandInv, Refuses, Refuse
<1>2. /\ SameRun(q) /\ run'[q].pc = "over" /\ run'[q].locks = {}
      /\ run'[q].answer = Status(q, kind) /\ run'[q].replayed = run[q].replayed
      /\ Apply(q) /\ scene' = scene
      /\ keys' = IF Keeps(q) THEN [keys EXCEPT ![KeyOf(q)] = Status(q, kind)] ELSE keys
  BY <1>1, OverFields DEF Return, KeepRefusal
<1>3. ~Wrote(q) /\ Status(q, kind) # NoAnswer
  BY <1>1, ReturnsUnwritten, RefusalAnswers
<1>4. effects' = effects /\ RowsMove(q)
  BY <1>1, <1>2, <1>3, Applied, ApplyMoves
<1>5. Finishes(q)
  BY <1>1, <1>2, <1>4 DEF Finishes, Typed
<1>6. EmptyRefusals' /\ EffectsOver'
  BY <1>1, <1>2, <1>3, <1>4, <1>5, FinishAnswer DEF EffectsOver, Open
<1>7. DefaultIsActive'
  BY <1>1, <1>2, <1>3, UnwrittenDefault
<1>8. RetriesOnce'
  <2>. SUFFICES ASSUME scene.kind = "retry"
                PROVE  /\ KeyFree' /\ KeyKept' /\ KeyTold' /\ ReplayTold'
                       /\ VersionTaken' /\ OutTaken' /\ OnceOnly'
    BY <1>2 DEF RetriesOnce
  <2>1. /\ KeyFree /\ KeyKept /\ KeyTold /\ ReplayTold
        /\ VersionTaken /\ OutTaken /\ OnceOnly
    BY <1>1 DEF RetriesOnce
  <2>2. KeyFree'
    BY <1>5, FinishInv
  <2>3. \A t \in DOMAIN run[q].dirty : \A f, k, w \in 1..Len(Steps(q)) :
          ~TakesOutAt(Steps(q), t, f, k, w)
    BY <1>3 DEF Wrote, Tidies, Tidied, TakesOutAt
  <2>4. run[q].at =< Len(Steps(q)) /\ kind \in DOMAIN Op(q).answers
        /\ Status(q, kind) = Op(q).answers[kind]
    BY <1>1, RefusalAnswers, SMTT(40) DEF Refuses
  <2>. QED
    BY <1>1, <1>2, <1>3, <1>4, <1>5, <2>1, <2>2, <2>3, <2>4, RetryReturn
<1>. QED
  BY <1>5, <1>6, <1>7, <1>8, FinishInv DEF CommandInv

\* A role was lost: the update finds no row, and what came before is committed.
LEMMA HiddenFields ==
  ASSUME Typed, NEW q \in Requests, LoseRole(q)
  PROVE  /\ Open(q) /\ run[q].at \in 1..Len(Steps(q)) /\ run[q].at =< Len(Steps(q))
         /\ MayMiss(Steps(q), run[q].at) /\ Passed(q) = 1..(run[q].at - 1)
         /\ SameRun(q) /\ run'[q].pc = "over" /\ run'[q].locks = {}
         /\ run'[q].replayed = run[q].replayed
         /\ effects' = effects /\ scene' = scene
         /\ DOMAIN rows' = DOMAIN rows
         /\ \A t \in DOMAIN rows : /\ rows'[t].state = Row(q, t).state
                                   /\ rows'[t].version = Row(q, t).version
         /\ \E kind \in DOMAIN Op(q).answers :
              /\ Status(q, kind) # NoAnswer /\ Status(q, kind) = Op(q).answers[kind]
              /\ run'[q].answer = Status(q, kind)
              /\ keys' = IF Keeps(q) THEN [keys EXCEPT ![KeyOf(q)] = Status(q, kind)]
                         ELSE keys
<1>. DEFINE n == run[q].at
<1>1. /\ Open(q) /\ n \in 1..Len(Steps(q)) /\ n =< Len(Steps(q)) /\ At(q) = Steps(q)[n]
      /\ At(q).do = "put_if" /\ At(q).table \notin OwnTables
      /\ "throws" \notin DOMAIN At(q)
  BY Shapes DEF LoseRole, Doing, Typed, Open, At
<1>2. PICK x \in DOMAIN At(q).zero :
        Over(q, Status(q, At(q).zero[x])) /\ KeepRefusal(q, At(q).zero[x])
  BY DEF LoseRole
<1>. DEFINE kind == At(q).zero[x]
<1>3. kind \in MissKinds(At(q))
  BY <1>1 DEF MissKinds
<1>4. kind \in DOMAIN Op(q).answers
  BY <1>1, <1>3, Shapes DEF HasAnswers
<1>5. Status(q, kind) # NoAnswer /\ Status(q, kind) = Op(q).answers[kind]
  BY <1>4, Shapes DEF Status, HasAnswers
<1>6. /\ SameRun(q) /\ run'[q].pc = "over" /\ run'[q].locks = {}
      /\ run'[q].replayed = run[q].replayed /\ run'[q].answer = Status(q, kind)
  BY <1>2, OverFields
<1>7. /\ DOMAIN rows' = DOMAIN rows
      /\ \A t \in DOMAIN rows : /\ rows'[t].state = Row(q, t).state
                                /\ rows'[t].version = Row(q, t).version
  BY DEF LoseRole, ApplyRows
<1>8. MayMiss(Steps(q), n) /\ effects' = effects /\ scene' = scene
      /\ Passed(q) = 1..(n - 1)
  BY <1>1 DEF MayMiss, LoseRole, Passed
<1>9. keys' = IF Keeps(q) THEN [keys EXCEPT ![KeyOf(q)] = Status(q, kind)] ELSE keys
  BY <1>2 DEF KeepRefusal
<1>. QED
  BY <1>1, <1>4, <1>5, <1>6, <1>7, <1>8, <1>9

\* Of the guarded rows it has changed no state but that of a default model.
LEMMA HiddenChange ==
  ASSUME Typed, NEW q \in Requests, Own(q), LoseRole(q), NEW t \in DOMAIN run[q].dirty,
         t \in DOMAIN Guard, run[q].dirty[t].state # rows[t].state
  PROVE  t = "defaultModel" /\ run[q].dirty[t].state = "absent"
<1>. DEFINE s == Steps(q)
<1>1. WrittenBy(q)
  BY DEF Own
<1>2. ~Tidied(s, t)
  BY <1>1, Shapes DEF WrittenBy, TakesGuards
<1>3. PICK i \in Passed(q) : PutsAt(s, i, t) /\ s[i].to \in {run[q].dirty[t].state, Same}
  BY <1>1 DEF WrittenBy
<1>4. WritesAt(s, i) /\ ~AddsAt(s, i)
  BY <1>2, <1>3 DEF WritesAt, AddsAt, PutsAt
<1>5. s[i].table = "defaultModel" /\ s[i].to = "absent"
  BY <1>3, <1>4, HiddenFields, Shapes DEF LeavesLittle
<1>. QED
  BY <1>3, <1>5 DEF PutsAt, Same

LEMMA HiddenSteps ==
  ASSUME CommandInv, NEW q \in Requests, LoseRole(q)
  PROVE  CommandInv'
<1>1. /\ Typed /\ EffectsOver /\ DefaultIsActive /\ RetriesOnce /\ Open(q) /\ Own(q)
      /\ WrittenBy(q)
  BY HiddenFields DEF CommandInv, Own
<1>2. /\ SameRun(q) /\ run'[q].pc = "over" /\ run'[q].locks = {}
      /\ run'[q].replayed = run[q].replayed /\ effects' = effects /\ scene' = scene
      /\ DOMAIN rows' = DOMAIN rows /\ run[q].at =< Len(Steps(q))
      /\ \A t \in DOMAIN rows : /\ rows'[t].state = Row(q, t).state
                                /\ rows'[t].version = Row(q, t).version
  BY <1>1, HiddenFields
<1>3. PICK kind \in DOMAIN Op(q).answers :
        /\ Status(q, kind) # NoAnswer /\ Status(q, kind) = Op(q).answers[kind]
        /\ run'[q].answer = Status(q, kind)
        /\ keys' = IF Keeps(q) THEN [keys EXCEPT ![KeyOf(q)] = Status(q, kind)] ELSE keys
  BY <1>1, HiddenFields
<1>4. \A t \in DOMAIN run[q].dirty :
        t \in DOMAIN Guard /\ run[q].dirty[t].state # rows[t].state
          => t = "defaultModel" /\ run[q].dirty[t].state = "absent"
  BY <1>1, HiddenChange
<1>5. RowsMove(q)
  BY <1>1, <1>2, <1>4 DEF RowsMove, Row, WrittenBy
<1>6. Finishes(q)
  BY <1>1, <1>2, <1>3, <1>5 DEF Finishes, Typed
<1>7. EmptyRefusals' /\ EffectsOver'
  BY <1>1, <1>2, <1>3, <1>6, FinishAnswer DEF EffectsOver, Open
<1>8. DefaultIsActive'
  <2>. DEFINE d == "defaultModel"
              c == "credential"
  <2>1. DefaultIsActive' <=>
          ({"defaultModel", "credential"} \subseteq DOMAIN rows'
             /\ rows'["defaultModel"].state = "present"
           => rows'["credential"].state = "active")
    BY DEF DefaultIsActive, DefaultActive
  <2>2. d \in DOMAIN Guard /\ c \in DOMAIN Guard
    BY DEF Guard
  <2>. SUFFICES ASSUME d \in DOMAIN rows, c \in DOMAIN rows, Row(q, d).state = "present"
                PROVE  Row(q, c).state = "active"
    BY <1>2, <2>1
  <2>3. rows[d].state = "present"
    BY <1>4, <2>2 DEF Row
  <2>4. rows[c].state = "active"
    BY <1>1, <2>3, DefaultOfActive
  <2>. QED
    BY <1>4, <2>2, <2>4 DEF Row
<1>9. RetriesOnce'
  <2>. SUFFICES ASSUME scene.kind = "retry"
                PROVE  /\ KeyFree' /\ KeyKept' /\ KeyTold' /\ ReplayTold'
                       /\ VersionTaken' /\ OutTaken' /\ OnceOnly'
    BY <1>2 DEF RetriesOnce
  <2>1. /\ KeyFree /\ KeyKept /\ KeyTold /\ ReplayTold
        /\ VersionTaken /\ OutTaken /\ OnceOnly
    BY <1>1 DEF RetriesOnce
  <2>2. KeyFree'
    BY <1>6, FinishInv
  <2>3. ASSUME NEW t \in DOMAIN run[q].dirty, NEW f \in 1..Len(Steps(q)),
               NEW k \in 1..Len(Steps(q)), NEW w \in 1..Len(Steps(q)),
               TakesOutAt(Steps(q), t, f, k, w)
        PROVE  run[q].dirty[t].state = Steps(q)[w].to
    <3>1. PICK i \in Passed(q) : PutsAt(Steps(q), i, t)
      BY <1>1 DEF WrittenBy
    <3>2. i \in 1..Len(Steps(q)) /\ t \in DOMAIN rows
      BY <1>1, <1>2, Shapes DEF Passed, Typed, Views
    <3>3. i = w
      BY <2>3, <3>1, <3>2 DEF TakesOutAt
    <3>. QED
      BY <1>1, <2>3, <3>2, <3>3 DEF Own, TakenOut
  <2>. QED
    BY <1>1, <1>2, <1>3, <1>6, <2>1, <2>2, <2>3, RetryReturn
<1>. QED
  BY <1>6, <1>7, <1>8, <1>9, FinishInv DEF CommandInv

\* COMMIT.
LEMMA CommitSteps ==
  ASSUME CommandInv, NEW q \in Requests, CommitCommand(q)
  PROVE  CommandInv'
<1>1. /\ Typed /\ EffectsOver /\ DefaultIsActive /\ RetriesOnce /\ Open(q) /\ Own(q)
      /\ Ready(q) /\ Apply(q) /\ scene' = scene
      /\ keys' = IF run[q].recorded = NoAnswer THEN keys
                 ELSE [keys EXCEPT ![KeyOf(q)] = run[q].recorded]
  BY DEF CommandInv, CommitCommand, Ready, Open
<1>2. PICK status \in {Op(q).ok, Unknown} : Over(q, status)
  BY DEF CommitCommand
<1>3. /\ SameRun(q) /\ run'[q].pc = "over" /\ run'[q].locks = {}
      /\ run'[q].answer \in {Op(q).ok, Unknown} /\ run'[q].replayed = run[q].replayed
  BY <1>1, <1>2, OverFields
<1>4. RowsMove(q) /\ effects' = IF Wrote(q) THEN effects \cup {q} ELSE effects
  BY <1>1, Applied, ApplyMoves
<1>5. Finishes(q)
  BY <1>1, <1>3, <1>4 DEF Finishes, Typed
<1>6. EmptyRefusals' /\ EffectsOver'
  <2>1. Op(q).ok # NoAnswer
    BY <1>1, Shapes DEF HasAnswers
  <2>2. run'[q].answer # NoAnswer
    BY <1>3, <2>1 DEF Unknown, NoAnswer
  <2>3. effects' \subseteq effects \cup {q}
    BY <1>4
  <2>. QED
    BY <1>3, <1>5, <2>2, <2>3, FinishAnswer
<1>7. DefaultIsActive'
  BY <1>1, CommitDefault
<1>8. RetriesOnce'
  <2>. SUFFICES ASSUME scene.kind = "retry"
                PROVE  /\ KeyFree' /\ KeyKept' /\ KeyTold' /\ ReplayTold'
                       /\ VersionTaken' /\ OutTaken' /\ OnceOnly'
    BY <1>1 DEF RetriesOnce
  <2>1. /\ KeyFree /\ KeyKept /\ KeyTold /\ ReplayTold
        /\ VersionTaken /\ OutTaken /\ OnceOnly
    BY <1>1 DEF RetriesOnce
  <2>2. KeyFree'
    BY <1>5, FinishInv
  <2>3. KeyKept' /\ KeyTold' /\ ReplayTold' /\ VersionTaken' /\ OutTaken'
    BY <1>1, <1>3, <1>5, <2>1, RetryCommit
  <2>4. OnceOnly'
    <3>. SUFFICES ASSUME effects' = Requests
                  PROVE  /\ NamesVersion(Steps(1))' /\ ~Replays(Steps(1))'
                         /\ ~(run'[1].matches /\ run'[2].matches)
      BY DEF OnceOnly
    <3>1. q \notin effects
      BY <1>1 DEF EffectsOver, Open
    <3>2. Wrote(q) /\ Other(q) \in effects
      BY <1>4, <3>1, TwoRequests
    <3>3. NamesVersion(Steps(q)) /\ ~Replays(Steps(q)) /\ ~run[q].matches
      BY <1>1, <2>1, <3>2, CommitOnce
    <3>4. Steps(1)' = Steps(q)
      BY <1>1, RetryShape DEF Requests, Steps, Op
    <3>5. run'[q].matches = run[q].matches
      BY <1>3 DEF SameRun
    <3>6. ~(run'[1].matches /\ run'[2].matches)
      BY <3>3, <3>5 DEF Requests
    <3>. QED
      BY <3>3, <3>4, <3>6 DEF NamesVersion, Replays
  <2>. QED
    BY <2>2, <2>3, <2>4
<1>. QED
  BY <1>5, <1>6, <1>7, <1>8, FinishInv DEF CommandInv

LEMMA EveryStep ==
  CommandInv /\ [CommandNext]_commandVars => CommandInv'
<1>. SUFFICES ASSUME CommandInv, [CommandNext]_commandVars
              PROVE  CommandInv'
  OBVIOUS
<1>1. ASSUME NEW q \in Requests, StepOf(q)
      PROVE  CommandInv'
  <2>1. Typed
    BY DEF CommandInv
  <2>2. CASE Continues(q)
    BY <2>2, ContinueSteps
  <2>3. CASE AnswersAgain(q)
    BY <2>3, AgainSteps
  <2>4. ASSUME NEW kind, Refuses(q, kind)
        PROVE  CommandInv'
    <3>1. CASE "throws" \in DOMAIN At(q)
      <4>1. Throw(q, Status(q, kind)) /\ Open(q)
        BY <2>4, <3>1 DEF Refuses, Refuse
      <4>2. Status(q, kind) # NoAnswer
        BY <2>1, <2>4, RefusalAnswers
      <4>. QED
        BY <4>1, <4>2, ThrowSteps
    <3>2. CASE "throws" \notin DOMAIN At(q)
      BY <2>4, <3>2, ReturnSteps
    <3>. QED
      BY <3>1, <3>2
  <2>. QED
    BY <1>1, <2>1, <2>2, <2>3, <2>4, StepCases
<1>2. ASSUME NEW q \in Requests, AbortCommand(q)
      PROVE  CommandInv'
  <2>1. Open(q) /\ Throw(q, Failure) /\ Failure # NoAnswer
    BY <1>2 DEF AbortCommand, Open, Failure, NoAnswer
  <2>. QED
    BY <2>1, ThrowSteps
<1>3. CASE UNCHANGED commandVars
  <2>1. UNCHANGED <<scene, rows, keys, run, effects>>
    BY <1>3 DEF commandVars
  <2>2. \A q \in Requests : /\ Steps(q)' = Steps(q) /\ Op(q)' = Op(q)
                            /\ Conditional(q)' <=> Conditional(q)
                            /\ Open(q)' <=> Open(q)
    BY <2>1 DEF Steps, Op, Conditional, Open
  <2>3. Typed'
    BY <2>1, <2>2 DEF CommandInv, Typed, Views
  <2>4. Fresh' /\ Serial' /\ Apart' /\ EffectsOver'
    <3>1. Fresh' /\ EffectsOver'
      BY <2>1 DEF CommandInv, Fresh, EffectsOver
    <3>2. Serial'
      BY <2>1 DEF CommandInv, Serial, KeyOf, Open
    <3>3. Apart'
      BY <2>1 DEF CommandInv, Apart, Open
    <3>. QED
      BY <3>1, <3>2, <3>3
  <2>5. \A q \in Requests : Open(q)' => Own(q)'
    BY <2>1, <2>2, SameOwn DEF CommandInv
  <2>6. EmptyRefusals' /\ DefaultIsActive'
    BY <2>1, <2>2 DEF CommandInv, EmptyRefusals, Answered, Done, DefaultIsActive
  <2>7. RetriesOnce'
    <3>1. ASSUME scene.kind = "retry"
          PROVE  KeyFree' /\ KeyKept' /\ KeyTold' /\ ReplayTold'
      BY <2>1, <2>2, <3>1
      DEF CommandInv, RetriesOnce, KeyFree, KeyKept, KeyTold, ReplayTold, Past, Done,
          Answered, Typed
    <3>2. ASSUME scene.kind = "retry"
          PROVE  VersionTaken' /\ OutTaken' /\ OnceOnly'
      BY <2>1, <2>2, <3>2, SMTT(40)
     DEF CommandInv, RetriesOnce, VersionTaken, OutTaken, OnceOnly, Typed, Requests
    <3>. QED
      BY <2>1, <3>1, <3>2 DEF RetriesOnce
  <2>. QED
    BY <2>3, <2>4, <2>5, <2>6, <2>7 DEF CommandInv
<1>. QED
  BY <1>1, <1>2, <1>3, NewSteps, CommitSteps, HiddenSteps DEF CommandNext

-----------------------------------------------------------------------------
(* What a lost role leaves behind *)

FewHalves ==
  /\ halves \subseteq Requests
  /\ \A q \in halves : run[q].pc = "over" /\ scene.ops[q] \in LeftByHalf

\* A request that is over stays so.
LEMMA StaysOver ==
  ASSUME Typed, NEW q \in Requests,
         \/ Reject(q) \/ Begin(q) \/ StepOf(q) \/ CommitCommand(q)
         \/ AbortCommand(q) \/ LoseRole(q)
  PROVE  /\ scene' = scene
         /\ \A p \in Requests : run[p].pc = "over" => run'[p].pc = "over"
<1>1. scene' = scene /\ run'[Other(q)] = run[Other(q)] /\ run[q].pc # "over"
  <2>1. CASE Reject(q) \/ Begin(q)
    BY <2>1 DEF Reject, Begin, Typed, Requests, Other
  <2>2. CASE StepOf(q)
    <3>1. CASE Continues(q)
      BY <3>1 DEF Continues, Open
    <3>2. CASE AnswersAgain(q)
      BY <3>2 DEF AnswersAgain, SameRun, Open
    <3>3. ASSUME NEW kind, Refuses(q, kind)
          PROVE  /\ scene' = scene /\ run'[Other(q)] = run[Other(q)]
                 /\ run[q].pc # "over"
      BY <3>3, OverFields DEF Refuses, Refuse, Return, Throw, SameRun, Open
    <3>. QED
      BY <2>2, <3>1, <3>2, <3>3, StepCases
  <2>3. CASE CommitCommand(q)
    BY <2>3, OverFields DEF CommitCommand, Ready, SameRun
  <2>4. CASE AbortCommand(q)
    BY <2>4, OverFields DEF AbortCommand, Throw, SameRun
  <2>5. CASE LoseRole(q)
    BY <2>5, HiddenFields DEF SameRun, Open
  <2>. QED
    BY <2>1, <2>2, <2>3, <2>4, <2>5
<1>. QED
  BY <1>1, TwoRequests

\* Who leaves something behind has passed a step that writes, which only the two
\* commands have before an update that may miss its row.
LEMMA FewMoreHalves ==
  CommandInv /\ FewHalves /\ [CommandNext]_commandVars => FewHalves'
<1>. SUFFICES ASSUME CommandInv, FewHalves, [CommandNext]_commandVars
              PROVE  FewHalves'
  OBVIOUS
<1>1. CASE UNCHANGED commandVars
  BY <1>1 DEF commandVars, FewHalves
<1>2. CASE CommandNext
  <2>1. PICK q \in Requests :
          \/ /\ Reject(q) \/ Begin(q) \/ StepOf(q) \/ CommitCommand(q) \/ AbortCommand(q)
             /\ UNCHANGED halves
          \/ LoseRole(q)
    BY <1>2 DEF CommandNext
  <2>2. /\ scene' = scene /\ Typed
        /\ \A p \in Requests : run[p].pc = "over" => run'[p].pc = "over"
    BY <2>1, StaysOver DEF CommandInv
  <2>3. CASE UNCHANGED halves
    BY <2>2, <2>3 DEF FewHalves
  <2>4. ASSUME LoseRole(q), Wrote(q)
        PROVE  run'[q].pc = "over" /\ scene.ops[q] \in LeftByHalf
    <3>1. Open(q) /\ Own(q) /\ run'[q].pc = "over"
      BY <2>2, <2>4, HiddenFields DEF CommandInv
    <3>2. PICK j \in Passed(q) : WritesAt(Steps(q), j)
      BY <2>2, <2>4, <3>1, WroteByStep
    <3>3. ~LeavesNothing(Op(q))
      BY <2>2, <2>4, <3>2, HiddenFields, Shapes DEF LeavesNothing
    <3>. QED
      BY <2>2, <3>1, <3>3, Shapes
  <2>5. CASE LoseRole(q)
    <3>1. halves' = IF Wrote(q) THEN halves \cup {q} ELSE halves
      BY <2>5 DEF LoseRole
    <3>. QED
      BY <2>2, <2>4, <2>5, <3>1 DEF FewHalves
  <2>. QED
    BY <2>1, <2>3, <2>5
<1>. QED
  BY <1>1, <1>2


-----------------------------------------------------------------------------
(* What was checked holds at COMMIT *)

\* The row was seen under its lock.
LEMMA LockedCheck ==
  ASSUME Typed, NEW q \in Requests, Ready(q), Own(q), NEW t \in DOMAIN rows,
         NEW i \in 1..Len(Steps(q)), CheckedUnderLock(Steps(q), i, t)
  PROVE  rows[t].state \in Steps(q)[i].in
<1>1. /\ Passed(q) = 1..Len(Steps(q)) /\ Latest(q) = Len(Steps(q))
      /\ Len(Steps(q)) \in Nat
  BY ReadyPassed
<1>2. PICK f \in 1..Len(Steps(q)), k \in 1..Len(Steps(q)) :
        /\ f < k /\ Guarded(Steps(q), f, t) /\ NoPuts(Steps(q), t, 1, f)
        /\ NoFinds(Steps(q), t, f + 1, Len(Steps(q)))
        /\ IsAt(Steps(q), k, t) /\ Steps(q)[k].in \subseteq Steps(q)[i].in
        /\ t = "defaultModel" => "absent" \in Steps(q)[i].in
  BY DEF CheckedUnderLock
<1>3. Stands(t, run[q].seen[t].state, rows[t].state)
  BY <1>1, <1>2 DEF Own, RowStands
<1>4. NoFinds(Steps(q), t, k, Latest(q))
  BY <1>1, <1>2 DEF NoFinds
<1>5. run[q].seen[t].state \in Steps(q)[k].in
  BY <1>1, <1>2, <1>4 DEF Own, ChecksPassed
<1>. QED
  BY <1>2, <1>3, <1>5 DEF Stands

\* The version the client has read was written.
LEMMA VersionedWrite ==
  ASSUME Typed, NEW q \in Requests, Ready(q), Own(q), NEW t \in DOMAIN rows,
         Versioned(Steps(q), t), run[q].matches
  PROVE  rows[t].version = ExpectedVersion
<1>1. Passed(q) = 1..Len(Steps(q)) /\ Len(Steps(q)) \in Nat
  BY ReadyPassed
<1>2. PICK w \in 1..Len(Steps(q)) :
        /\ PutsAt(Steps(q), w, t) /\ Steps(q)[w].do = "put_if"
        /\ Steps(q)[w].version \in {"header", "read", "sent"}
  BY DEF Versioned
<1>3. WritesExpected(q, w) /\ Steps(q)[w].table = t
  BY <1>2 DEF WritesExpected, PutsAt
<1>. QED
  BY <1>1, <1>3 DEF Own, VersionWritten

\* The row was seen in that version.
LEMMA VersionedCheck ==
  ASSUME Typed, NEW q \in Requests, Ready(q), Own(q), NEW t \in DOMAIN rows,
         NEW i \in 1..Len(Steps(q)), IsAt(Steps(q), i, t),
         CheckedWithVersion(Steps(q), i, t), run[q].matches
  PROVE  rows[t].state \in Steps(q)[i].in
<1>1. /\ Passed(q) = 1..Len(Steps(q)) /\ Latest(q) = Len(Steps(q))
      /\ Len(Steps(q)) \in Nat /\ run[q].at \in Nat /\ run[q].at > Len(Steps(q))
  BY ReadyPassed DEF Ready, Typed
<1>2. PICK m \in 1..Len(Steps(q)) :
        MatchAt(Steps(q), m, t) /\ NoFinds(Steps(q), t, m, Len(Steps(q)))
  BY DEF CheckedWithVersion
<1>3. rows[t].version = ExpectedVersion
  BY VersionedWrite DEF CheckedWithVersion
<1>4. run[q].seen[t].version = ExpectedVersion
  BY <1>1, <1>2 DEF Own, ChecksPassed
<1>5. t \in DOMAIN run[q].seen
  <2>1. i =< run[q].at
    BY <1>1
  <2>. QED
    BY <2>1, CheckedSeen DEF Own
<1>6. run[q].seen[t].state = rows[t].state
  BY <1>3, <1>4, <1>5 DEF Own, VersionSeen, CheckedWithVersion
<1>7. run[q].seen[t].state \in Steps(q)[i].in
  BY <1>1 DEF Own, ChecksPassed, CheckedWithVersion
<1>. QED
  BY <1>6, <1>7

\* The row was written out of such a state.
LEMMA WrittenCheck ==
  ASSUME Typed, NEW q \in Requests, Ready(q), Own(q), NEW t,
         NEW i \in 1..Len(Steps(q)), CheckedByWrite(Steps(q), i, t),
         t \in run[q].locks \cup DOMAIN run[q].dirty
  PROVE  rows[t].state \in Steps(q)[i].in
<1>1. Passed(q) = 1..Len(Steps(q))
  BY ReadyPassed
<1>2. t \notin run[q].locks
  BY <1>1 DEF Own, LocksTaken, CheckedByWrite
<1>3. PICK w \in Passed(q) : PutsAt(Steps(q), w, t) /\ rows[t].state \in Steps(q)[w].in
  BY <1>2 DEF Own, WrittenBy
<1>. QED
  BY <1>1, <1>3 DEF CheckedByWrite

LEMMA ChecksOfInvariant ==
  CommandInv => ChecksStillHold
<1>. SUFFICES ASSUME CommandInv, NEW q \in Requests, Ready(q),
                     NEW i \in 1..Len(Steps(q)),
                     Steps(q)[i].do \in {"is", "match"}, Protected(q, i)
              PROVE  /\ Steps(q)[i].do = "is" =>
                          rows[Steps(q)[i].table].state \in Steps(q)[i].in
                     /\ Steps(q)[i].do = "match" =>
                          rows[Steps(q)[i].table].version = ExpectedVersion
  BY DEF ChecksStillHold
<1>. DEFINE t == Steps(q)[i].table
<1>1. Typed /\ Own(q) /\ Op(q).steps = Steps(q) /\ ChecksLast(Op(q)) /\ t \in DOMAIN rows
  BY ReadyPassed, Shapes, StepShape DEF CommandInv
<1>2. /\ t \in run[q].locks \cup DOMAIN run[q].dirty
      /\ \A j \in 1..Len(Steps(q)) : MatchAt(Steps(q), j, t) => run[q].matches
  BY DEF Protected, MatchAt
<1>3. NoPuts(Steps(q), t, 1, i - 1)
  BY DEF Protected, NoPuts, PutsAt
<1>4. CASE Steps(q)[i].do = "is"
  <2>1. IsAt(Steps(q), i, t)
    BY <1>4 DEF IsAt
  <2>2. \/ CheckedUnderLock(Steps(q), i, t) \/ CheckedWithVersion(Steps(q), i, t)
        \/ CheckedByWrite(Steps(q), i, t)
    BY <1>1, <1>3, <1>4 DEF ChecksLast
  <2>3. CASE CheckedUnderLock(Steps(q), i, t)
    BY <1>1, <1>4, <2>3, LockedCheck
  <2>4. CASE CheckedWithVersion(Steps(q), i, t)
    <3>1. run[q].matches
      BY <1>2, <2>4 DEF CheckedWithVersion
    <3>. QED
      BY <1>1, <1>4, <2>1, <2>4, <3>1, VersionedCheck
  <2>5. CASE CheckedByWrite(Steps(q), i, t)
    BY <1>1, <1>2, <1>4, <2>5, WrittenCheck
  <2>. QED
    BY <2>2, <2>3, <2>4, <2>5
<1>5. CASE Steps(q)[i].do = "match"
  <2>1. Versioned(Steps(q), t)
    BY <1>1, <1>3, <1>5 DEF ChecksLast
  <2>2. run[q].matches
    BY <1>2, <1>5 DEF MatchAt
  <2>. QED
    BY <1>1, <1>5, <2>1, <2>2, VersionedWrite
<1>. QED
  BY <1>4, <1>5

-----------------------------------------------------------------------------
(* What is sent twice is done once *)

LEMMA OnceOfInvariant ==
  CommandInv => SentTwiceDoneOnce
<1>. SUFFICES ASSUME CommandInv, scene.kind = "retry", NEW q \in Requests
              PROVE  /\ effects = Requests =>
                          /\ Conditional(q) /\ ~Has(q, "replay")
                          /\ ~(run[1].matches /\ run[2].matches)
                     /\ Open(q) /\ Past(q, "replay") => Other(q) \notin effects
                     /\ run[q].replayed =>
                          /\ \/ Answered(q) = Answered(Other(q))
                             \/ Answered(Other(q)) = Unknown
                          /\ Done(q) => effects = {Other(q)}
  BY DEF SentTwiceDoneOnce, Open
<1>1. Typed /\ KeyFree /\ KeyKept /\ ReplayTold /\ OnceOnly
  BY DEF CommandInv, RetriesOnce
<1>2. Steps(1) = Steps(q) /\ Steps(Other(q)) = Steps(q)
  BY <1>1, RetryShape, TwoRequests DEF Requests
<1>3. ASSUME effects = Requests
      PROVE  /\ Conditional(q) /\ ~Has(q, "replay")
             /\ ~(run[1].matches /\ run[2].matches)
  <2>1. /\ NamesVersion(Steps(q)) /\ ~Replays(Steps(q))
        /\ ~(run[1].matches /\ run[2].matches)
    BY <1>1, <1>2, <1>3 DEF OnceOnly
  <2>. QED
    BY <2>1 DEF NamesVersion, NamesVersionAt, Conditional, Replays, ReplaysAt, Has
<1>4. ASSUME Open(q), Past(q, "replay"), Other(q) \in effects
      PROVE  FALSE
  <2>1. keys[1] = NoAnswer
    BY <1>1, <1>4 DEF KeyFree
  <2>2. Replays(Steps(q))
    <3>1. PICK i \in 1..(run[q].at - 1) : Steps(q)[i].do = "replay"
      BY <1>4 DEF Past
    <3>2. i \in 1..Len(Steps(q))
      BY <1>1, Shapes DEF Typed
    <3>. QED
      BY <3>1, <3>2 DEF Replays, ReplaysAt
  <2>. QED
    BY <1>1, <1>2, <1>4, <2>1, <2>2 DEF KeyKept
<1>5. ASSUME run[q].replayed
      PROVE  /\ Answered(q) = Answered(Other(q)) \/ Answered(Other(q)) = Unknown
             /\ Done(q) => effects = {Other(q)}
  BY <1>1, <1>5, TwoRequests DEF ReplayTold, Typed, Answered
<1>. QED
  BY <1>3, <1>4, <1>5

-----------------------------------------------------------------------------
(* Theorems *)

(* The invariant of two requests that meet: what each open transaction has *)
(* seen, written and locked follows from its steps and from the rows.      *)
THEOREM CommandInvariant ==
  CommandSpec => []CommandInv
  BY Starts, EveryStep, PTL DEF CommandSpec

(* A command that is refused or fails has changed nothing, and has a       *)
(* status: whatever a service returns as a refusal, which commits its      *)
(* transaction, it returns before it writes.  Only a role lost after the   *)
(* first writes of the commands of LeftByHalf leaves these behind.         *)
THEOREM RefusalsAreEmpty ==
  CommandSpec => []RefusalsLeaveNothing
<1>1. CommandInit => FewHalves
  BY DEF CommandInit, FewHalves
<1>2. CommandInv /\ FewHalves => RefusalsLeaveNothing
  BY DEF CommandInv, FewHalves, RefusalsLeaveNothing
<1>. QED
  BY <1>1, <1>2, FewMoreHalves, CommandInvariant, PTL DEF CommandSpec

(* The default model stays that of an active credential, whichever two     *)
(* commands change the two rows at a time.                                 *)
THEOREM DefaultStaysActive ==
  CommandSpec => []DefaultIsActive
<1>1. CommandInv => DefaultIsActive
  BY DEF CommandInv
<1>. QED
  BY <1>1, CommandInvariant, PTL

(* What a command has checked under its lock, or of the version its client *)
(* has read, is so when it commits.                                        *)
THEOREM ChecksStandAtCommit ==
  CommandSpec => []ChecksStillHold
  BY ChecksOfInvariant, CommandInvariant, PTL

(* A command sent twice takes effect once if it has a key or names the     *)
(* version it changes, is not run again after its effect under a key, and  *)
(* its replay tells what the first was told.                               *)
THEOREM RetriesAreSafe ==
  CommandSpec => []SentTwiceDoneOnce
  BY OnceOfInvariant, CommandInvariant, PTL
=============================================================================
