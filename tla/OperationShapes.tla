-------------------------- MODULE OperationShapes --------------------------
(***************************************************************************)
(* How the commands of the catalogue are made, which is why they may meet: *)
(* what a command finds out before it writes, which lock it takes before   *)
(* it looks, what a refusal may come after, what names the version.  The   *)
(* proofs about commands rest on these shapes and on nothing else of the   *)
(* catalogue, so that a command of the same shape may be added to it.      *)
(***************************************************************************)
EXTENDS CommandCatalogue

FindsAt(s, i, t) == s[i].do = "find" /\ s[i].table = t
LocksAt(s, i, t) == s[i].do = "lock" /\ s[i].table = t
PutsAt(s, i, t)  == s[i].do \in {"put", "put_if"} /\ s[i].table = t
IsAt(s, i, t)    == s[i].do = "is" /\ s[i].table = t
MatchAt(s, i, t) == s[i].do = "match" /\ s[i].table = t
AddsAt(s, i)     == s[i].do \in {"insert", "unique"}

NoPuts(s, t, a, b)  == \A j \in a..b : ~PutsAt(s, j, t)
NoFinds(s, t, a, b) == \A j \in a..b : ~FindsAt(s, j, t)

Tidied(s, t) == \E i \in 1..Len(s) : "tidies" \in DOMAIN s[i] /\ s[i].table = t

\* The step may write what is more than tidying up.
WritesAt(s, i) ==
  \/ AddsAt(s, i)
  \/ s[i].do \in {"put", "put_if"} /\ ~Tidied(s, s[i].table)

Writes(s) == \E i \in 1..Len(s) : WritesAt(s, i)

\* What a step may refuse with.
RefusalKinds(step) ==
  CASE step.do \in {"ask", "replay", "is", "match", "unique"} -> {step.kind}
    [] step.do = "find" -> IF "kind" \in DOMAIN step THEN {step.kind} ELSE {}
    [] step.do = "put_if" ->
         {IF x \in DOMAIN step.zero THEN step.zero[x] ELSE step.zero.stale :
            x \in {y \in RowStates[step.table] :
                     y \notin step.in \/ step.version # "any"}}
    [] OTHER -> {}

-----------------------------------------------------------------------------
(* Every command *)

\* What it refuses with when a lost role hides the row it updates.
MissKinds(step) ==
  IF step.do = "put_if" THEN {step.zero[x] : x \in DOMAIN step.zero} ELSE {}

StepDos == {"ask", "replay", "find", "lock", "is", "match", "insert", "unique",
            "put", "put_if", "record"}

\* A check is of a row that has been read.
WellFormed(op) ==
  LET s == op.steps IN
  /\ Len(s) \in Nat
  /\ \A i \in 1..Len(s) :
       /\ s[i].do \in StepDos
       /\ s[i].do = "replay" => s[i].kind = "keyConflict"
       /\ s[i].do \notin {"ask", "replay", "record"} =>
            "table" \in DOMAIN s[i] /\ s[i].table \in Tables
       /\ s[i].do \in {"put", "put_if"} =>
            s[i].to \in RowStates[s[i].table] \cup {Same}
       /\ (s[i].do \in {"is", "match"}
           \/ (s[i].do = "put_if" /\ s[i].version = "read")) =>
            \E f \in 1..(i - 1) : FindsAt(s, f, s[i].table)

\* The endpoint has a status for whatever a step refuses with.
HasAnswers(op) ==
  /\ NoAnswer \notin op.rejects \cup {op.ok}
  /\ \A k \in DOMAIN op.answers : op.answers[k] # NoAnswer
  /\ \A i \in 1..Len(op.steps) :
       RefusalKinds(op.steps[i]) \cup MissKinds(op.steps[i]) \subseteq DOMAIN op.answers

(* Locks *)

\* The lock that guards the state of a row.
Guard == [account |-> "account", reconciliation |-> "account",
          credential |-> "credential", defaultModel |-> "credential"]

Preserves(step) == step.to = Same \/ step.in \subseteq {step.to}

Preserved(s, t) == \A i \in 1..Len(s) : PutsAt(s, i, t) => Preserves(s[i])

\* Who changes the state of a guarded row takes its lock, before or after.
TakesGuards(op) ==
  LET s == op.steps IN
  \A t \in DOMAIN Guard :
    ~Preserved(s, t) => ~Tidied(s, t) /\ \E l \in 1..Len(s) : LocksAt(s, l, Guard[t])

\* The step reads a row whose lock has been taken.
Guarded(s, f, t) ==
  /\ t \in DOMAIN Guard /\ FindsAt(s, f, t)
  /\ \E l \in 1..(f - 1) : LocksAt(s, l, Guard[t])

(* Refusals *)

\* The row was found under its lock in a state this update is for.
FoundFit(s, i) ==
  LET t == s[i].table IN
  /\ s[i].do = "put_if" /\ s[i].version = "any" /\ t # "defaultModel"
  /\ \E f, k \in 1..(i - 1) :
       /\ f < k /\ Guarded(s, f, t) /\ NoPuts(s, t, f, i - 1)
       /\ IsAt(s, k, t) /\ s[k].in \subseteq s[i].in /\ NoFinds(s, t, k, i - 1)

\* Before this update of a credential nothing but a default model is deleted,
\* whose credential is active.
AfterTheDefault(s, i) ==
  /\ s[i].do = "put_if" /\ s[i].version = "any" /\ s[i].table = "credential"
  /\ "active" \in s[i].in /\ NoPuts(s, "credential", 1, i - 1)
  /\ \A j \in 1..(i - 1) : WritesAt(s, j) =>
       s[j].do = "put" /\ s[j].table = "defaultModel" /\ s[j].in = {"present"}

\* A refusal that is returned comes before any write, or never.
RefusesFirst(op) ==
  LET s == op.steps IN
  \A i \in 1..Len(s) :
    RefusalKinds(s[i]) # {} /\ "throws" \notin DOMAIN s[i] /\ s[i].do # "replay" =>
      \/ \A j \in 1..(i - 1) : ~WritesAt(s, j)
      \/ FoundFit(s, i) \/ AfterTheDefault(s, i)

\* The row of this update may be hidden, and the refusal is returned.
MayMiss(s, i) ==
  s[i].do = "put_if" /\ s[i].table \notin OwnTables /\ "throws" \notin DOMAIN s[i]

\* What comes before is an insert or the removal of a default model.
LeavesLittle(op) ==
  LET s == op.steps IN
  \A i \in 1..Len(s) : MayMiss(s, i) => \A j \in 1..(i - 1) : WritesAt(s, j) =>
    \/ AddsAt(s, j)
    \/ s[j].do = "put" /\ s[j].table = "defaultModel" /\ s[j].to = "absent"

\* Nothing comes before.
LeavesNothing(op) ==
  LET s == op.steps IN
  \A i \in 1..Len(s) : MayMiss(s, i) => \A j \in 1..(i - 1) : ~WritesAt(s, j)

-----------------------------------------------------------------------------
(* The default model: it is set where the credential is found active, and    *)
(* the credential changed where no default model is found, under one lock    *)

FindsIn(s, t, states) ==
  \E f, k \in 1..Len(s) :
    /\ f < k /\ Guarded(s, f, t) /\ NoPuts(s, t, f, Len(s))
    /\ IsAt(s, k, t) /\ s[k].in \subseteq states /\ NoFinds(s, t, k, Len(s))

KeepsDefault(op) ==
  LET s == op.steps IN
  /\ (\E i \in 1..Len(s) : PutsAt(s, i, "defaultModel") /\ s[i].to # "absent") =>
       FindsIn(s, "credential", {"active"})
  /\ ~Preserved(s, "credential") => FindsIn(s, "defaultModel", {"absent"})

(* Checks: of a row under its lock, of the version that is written, or of a  *)
(* state in which alone the row is written                                   *)

\* All that is read of the row is read before it is written.
FindsFirst(s, t) ==
  \A w \in 1..Len(s) : PutsAt(s, w, t) => NoFinds(s, t, w, Len(s))

Versioned(s, t) ==
  /\ \E w \in 1..Len(s) : PutsAt(s, w, t)
  /\ \A w \in 1..Len(s) : PutsAt(s, w, t) =>
       s[w].do = "put_if" /\ s[w].version \in {"header", "read", "sent"}

CheckedUnderLock(s, i, t) ==
  \E f, k \in 1..Len(s) :
    /\ f < k /\ Guarded(s, f, t) /\ NoPuts(s, t, 1, f) /\ NoFinds(s, t, f + 1, Len(s))
    /\ IsAt(s, k, t) /\ s[k].in \subseteq s[i].in
    /\ t = "defaultModel" => "absent" \in s[i].in

CheckedWithVersion(s, i, t) ==
  /\ Versioned(s, t) /\ FindsFirst(s, t) /\ NoFinds(s, t, i, Len(s))
  /\ \E m \in 1..Len(s) : MatchAt(s, m, t) /\ NoFinds(s, t, m, Len(s))

CheckedByWrite(s, i, t) ==
  \A w \in 1..Len(s) :
    ~LocksAt(s, w, t) /\ (PutsAt(s, w, t) => s[w].in \subseteq s[i].in)

ChecksLast(op) ==
  LET s == op.steps IN
  \A i \in 1..Len(s) :
    /\ s[i].do = "is" /\ NoPuts(s, s[i].table, 1, i - 1) =>
         \/ CheckedUnderLock(s, i, s[i].table)
         \/ CheckedWithVersion(s, i, s[i].table)
         \/ CheckedByWrite(s, i, s[i].table)
    /\ s[i].do = "match" /\ NoPuts(s, s[i].table, 1, i - 1) => Versioned(s, s[i].table)

-----------------------------------------------------------------------------
(* Retries *)

ReplaysAt(s, i) == s[i].do = "replay"
Replays(s) == \E i \in 1..Len(s) : ReplaysAt(s, i)

\* The step is never passed without a write.
MustWriteAt(s, i) ==
  \/ AddsAt(s, i)
  \/ /\ \/ s[i].do = "put_if"
        \/ s[i].do = "put" /\ s[i].in = RowStates[s[i].table]
     /\ ~Tidied(s, s[i].table)

\* A command with a key looks for its record before it writes, writes, and
\* records success alone with what it writes.
Recorded(op) ==
  LET s == op.steps IN
  /\ \E i \in 1..Len(s) : s[i].do = "record"
  /\ \A i \in 1..Len(s) :
       /\ s[i].do = "record" => s[i].status = op.ok
       /\ ReplaysAt(s, i) => \A j \in 1..(i - 1) : ~WritesAt(s, j)
  /\ \E i \in 1..Len(s) : MustWriteAt(s, i)
  /\ \A k \in DOMAIN op.answers : op.answers[k] # op.ok

\* One without a key names the version it changes ...
NamesVersionAt(s, w) == s[w].do = "put_if" /\ s[w].version = "header"
NamesVersion(s) == \E w \in 1..Len(s) : NamesVersionAt(s, w)

\* ... or takes the row out of the states it is for.
TakesOutAt(s, t, f, k, w) ==
  /\ f < k /\ k < w /\ FindsAt(s, f, t) /\ IsAt(s, k, t) /\ PutsAt(s, w, t)
  /\ s[w].do = "put" /\ ~Tidied(s, t)
  /\ s[k].in \subseteq s[w].in /\ s[w].to \notin s[k].in \cup {Same}
  /\ \A j \in 1..Len(s) : (PutsAt(s, j, t) => j = w) /\ (FindsAt(s, j, t) => j = f)

TakesOut(s) ==
  \E t \in Tables : \E f, k, w \in 1..Len(s) : TakesOutAt(s, t, f, k, w)

MayBeRetried(op) ==
  LET s == op.steps IN
  IF Replays(s) THEN Recorded(op)
  ELSE /\ \A i \in 1..Len(s) : s[i].do # "record"
       /\ Writes(s) => NamesVersion(s) \/ TakesOut(s)

-----------------------------------------------------------------------------

\* Every command of the catalogue has these shapes.
ASSUME CatalogueAssumption ==
  \A o \in DOMAIN Operations :
    LET op == Operations[o] IN
    /\ WellFormed(op) /\ HasAnswers(op) /\ TakesGuards(op) /\ RefusesFirst(op)
    /\ KeepsDefault(op) /\ ChecksLast(op) /\ MayBeRetried(op) /\ LeavesLittle(op)
    /\ o \notin LeftByHalf => LeavesNothing(op)
=============================================================================
