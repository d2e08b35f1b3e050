--------------------------- MODULE BoundedStages ---------------------------
(***************************************************************************)
(* executeBoundedStage of the job runner over the permits of ocrSemaphore.  *)
(*                                                                         *)
(* One JavaScript thread: an action is a timer, or the settling of an      *)
(* engine, with every promise reaction that follows it before the next     *)
(* timer.  The engine of a stage is a child process that ends when it      *)
(* likes, whether or not it was told to stop.                              *)
(***************************************************************************)
EXTENDS Integers, Sequences, FiniteSets

CONSTANTS
  Stages,       \* executions of the bounded stage "ocr"
  Capacity      \* ocrConcurrency

ASSUME StagesAssumption ==
  /\ IsFiniteSet(Stages)
  /\ Capacity \in Nat \ {0}

VARIABLES
  available,    \* AsyncSemaphore.available
  queue,        \* AsyncSemaphore.queue: the stages that wait for a permit
  state,        \* state of each stage
  engine,       \* what the stage promise waits for
  permit,       \* heldPermit
  result,       \* how resultPromise was settled
  registry      \* cleanupOverrunRegistry

stageVars == <<available, queue, state, engine, permit, result, registry>>

States  == {"NEW", "PENDING", "SUCCEEDED", "FAILED", "TIMED_OUT", "CLEANUP_OVERRUN"}
Engines == {"none", "waiting", "running", "settled"}
Results == {"none", "value", "error", "timeout"}

StagesTypeOK ==
  /\ available \in 0..Capacity
  /\ queue \in Seq(Stages)
  /\ state \in [Stages -> States]
  /\ engine \in [Stages -> Engines]
  /\ permit \in [Stages -> BOOLEAN]
  /\ result \in [Stages -> Results]
  /\ registry \subseteq Stages

StagesInit ==
  /\ available = Capacity
  /\ queue = <<>>
  /\ state = [s \in Stages |-> "NEW"]
  /\ engine = [s \in Stages |-> "none"]
  /\ permit = [s \in Stages |-> FALSE]
  /\ result = [s \in Stages |-> "none"]
  /\ registry = {}

-----------------------------------------------------------------------------

\* The stage starts: it takes a permit or waits in line for one.
Start(s) ==
  /\ state[s] = "NEW"
  /\ state' = [state EXCEPT ![s] = "PENDING"]
  /\ IF available > 0
       THEN /\ available' = available - 1
            /\ permit' = [permit EXCEPT ![s] = TRUE]
            /\ engine' = [engine EXCEPT ![s] = "running"]
            /\ UNCHANGED queue
       ELSE /\ queue' = Append(queue, s)
            /\ engine' = [engine EXCEPT ![s] = "waiting"]
            /\ UNCHANGED <<available, permit>>
  /\ UNCHANGED <<result, registry>>

\* The engine of s settles and its permit goes to the first in line, whose
\* engine starts, or back.
Settle(s) ==
  IF queue = <<>>
    THEN /\ available' = available + 1
         /\ permit' = [permit EXCEPT ![s] = FALSE]
         /\ engine' = [engine EXCEPT ![s] = "settled"]
         /\ UNCHANGED queue
    ELSE /\ permit' = [permit EXCEPT ![s] = FALSE, ![Head(queue)] = TRUE]
         /\ engine' = [engine EXCEPT ![s] = "settled", ![Head(queue)] = "running"]
         /\ queue' = Tail(queue)
         /\ UNCHANGED available

\* In time: the stage ends as its engine did.
Succeeds(s) ==
  /\ state[s] = "PENDING" /\ engine[s] = "running"
  /\ Settle(s)
  /\ state' = [state EXCEPT ![s] = "SUCCEEDED"]
  /\ result' = [result EXCEPT ![s] = "value"]
  /\ UNCHANGED registry

Fails(s) ==
  /\ state[s] = "PENDING" /\ engine[s] = "running"
  /\ Settle(s)
  /\ state' = [state EXCEPT ![s] = "FAILED"]
  /\ result' = [result EXCEPT ![s] = "error"]
  /\ UNCHANGED registry

Without(q, i) == [j \in 1..(Len(q) - 1) |-> IF j < i THEN q[j] ELSE q[j + 1]]

\* The timer fires while the stage waits: it leaves the line, and there is
\* no permit to give back.
TimesOutWaiting(s) ==
  /\ state[s] = "PENDING" /\ engine[s] = "waiting"
  /\ \E i \in 1..Len(queue) : queue[i] = s /\ queue' = Without(queue, i)
  /\ engine' = [engine EXCEPT ![s] = "settled"]
  /\ state' = [state EXCEPT ![s] = "TIMED_OUT"]
  /\ result' = [result EXCEPT ![s] = "timeout"]
  /\ UNCHANGED <<available, permit, registry>>

\* Or while the engine runs: it is told to stop, and waited for.
TimesOut(s) ==
  /\ state[s] = "PENDING" /\ engine[s] = "running"
  /\ state' = [state EXCEPT ![s] = "TIMED_OUT"]
  /\ UNCHANGED <<available, queue, engine, permit, result, registry>>

\* The engine settles before the cleanup timer.
CleansUp(s) ==
  /\ state[s] = "TIMED_OUT" /\ engine[s] = "running"
  /\ Settle(s)
  /\ result' = [result EXCEPT ![s] = "timeout"]
  /\ UNCHANGED <<state, registry>>

\* Faulty variant: the cleanup timer leaves the answer to the engine.
OverrunsSilently(s) ==
  /\ state[s] = "TIMED_OUT" /\ engine[s] = "running" /\ s \notin registry
  /\ registry' = registry \cup {s}
  /\ UNCHANGED <<available, queue, engine, permit, result, state>>

\* Faulty variant: the permit is given back although the engine runs.
OverrunsReleased(s) ==
  /\ state[s] = "TIMED_OUT" /\ engine[s] = "running"
  /\ queue = <<>>
  /\ available' = available + 1
  /\ permit' = [permit EXCEPT ![s] = FALSE]
  /\ state' = [state EXCEPT ![s] = "CLEANUP_OVERRUN"]
  /\ result' = [result EXCEPT ![s] = "timeout"]
  /\ registry' = registry \cup {s}
  /\ UNCHANGED <<queue, engine>>

\* The cleanup timer fires first: the stage is over, its permit is kept.
Overruns(s) ==
  /\ state[s] = "TIMED_OUT" /\ engine[s] = "running"
  /\ state' = [state EXCEPT ![s] = "CLEANUP_OVERRUN"]
  /\ result' = [result EXCEPT ![s] = "timeout"]
  /\ registry' = registry \cup {s}
  /\ UNCHANGED <<available, queue, engine, permit>>

\* The engine settles at last.
SettlesLate(s) ==
  /\ state[s] = "CLEANUP_OVERRUN" /\ engine[s] = "running"
  /\ Settle(s)
  /\ registry' = registry \ {s}
  /\ UNCHANGED <<state, result>>

Timers(s)  == TimesOutWaiting(s) \/ TimesOut(s) \/ Overruns(s)
Settles(s) == Succeeds(s) \/ Fails(s) \/ CleansUp(s) \/ SettlesLate(s)

StagesNext == \E s \in Stages : Start(s) \/ Timers(s) \/ Settles(s)

\* Timers fire; engines need not settle.
StagesFairness == \A s \in Stages : WF_stageVars(Timers(s))

StagesSpec     == StagesInit /\ [][StagesNext]_stageVars
StagesFairSpec == StagesSpec /\ StagesFairness

-----------------------------------------------------------------------------
(* Properties *)

Holders == {s \in Stages : permit[s]}

(* Every permit is either free or with exactly one stage whose engine runs,  *)
(* so no more engines run at a time than ocrConcurrency, and none is lost.   *)
PermitsAreConserved ==
  /\ available + Cardinality(Holders) = Capacity
  /\ Holders = {s \in Stages : engine[s] = "running"}

(* Nobody waits while a permit is free, and only stages that wait are in     *)
(* line, once each.                                                          *)
NoIdlePermit ==
  /\ queue # <<>> => available = 0
  /\ \A s \in Stages :
       engine[s] = "waiting"
         <=> \E i \in 1..Len(queue) : queue[i] = s
  /\ \A i, j \in 1..Len(queue) : queue[i] = queue[j] => i = j

(* An engine that outlives its stage stays visible to stop(), which waits    *)
(* for activeJobsCount, until it settles, and keeps its permit so long.      *)
OverrunsAreVisible ==
  registry = {s \in Stages : result[s] # "none" /\ engine[s] = "running"}

(* What a stage answered is never overridden by a late end of its engine.    *)
FirstAnswerStands ==
  [][\A s \in Stages : result[s] # "none" => result'[s] = result[s]]_stageVars

(* Every stage that starts is answered, even if no engine ever stops.        *)
EveryStageAnswered ==
  \A s \in Stages : state[s] = "PENDING" ~> result[s] # "none"
=============================================================================
