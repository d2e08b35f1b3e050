----------------------------- MODULE PdfRenderer -----------------------------
(***************************************************************************)
(* Renders share a browser.  A browser and what is known of it make a      *)
(* generation; one generation is current.  The first render that finds     *)
(* none launches it and the others wait for the same launch.  A generation *)
(* one of whose contexts cannot be closed is quarantined: no render enters *)
(* it any more, those in it go on, and the last to leave closes it, or a   *)
(* timer when the last one stays too long.  When the worker stops, what is *)
(* open is closed.                                                         *)
(*                                                                         *)
(* One JavaScript thread: an action is an answer of the browser, a timer   *)
(* or the resumption of a render, with what follows it in the same turn.   *)
(* A timer that is set may go off at any time, so that checks of the time  *)
(* left, and of the signal to abort, may have either outcome.              *)
(***************************************************************************)
EXTENDS Naturals, FiniteSets

CONSTANTS
  Renders,         \* calls of renderHtmlToPdf
  MaxAdmissions    \* MAX_ADMISSION_RETRIES: 5 in the code

ASSUME RendererAssumption == IsFiniteSet(Renders) /\ MaxAdmissions \in Nat \ {0}

NoGeneration == 0

\* Every attempt of a render launches one browser at most.
Generations == 1..(Cardinality(Renders) * MaxAdmissions)

VARIABLES
  render,     \* each call: how far it is, in which generation, and its attempts
  gen,        \* the generations
  current,    \* currentGeneration
  launch,     \* the generation of inFlightLaunchPromise
  sequence,   \* generationSequence
  stop        \* onModuleDestroy: not called, waiting for a launch, past it

renderVars == <<render, gen, current, launch, sequence, stop>>

RenderPCs == {"new", "waiting", "acquired", "opening", "preparing", "rendering",
              "closing", "done"}

RendererTypeOK ==
  /\ render \in [Renders -> [pc : RenderPCs, gen : Generations \cup {NoGeneration},
                             attempts : 0..MaxAdmissions]]
  /\ gen \in [Generations ->
       [browser : {"none", "launching", "up", "gone"}, contexts : Nat,
        unhealthy : BOOLEAN, drain : BOOLEAN, closed : BOOLEAN, listed : BOOLEAN,
        ending : BOOLEAN, asked : BOOLEAN, drained : BOOLEAN]]
  /\ current \in Generations \cup {NoGeneration}
  /\ launch \in Generations \cup {NoGeneration}
  /\ sequence \in 0..Cardinality(Generations)
  /\ stop \in {"no", "launch", "browsers"}

\* drain: its drainTimer is set; closed: triggerGenerationClose has run; listed:
\* it is among activeGenerations; ending: closeBrowserBounded is running.  Of the
\* model alone: asked, the browser was told to close; drained, the timer went off.
RendererInit ==
  /\ render = [r \in Renders |-> [pc |-> "new", gen |-> NoGeneration, attempts |-> 0]]
  /\ gen = [g \in Generations |->
       [browser |-> "none", contexts |-> 0, unhealthy |-> FALSE, drain |-> FALSE,
        closed |-> FALSE, listed |-> FALSE, ending |-> FALSE, asked |-> FALSE,
        drained |-> FALSE]]
  /\ current = NoGeneration /\ launch = NoGeneration /\ sequence = 0
  /\ stop = "no"

RenderAt(r, pc) == render[r].pc = pc
EndsRender(r)         == render' = [render EXCEPT ![r].pc = "done"]

-----------------------------------------------------------------------------
(* A generation *)

CloseBrowser(x) == [x EXCEPT !.asked = TRUE, !.ending = TRUE]

\* triggerGenerationClose
TriggerClose(x) ==
  IF x.closed THEN x ELSE [CloseBrowser(x) EXCEPT !.closed = TRUE, !.drain = FALSE]

\* Faulty variant: the browser is closed under the renders that are left.
QuarantineAtOnce(x) == TriggerClose([x EXCEPT !.unhealthy = TRUE])

\* quarantineGeneration
Quarantine(x) ==
  LET y == [x EXCEPT !.unhealthy = TRUE] IN
  IF y.contexts = 0 THEN TriggerClose(y)
  ELSE [y EXCEPT !.drain = @ \/ ~y.closed]

\* decrementActiveContexts
Leave(x) ==
  LET y == [x EXCEPT !.contexts = IF @ = 0 THEN 0 ELSE @ - 1] IN
  IF y.unhealthy /\ y.contexts = 0 THEN TriggerClose(y) ELSE y

-----------------------------------------------------------------------------
(* A render is admitted to a generation. *)

Serving == current # NoGeneration /\ ~gen[current].unhealthy

\* getHealthyGeneration: the current one, the one on its way, or a new one.
AcquireGeneration(r, attempts) ==
  \/ /\ Serving
     /\ render' = [render EXCEPT ![r] =
          [pc |-> "acquired", gen |-> current, attempts |-> attempts]]
     /\ UNCHANGED <<gen, launch, sequence>>
  \/ /\ ~Serving
     /\ launch # NoGeneration
     /\ render' = [render EXCEPT ![r] =
          [pc |-> "waiting", gen |-> launch, attempts |-> attempts]]
     /\ UNCHANGED <<gen, launch, sequence>>
  \/ /\ ~Serving
     /\ launch = NoGeneration
     /\ sequence' = sequence + 1
     /\ launch' = sequence'
     /\ gen' = [gen EXCEPT ![sequence'].browser = "launching"]
     /\ render' = [render EXCEPT ![r] =
          [pc |-> "waiting", gen |-> sequence', attempts |-> attempts]]

\* No time left, aborted, or the renderer is closing.
RefuseRender(r) == EndsRender(r) /\ UNCHANGED <<gen, launch, sequence>>

StartRender(r) ==
  /\ RenderAt(r, "new")
  /\ RefuseRender(r) \/ (stop = "no" /\ AcquireGeneration(r, 0))
  /\ UNCHANGED <<current, stop>>

\* Faulty variant: the render that launched waits for the browser itself.
StopWaitingForOthers(r) ==
  /\ RenderAt(r, "waiting")
  /\ \E q \in Renders : q # r /\ RenderAt(q, "waiting")
  /\ EndsRender(r)
  /\ UNCHANGED <<gen, current, launch, sequence, stop>>

\* raceAcquisition: the timer or the signal; the launch goes on.
StopWaiting(r) ==
  /\ RenderAt(r, "waiting")
  /\ EndsRender(r)
  /\ UNCHANGED <<gen, current, launch, sequence, stop>>

\* The render resumes; the generation may have changed meanwhile.
Admit(r) ==
  LET g == render[r].gen IN
  /\ RenderAt(r, "acquired")
  /\ IF stop # "no" THEN RefuseRender(r)
     ELSE IF ~gen[g].unhealthy /\ g = current
     THEN /\ gen' = [gen EXCEPT ![g].contexts = @ + 1]
          /\ render' = [render EXCEPT ![r].pc = "opening"]
          /\ UNCHANGED <<launch, sequence>>
     ELSE \/ RefuseRender(r)
          \/ /\ render[r].attempts + 1 < MaxAdmissions
             /\ AcquireGeneration(r, render[r].attempts + 1)
  /\ UNCHANGED <<current, stop>>

-----------------------------------------------------------------------------
(* A browser *)

\* Who waits for the launch is told how it ended.
TellWaiting(g, pc) ==
  render' = [r \in Renders |-> IF RenderAt(r, "waiting") /\ render[r].gen = g
                               THEN [render[r] EXCEPT !.pc = pc] ELSE render[r]]

\* A browser that comes up when the renderer closes is closed, and only then
\* does the launch fail.
Launched(g) ==
  /\ launch = g /\ gen[g].browser = "launching"
  /\ IF stop = "no"
       THEN /\ gen' = [gen EXCEPT ![g].browser = "up", ![g].listed = TRUE]
            /\ current' = g
            /\ launch' = NoGeneration
            /\ TellWaiting(g, "acquired")
       ELSE /\ gen' = [gen EXCEPT ![g] = CloseBrowser([@ EXCEPT !.browser = "up"])]
            /\ UNCHANGED <<current, launch, render>>
  /\ UNCHANGED <<sequence, stop>>

LaunchFails(g) ==
  /\ launch = g /\ gen[g].browser = "launching"
  /\ gen' = [gen EXCEPT ![g].browser = "gone"]
  /\ launch' = NoGeneration
  /\ TellWaiting(g, "done")
  /\ UNCHANGED <<current, sequence, stop>>

\* The disconnected event: the browser has crashed or was closed.
Disconnected(g) ==
  /\ gen[g].browser = "up" /\ ~gen[g].ending
  /\ gen' = [gen EXCEPT ![g].browser = "gone", ![g].listed = FALSE]
  /\ current' = IF current = g THEN NoGeneration ELSE current
  /\ UNCHANGED <<render, launch, sequence, stop>>

\* closeBrowserBounded ends: the browser is gone, or a timer has gone off first.
BrowserEnds(g) ==
  /\ gen[g].ending
  /\ \E b \in {gen[g].browser, "gone"} :
       /\ gen' = [gen EXCEPT ![g].ending = FALSE, ![g].listed = FALSE, ![g].browser = b]
       /\ current' = IF b = "gone" /\ current = g THEN NoGeneration ELSE current
  /\ IF launch = g THEN launch' = NoGeneration /\ TellWaiting(g, "done")
                   ELSE UNCHANGED <<launch, render>>
  /\ UNCHANGED <<sequence, stop>>

DrainTimer(g) ==
  /\ gen[g].drain
  /\ gen' = [gen EXCEPT ![g] = [TriggerClose(@) EXCEPT !.drained = TRUE, !.drain = FALSE]]
  /\ UNCHANGED <<render, current, launch, sequence, stop>>

-----------------------------------------------------------------------------
(* A render in its generation *)

Up(r) == gen[render[r].gen].browser = "up"

RenderGoes(r, pc) ==
  /\ render' = [render EXCEPT ![r].pc = pc]
  /\ UNCHANGED <<gen, current, launch, sequence, stop>>

\* browser.newContext, route and newPage answer; no timer runs meanwhile.
ContextOpens(r) ==
  /\ RenderAt(r, "opening") /\ Up(r)
  /\ RenderGoes(r, "preparing") \/ RenderGoes(r, "closing")

ContextFails(r) ==
  /\ RenderAt(r, "opening")
  /\ gen' = [gen EXCEPT ![render[r].gen] = Leave(@)]
  /\ EndsRender(r)
  /\ UNCHANGED <<current, launch, sequence, stop>>

PageOpens(r) ==
  /\ RenderAt(r, "preparing")
  /\ (Up(r) /\ RenderGoes(r, "rendering")) \/ RenderGoes(r, "closing")

Setup(r) == ContextOpens(r) \/ ContextFails(r) \/ PageOpens(r)

SettingUp(r) == render[r].pc \in {"opening", "preparing"} /\ Up(r)

\* The PDF, an error, the timer or the signal: the first settles the render.
SettleRender(r) == RenderAt(r, "rendering") /\ RenderGoes(r, "closing")

\* closeOnce: the render is answered after its context is closed, or not.
EndRender(r, failed) ==
  LET g == render[r].gen IN
  /\ RenderAt(r, "closing")
  /\ gen' = [gen EXCEPT ![g] = Leave(IF failed THEN Quarantine(@) ELSE @)]
  /\ current' = IF failed /\ current = g THEN NoGeneration ELSE current
  /\ EndsRender(r)
  /\ UNCHANGED <<launch, sequence, stop>>

ContextCloses(r) == \E failed \in BOOLEAN : EndRender(r, failed)
CloseTimesOut(r) == EndRender(r, TRUE)

-----------------------------------------------------------------------------
(* The worker stops. *)

CloseListed ==
  gen' = [g \in Generations |-> IF gen[g].listed
            THEN [CloseBrowser(gen[g]) EXCEPT !.listed = FALSE, !.drain = FALSE]
            ELSE gen[g]]

Destroy ==
  /\ stop = "no"
  /\ current' = NoGeneration
  /\ IF launch = NoGeneration
       THEN stop' = "browsers" /\ CloseListed
       ELSE /\ stop' = "launch"
            /\ gen' = [g \in Generations |->
                 IF gen[g].listed THEN [gen[g] EXCEPT !.drain = FALSE] ELSE gen[g]]
  /\ UNCHANGED <<render, launch, sequence>>

\* The launch has ended, or has taken too long.
DestroyGoesOn ==
  /\ stop = "launch"
  /\ stop' = "browsers"
  /\ CloseListed
  /\ UNCHANGED <<render, current, launch, sequence>>

-----------------------------------------------------------------------------
RendererNext ==
  \/ Destroy \/ DestroyGoesOn
  \/ \E g \in Generations : \/ Launched(g) \/ LaunchFails(g) \/ Disconnected(g)
                            \/ BrowserEnds(g) \/ DrainTimer(g)
  \/ \E r \in Renders :
       \/ StartRender(r) \/ StopWaiting(r) \/ Admit(r) \/ Setup(r) \/ SettleRender(r)
       \/ ContextCloses(r) \/ CloseTimesOut(r)

\* What the renderer itself sees to: its timers go off and its turns come; a
\* browser that is gone refuses what it is asked.
OwnStep(r) ==
  \/ StopWaiting(r) \/ Admit(r) \/ SettleRender(r) \/ CloseTimesOut(r)
  \/ Setup(r) /\ ~SettingUp(r)

RendererSpec ==
  /\ RendererInit /\ [][RendererNext]_renderVars
  /\ \A r \in Renders : WF_renderVars(OwnStep(r))

(* No browser is left running that nothing will close, and none is closed  *)
(* under a render before its time: one that is up is the current one, or   *)
(* was told to close, or has its drain timer, or is on the list of a       *)
(* renderer that stops; the renders in it are counted, and while there are *)
(* some it is told to close only by that timer or by the stop.             *)
BrowsersAreAccountedFor ==
  \A g \in Generations :
    /\ gen[g].browser = "up" =>
         \/ g = current \/ gen[g].asked \/ gen[g].drain
         \/ (stop = "launch" /\ gen[g].listed)
    /\ gen[g].contexts = Cardinality({r \in Renders :
         /\ render[r].gen = g
         /\ render[r].pc \in {"opening", "preparing", "rendering", "closing"}})
    /\ gen[g].asked /\ gen[g].contexts > 0 => gen[g].drained \/ stop # "no"

(* Every render is answered in the end, whatever its browser and the other *)
(* renders do, for its timers go off: except that a browser which is up    *)
(* may keep it for ever while it opens the context and the page, the one   *)
(* stretch the code awaits without a timer.                                *)
EveryRenderEnds ==
  \A r \in Renders :
    ~RenderAt(r, "new") ~> (RenderAt(r, "done") \/ [](SettingUp(r)))
=============================================================================
