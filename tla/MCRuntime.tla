----------------------------- MODULE MCRuntime -----------------------------
\* Small instances of five modules, of which a behaviour runs one: the members
\* of a workspace, the messages of an agent, the bounded stages of a worker, the
\* clients of the database, and the lease of a delivery.
EXTENDS WorkspaceMembers, AgentMessages, BoundedStages, PgTransaction, DeliveryLease
CONSTANTS b1, b2, r3   \* bodies, and a message

VARIABLE part   \* the module that runs

runtimeVars == <<part, vars, agentVars, stageVars, pgVars, leaseVars>>

Is(role, status) == [role |-> role, status |-> status, version |-> 1]

\* An owner with another one, a suspended one, or an administrator.
MCFounding ==
  {<<Is("owner", "active"), Is("owner", "active")>>,
   <<Is("owner", "active"), Is("owner", "suspended")>>,
   <<Is("owner", "active"), Is("administrator", "active")>>}

MCSubjectOf == [c \in Calls |-> 1]

RuntimeInit ==
  /\ part \in {"members", "agent", "stages", "pg", "lease"}
  /\ Init /\ AgentInit /\ StagesInit /\ PgInit /\ LeaseInit
  \* two of the three messages have the same body: which ones, and which body,
  \* makes no difference
  /\ body \in {[r \in Requests |-> b1], [r \in Requests |-> IF r = r3 THEN b2 ELSE b1]}
  \* of a module that does not run, one initial state
  /\ part # "members" => row = [m \in Members |-> Is("owner", "active")]
  /\ part # "agent" => \A r \in Requests : body[r] = b1
  /\ part # "pg" => \A c \in Calls : sort[c] = [kind |-> "run", lifetime |-> FALSE]

Runs(p) ==
  /\ part = p /\ UNCHANGED part
  /\ p # "members" => UNCHANGED vars
  /\ p # "agent"   => UNCHANGED agentVars
  /\ p # "stages"  => UNCHANGED stageVars
  /\ p # "pg"      => UNCHANGED pgVars
  /\ p # "lease"   => UNCHANGED leaseVars

RuntimeNext ==
  \/ Next       /\ Runs("members")
  \/ AgentNext  /\ Runs("agent")
  \/ StagesNext /\ Runs("stages")
  \/ PgNext     /\ Runs("pg")
  \/ LeaseNext  /\ Runs("lease")

\* The fairness of FairSpec and of StagesFairness, of the behaviours in which the
\* members and the stages run.
RuntimeFairness ==
  /\ \A c \in Members : WF_vars(part = "members" /\ Step(c))
  /\ \A s \in Stages : WF_stageVars(part = "stages" /\ Timers(s))

RuntimeSpec == RuntimeInit /\ [][RuntimeNext]_runtimeVars /\ RuntimeFairness
=============================================================================
