------------------------------ MODULE Delegation ------------------------------
(***************************************************************************)
(* Hosts that ask supremeWorkflowPolicy.decide() before they start agents. *)
(* The policy keeps no count of its own: each host passes the counts it    *)
(* read, and starts the agents when it gets to it, with other hosts doing  *)
(* the same in between.  The listener of subagent/start sees each agent    *)
(* only once it runs, and records it when the contact graph does not have  *)
(* it.                                                                     *)
(*                                                                         *)
(* The hosts are not part of the repository: what a decision lets a host   *)
(* start is one agent, or two for SUPREME_WORKFLOW, which is what the      *)
(* decision makes room for (activeAgents + 2).                             *)
(***************************************************************************)
EXTENDS WorkflowDecision, ContactRules, FiniteSets

CONSTANTS
  Hosts,
  LimitSets,      \* limits the plugin may be configured with
  Tasks,          \* decision inputs; the host fills in the counts
  ChildOf(_),     \* the id a started agent gets, by its number
  Starter,        \* who the start is reported to come from
  MaxUsed         \* bound on agents ever started

ASSUME DelegationAssumption ==
  /\ \A l \in LimitSets : [f \in LimitFields |-> l[f]] \in WorkflowLimitsConfig
  /\ Tasks \subseteq WorkflowDecisionInput
  /\ IsFiniteSet(Hosts)
  /\ MaxUsed \in Nat

VARIABLES
  limits,         \* the configuration apply() accepted
  active,         \* agents running, by number
  used,           \* agents ever started
  asking,         \* host -> its task and the counts it read, or nothing
  grant,          \* host -> agents it still may start
  detected        \* agents recorded as started outside the contact graph

delegation == <<limits, active, used, asking, grant, detected>>

Nothing == <<>>

DelegationInit ==
  /\ limits \in {l \in LimitSets : ValidateWorkflowLimits(l)}
  /\ active = {} /\ used = 0
  /\ asking = [h \in Hosts |-> Nothing]
  /\ grant = [h \in Hosts |-> 0]
  /\ detected = {}

\* The host reads its counts.
Read(h, task) ==
  /\ asking[h] = Nothing /\ grant[h] = 0
  /\ asking' = [asking EXCEPT ![h] =
       [task EXCEPT !.activeAgents = Cardinality(active), !.totalAgentsUsed = used]]
  /\ UNCHANGED <<limits, active, used, grant, detected>>

Slots(d) == IF d = "SUPREME_WORKFLOW" THEN 2 ELSE IF d \in {"WORKFLOW", "SUBAGENT"} THEN 1 ELSE 0

\* WorkflowPolicyService.decide(), on counts that may be old by now.
Decide(h) ==
  /\ asking[h] # Nothing
  /\ grant' = [grant EXCEPT ![h] = Slots(DecideWorkflow(limits, asking[h]).decision)]
  /\ asking' = [asking EXCEPT ![h] = Nothing]
  /\ UNCHANGED <<limits, active, used, detected>>

\* The host starts an agent; subagent/start reports it.
Launch(h) ==
  /\ grant[h] > 0 /\ used < MaxUsed
  /\ used' = used + 1
  /\ active' = active \cup {used + 1}
  /\ grant' = [grant EXCEPT ![h] = @ - 1]
  /\ detected' = IF Detected(limits, Starter, ChildOf(used + 1)) THEN detected \cup {used + 1} ELSE detected
  /\ UNCHANGED <<limits, asking>>

\* An agent ends.
End(a) ==
  /\ active' = active \ {a}
  /\ UNCHANGED <<limits, used, asking, grant, detected>>

DelegationNext ==
  \/ \E h \in Hosts : (\E task \in Tasks : Read(h, task)) \/ Decide(h) \/ Launch(h)
  \/ \E a \in active : End(a)

DelegationSpec == DelegationInit /\ [][DelegationNext]_delegation
-----------------------------------------------------------------------------
\* The most one host may start on one decision.
Most == IF limits.maxConcurrentAgents > 1 THEN 2 ELSE 1

\* The limit on concurrent agents is exceeded by no more than the other hosts
\* may start on counts they read meanwhile, and the total by no more than all
\* of them may: with one host, and agents started one by one, both are kept.
AdmissionsBounded ==
  /\ Cardinality(active) <= limits.maxConcurrentAgents + Most * (Cardinality(Hosts) - 1)
  /\ used <= limits.maxTotalAgents - 1 + Most * Cardinality(Hosts)
=============================================================================
