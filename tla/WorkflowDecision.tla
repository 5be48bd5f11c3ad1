--------------------------- MODULE WorkflowDecision ---------------------------
(***************************************************************************)
(* decideWorkflow(): how far a task may be spread over agents, given what  *)
(* the host counted - DENY, DIRECT, SUBAGENT, WORKFLOW or SUPREME_WORKFLOW *)
(* - and the depth rule supreme-policy keeps beside it.                    *)
(***************************************************************************)
EXTENDS Integers, Sequences

Complexities == {"simple", "moderate", "complex", "multi_stage"}
Risks == {"LOW", "MEDIUM", "HIGH"}
DegradeOrder == <<"SUPREME_WORKFLOW", "WORKFLOW", "SUBAGENT", "DIRECT">>
Rung(d) == CHOOSE i \in 1..4 : DegradeOrder[i] = d

\* A configuration as it comes, and what a caller of decide() passes; of the
\* token pressure only whether it is above 0.85.
WorkflowLimitsConfig ==
  [maxConcurrentAgents : Int, maxTotalAgents : Int, maxDepth : Int, workflowTimeoutMs : Int, subagentTimeoutMs : Int,
   allowedSubagentProviders : SUBSET STRING, shaped : BOOLEAN, requireVerifierPassOnClose : BOOLEAN]
LimitFields ==
  {"maxConcurrentAgents", "maxTotalAgents", "maxDepth", "workflowTimeoutMs", "subagentTimeoutMs",
   "allowedSubagentProviders", "shaped", "requireVerifierPassOnClose"}
WorkflowDecisionInput ==
  [complexity : Complexities, parallelizable : BOOLEAN, risk : Risks,
   requiresCapabilities : SUBSET STRING, availableCapabilities : SUBSET STRING, availableProviders : SUBSET STRING,
   depth : Nat, activeAgents : Nat, totalAgentsUsed : Nat,
   tokenPressureHigh : BOOLEAN, secretAccessRequested : BOOLEAN]

\* The limits the plugin accepts at apply(); shaped stands for the checks of
\* its lists and flags, which the decision does not read.
ValidateWorkflowLimits(l) ==
  /\ l.maxConcurrentAgents \in 1..8
  /\ l.maxTotalAgents \in 1..32
  /\ l.maxDepth \in 0..4
  /\ l.workflowTimeoutMs >= 1000 /\ l.subagentTimeoutMs >= 1000
  /\ l.allowedSubagentProviders # {}
  /\ l.shaped

ProvidersUsable(limits, in) == in.availableProviders \cap limits.allowedSubagentProviders # {}

Baseline(in) ==
  IF in.complexity = "simple" /\ ~in.parallelizable THEN "DIRECT"
  ELSE IF in.complexity = "multi_stage" \/ (in.parallelizable /\ in.complexity # "simple") THEN "WORKFLOW"
  ELSE "SUBAGENT"

Orchestrated(limits, in) ==
  /\ Baseline(in) = "WORKFLOW" /\ in.risk = "HIGH"
  /\ ProvidersUsable(limits, in)
  /\ in.depth < limits.maxDepth
  /\ in.activeAgents + 2 <= limits.maxConcurrentAgents

\* Mutant: the limit itself is still admitted.
ConstrainedAboveLimit(limits, in) ==
  \/ in.activeAgents > limits.maxConcurrentAgents
  \/ ~ProvidersUsable(limits, in)
  \/ in.tokenPressureHigh

\* What makes the ladder go down a rung; none of it depends on the rung, so a
\* task that goes down at all ends at DIRECT.
Constrained(limits, in) ==
  \/ in.activeAgents >= limits.maxConcurrentAgents
  \/ ~ProvidersUsable(limits, in)
  \/ in.tokenPressureHigh

Degrade(limits, in, d) ==
  IF d # "DIRECT" /\ Constrained(limits, in) THEN DegradeOrder[Rung(d) + 1] ELSE d

Exhausted(limits, in) == in.totalAgentsUsed >= limits.maxTotalAgents

\* Mutant: the depth is looked at after the budget.
BeyondBoundsLate(limits, in) ==
  \/ ~(in.requiresCapabilities \subseteq in.availableCapabilities)
  \/ in.depth > limits.maxDepth /\ ~Exhausted(limits, in)

BeyondBounds(limits, in) ==
  \/ ~(in.requiresCapabilities \subseteq in.availableCapabilities)
  \/ in.depth > limits.maxDepth

CloseGateOf(limits, in) ==
  IF in.risk = "HIGH" /\ limits.requireVerifierPassOnClose THEN "VERIFIER_PASS_REQUIRED" ELSE "NONE"

\* The loop of the ladder: no task goes down more than the three rungs there are.
Degraded(limits, in, d) ==
  LET down(e) == Degrade(limits, in, e)
  IN  down(down(down(d)))

Wanted(limits, in) == IF Orchestrated(limits, in) THEN "SUPREME_WORKFLOW" ELSE Baseline(in)

DecideWorkflow(limits, in) ==
  LET Verdict(d, from, verification, gate) ==
        [decision |-> d, degradedFrom |-> from, expectedVerification |-> verification, closeGate |-> gate]
      shape  == Wanted(limits, in)
      rung   == Degraded(limits, in, shape)
      demand == [LOW |-> "NONE", MEDIUM |-> "BASIC", HIGH |-> "REQUIRED"]
  IN  IF in.secretAccessRequested
      THEN Verdict("DENY", "none", "REQUIRED", "VERIFIER_PASS_REQUIRED")
      ELSE IF BeyondBounds(limits, in) THEN Verdict("DENY", "none", "NONE", "NONE")
      ELSE IF Exhausted(limits, in)    THEN Verdict("DIRECT", "none", "BASIC", CloseGateOf(limits, in))
      ELSE Verdict(rung, IF rung = shape THEN "none" ELSE shape, demand[in.risk], CloseGateOf(limits, in))

\* The policy plugin's own answer to a delegation.
EvaluateDelegationPolicy(maxDelegationDepth, depth, secretAccess) ==
  ~secretAccess /\ depth <= maxDelegationDepth

-----------------------------------------------------------------------------
\* How far a decision spreads a task.
FanOut(d) == IF d = "DENY" THEN 0 ELSE 5 - Rung(d)

\* The task of in under one step more of load: one agent more running, used
\* or deeper, a provider or a capability less, pressure, secrets.
Heavier(in) ==
  {[in EXCEPT ![f] = @ + 1] : f \in {"depth", "activeAgents", "totalAgentsUsed"}}
  \cup {[in EXCEPT !.availableProviders = @ \ {p}] : p \in in.availableProviders}
  \cup {[in EXCEPT !.availableCapabilities = @ \ {c}] : c \in in.availableCapabilities}
  \cup {[in EXCEPT ![f] = TRUE] : f \in {"tokenPressureHigh", "secretAccessRequested"}}
=============================================================================
