------------------------------ MODULE PolicyRules ------------------------------
(***************************************************************************)
(* What supreme-policy decides from its configuration: which               *)
(* configurations it accepts, which routes it admits, and the gates of its *)
(* tools/pre-execute listener in their order.  The two memories the        *)
(* listener reads, of denied calls and of reasoning, are ToolGate's; here  *)
(* they are inputs.                                                        *)
(***************************************************************************)
EXTENDS Integers

CONSTANTS
  Scan(_, _, _),      \* the taint classes a scan reports: TaintScan
  ToolRisk(_),        \* the risk of a tool's name: Overreach
  Routes,             \* the ids a visibility profile may name
  Absent              \* a label that is not there

\* A configuration of the right shape.
SupremePolicyConfig ==
  [executionClass : {"CORE", "STANDARD", "SUPREME", "LAB"}, allowPaid : BOOLEAN, allowTrial : BOOLEAN,
   allowUnknownCost : BOOLEAN, requireVerificationForHighRisk : BOOLEAN, maxDelegationDepth : Int,
   enableUnicodeSanitization : BOOLEAN, logTaintAttempts : BOOLEAN, taintPolicy : {"LOG_ONLY", "DENY"},
   reasoningTracePolicy : {"OFF", "AUDIT", "ENFORCE"}, riskGatedCoT : BOOLEAN,
   cotVisibilityProfiles : UNION {[D -> {"verbose", "terse", "none"}] : D \in SUBSET Routes},
   denyCircumventionGuard : BOOLEAN, enableEncodingScan : BOOLEAN, capabilityClassGate : {"OFF", "AUDIT", "ENFORCE"},
   sanctionedCapabilityClasses : SUBSET STRING, labCapabilityClassAllowlist : SUBSET STRING]

\* The configurations apply() accepts.
ValidatePolicyConfig(c) ==
  /\ c \in SupremePolicyConfig
  /\ ~(c.reasoningTracePolicy = "ENFORCE" /\ c.executionClass = "CORE")
  /\ (c.allowPaid \/ c.allowTrial) => c.executionClass = "LAB"
  /\ ~c.allowUnknownCost
  /\ c.maxDelegationDepth \in 1..8
-----------------------------------------------------------------------------
\* Routes: whether one is admitted, what verification it then needs, and the
\* summary of both that goes into the system prompt.
AdmitsCost(c, cost) ==
  \/ cost \in {"FREE_CONFIRMED", "FREE_LIMITED"}
  \/ cost = "TRIAL" /\ c.allowTrial
  \/ cost = "PAID" /\ c.allowPaid

VerificationRequirement(c, risk, cost) ==
  CASE risk = "HIGH" -> IF c.requireVerificationForHighRisk THEN "REQUIRED" ELSE "BASIC"
    [] risk = "MEDIUM" -> "BASIC"
    [] cost = "PAID" /\ c.allowPaid /\ risk = "LOW" -> "STRICT"
    [] OTHER -> "NONE"

EvaluateRoutePolicy(c, risk, cost) ==
  [allowed |-> AdmitsCost(c, cost), verification |-> VerificationRequirement(c, risk, cost)]

ExecutionPolicySummary(c) ==
  [paidRoutes |-> IF c.allowPaid THEN "ALLOW_LAB_ONLY" ELSE "DENY", unknownCost |-> "DENY",
   trialRoutes |-> IF c.allowTrial THEN "ALLOW_LAB_ONLY" ELSE "DENY",
   highRiskVerification |-> IF c.requireVerificationForHighRisk THEN "REQUIRED" ELSE "BASIC"]
-----------------------------------------------------------------------------
\* Mutant: the list of the lab counts on every floor but the lowest.
IsCapabilityClassSanctionedAboveCore(c, label) ==
  \/ label \in c.sanctionedCapabilityClasses
  \/ c.executionClass # "CORE" /\ label \in c.labCapabilityClassAllowlist

IsCapabilityClassSanctioned(c, label) ==
  \/ label \in c.sanctionedCapabilityClasses
  \/ c.executionClass = "LAB" /\ label \in c.labCapabilityClassAllowlist

EvaluateCapabilityGate(c, label) ==
  IF label = Absent \/ c.capabilityClassGate = "OFF" \/ IsCapabilityClassSanctioned(c, label) THEN "ALLOW"
  ELSE IF c.capabilityClassGate = "ENFORCE" THEN "DENY" ELSE "AUDIT"

\* A label of the call itself wins over one in its arguments.
ExtractCapabilitySignal(call) == IF call.label # Absent THEN call.label ELSE call.argLabel

ResolveCotVisibility(c, call) ==
  IF call.visibility # Absent THEN call.visibility
  ELSE IF call.route \in DOMAIN c.cotVisibilityProfiles THEN c.cotVisibilityProfiles[call.route]
  ELSE "verbose"

\* trace is what is known of the session's last message, Absent for nothing.
EvaluateCoTGate(mode, trace) ==
  IF mode = "OFF" \/ trace = TRUE THEN "ALLOW"
  ELSE IF trace = FALSE /\ mode = "ENFORCE" THEN "DENY" ELSE "AUDIT"

EvaluateCoTEnforcement(mode, riskGated, risk, visibility, trace) ==
  LET effective == IF mode = "ENFORCE" /\ riskGated /\ risk # "HIGH" THEN "AUDIT" ELSE mode
  IN  IF effective = "ENFORCE" /\ visibility = "none" /\ trace = FALSE THEN "AUDIT"
      ELSE EvaluateCoTGate(effective, trace)
-----------------------------------------------------------------------------
CoTGate(c, call, trace) ==
  EvaluateCoTEnforcement(c.reasoningTracePolicy, c.riskGatedCoT, ToolRisk(call.tool),
                         ResolveCotVisibility(c, call), trace)

Taints(c, call, unicode, encoding) ==
  Scan(call.args, unicode /\ c.enableUnicodeSanitization, encoding /\ c.enableEncodingScan)

\* The listener: the first gate that denies, or "next".
PreExecute(c, call, remembered, trace) ==
  IF c.denyCircumventionGuard /\ remembered                                   THEN "deny_retry"
  ELSE IF EvaluateCapabilityGate(c, ExtractCapabilitySignal(call)) = "DENY"   THEN "capability"
  ELSE IF c.taintPolicy = "DENY" /\ Taints(c, call, TRUE, FALSE) # {}         THEN "unicode taint"
  ELSE IF c.taintPolicy = "DENY" /\ Taints(c, call, FALSE, TRUE) # {}         THEN "encoding taint"
  ELSE IF CoTGate(c, call, trace) = "DENY"                                    THEN "cot_missing"
  ELSE "next"

\* The events the listener records on the way, for a call that gets to next().
Audits(c, call, trace) ==
  (IF EvaluateCapabilityGate(c, ExtractCapabilitySignal(call)) = "AUDIT" THEN {"capability_class_unsanctioned"} ELSE {})
  \cup (IF c.logTaintAttempts /\ Taints(c, call, TRUE, TRUE) # {} THEN {"taint_detected"} ELSE {})
  \cup (IF CoTGate(c, call, trace) = "AUDIT" THEN {"cot_missing"} ELSE {})
-----------------------------------------------------------------------------
\* The configurations one setting stricter than c: a mode one further, a scan
\* or a requirement switched on, enforcement for all tools, a cost class
\* admitted no more, a class sanctioned no more, the
\* floor of another class than LAB, a profile that no longer excuses silence.
Stricter(c) ==
  LET next == [mode \in {"OFF", "AUDIT", "LOG_ONLY"} |->
                 CASE mode = "OFF" -> "AUDIT" [] mode = "AUDIT" -> "ENFORCE" [] mode = "LOG_ONLY" -> "DENY"]
      raised(f) == IF c[f] \in DOMAIN next THEN {[c EXCEPT ![f] = next[c[f]]]} ELSE {}
  IN  (UNION {raised(f) : f \in {"taintPolicy", "reasoningTracePolicy", "capabilityClassGate"}})
      \cup {[c EXCEPT ![f] = TRUE] : f \in {"enableUnicodeSanitization", "enableEncodingScan",
                                                   "requireVerificationForHighRisk"}}
      \cup {[c EXCEPT ![f] = FALSE] : f \in {"allowPaid", "allowTrial"}}
      \cup {[c EXCEPT !.riskGatedCoT = FALSE]}
      \cup {[c EXCEPT !.sanctionedCapabilityClasses = @ \ {label}] : label \in c.sanctionedCapabilityClasses}
      \cup {[c EXCEPT !.labCapabilityClassAllowlist = @ \ {label}] : label \in c.labCapabilityClassAllowlist}
      \cup {[c EXCEPT !.executionClass = class] : class \in {"CORE", "STANDARD", "SUPREME"}}
      \cup {[c EXCEPT !.cotVisibilityProfiles = [r \in {s \in DOMAIN @ : @[s] # "none"} |-> @[r]]]}

\* One treatment of a call after another is no milder: what passes it passed
\* before, and is recorded with as much.
Treatment(c, call, remembered, trace) ==
  [verdict |-> PreExecute(c, call, remembered, trace), audits |-> Audits(c, call, trace)]
NoMilder(t1, t2) ==
  t2.verdict = "next" => t1.verdict = "next" /\ t1.audits \subseteq t2.audits

\* A decision on a route after another is no laxer: what it admits was admitted
\* before, and is verified as much.
Levels == <<"NONE", "BASIC", "REQUIRED", "STRICT">>
NoLaxer(d1, d2) ==
  d2.allowed => d1.allowed /\ \E i, j \in DOMAIN Levels :
                                i <= j /\ Levels[i] = d1.verification /\ Levels[j] = d2.verification

\* What the prompt says of the floor is what becomes of a route.
Truthful(summary, decision, risk, cost) ==
  LET word == CASE cost = "TRIAL" -> summary.trialRoutes [] cost = "PAID" -> summary.paidRoutes
                [] cost = "UNKNOWN" -> summary.unknownCost [] OTHER -> "ALLOW"
  IN  /\ decision.allowed <=> word # "DENY"
      /\ risk = "HIGH" => decision.verification = summary.highRiskVerification
=============================================================================
