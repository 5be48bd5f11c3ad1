------------------------------- MODULE MCAgents -------------------------------
(***************************************************************************)
(* Bounded instances of Delegation, of CordisKernel, of ProfileSetup and   *)
(* of ToolGate, and single applications of the rules that go with          *)
(* delegation.  A behaviour is one of the four (its scene; the others      *)
(* rest), or one sample put to one rule (variable trial):                  *)
(*   decide     a task and the same task under more load                   *)
(*   tool       a call under a configuration and under a stricter one      *)
(*   route      a route under a configuration and under a stricter one     *)
(*   shape      two calls' arguments                                       *)
(*   contact    a tool call and a contact graph                            *)
(*   overreach  a delegation and the limits it may exceed                  *)
(*   scan       a call's arguments                                         *)
(***************************************************************************)
EXTENDS Delegation, CordisKernel, ProfileSetup, ToolGate

CONSTANTS None, h1, h2, s1, s2, s3, x1, x2, x3, c1
CONSTANT Scenes     \* the scenes of the run

MCTokenSeq(tool) ==
  CASE tool = "subagent"      -> <<"subagent">>
    [] tool = "send_message"  -> <<"send", "message">>
    [] tool = "spawn"         -> <<"spawn">>
    [] tool = "spawn_helper"  -> <<"spawn", "helper">>
    [] tool = "copy_file"     -> <<"copy", "file">>
    [] tool = "web_search"    -> <<"web", "search">>
    [] OTHER                  -> <<tool>>
MCTokensOf(tool) == ToSet(MCTokenSeq(tool))

O == INSTANCE Overreach WITH
       TokenSeq <- MCTokenSeq, NoLabel <- None,
       CommandTokens <- {"bash", "exec", "spawn", "run"}, NetworkTokens <- {"web", "fetch"},
       WriteTokens <- {"copy", "write"}, DelegationTokens <- {"delegate", "subagent", "send", "message"}
\* The name "m:string,n" is written like two members.
MCNameOrder == <<"m", "m:string,n", "n", "o">>
MCNameText(n) == IF n = "m:string,n" THEN <<"m", ":", "string", ",", "n">> ELSE <<n>>
MCShapeLength == 16

S == INSTANCE TaintScan WITH
       ScanNodes <- 4, ScanCount <- 3, ScanHits <- 2, MinRunLength <- 3,
       ShapeDepth <- 1, ShapeWidth <- 2, ShapeLength <- MCShapeLength,
       NameOrder <- MCNameOrder, NameText <- MCNameText
P == INSTANCE PolicyRules WITH
       Scan <- S!ScanToolArguments, ToolRisk <- O!ClassifyToolRisk, Routes <- {"agent"}, Absent <- None

-----------------------------------------------------------------------------
(***************************************************************************)
(* Delegation: limits of one and of two places, one set of them refused.   *)
(***************************************************************************)
Text(s) == [text |-> s, plain |-> TRUE]
Spelt(s) == [text |-> s, plain |-> FALSE]
Edge(a, b) == [from |-> Text(a), to |-> Text(b)]

Limits(concurrent, total, depth) ==
  [maxConcurrentAgents |-> concurrent, maxTotalAgents |-> total, maxDepth |-> depth,
   workflowTimeoutMs |-> 1000, subagentTimeoutMs |-> 1000, allowedSubagentProviders |-> {"spawn"},
   shaped |-> TRUE, requireVerifierPassOnClose |-> TRUE,
   agentContactPolicy |-> "LOG_ONLY", allowedContacts |-> {Edge("provider:spawn", "c1")}, commsToolNames |-> {}]
MCLimitSets == {Limits(1, 3, 1), Limits(2, 4, 1), Limits(9, 4, 1)}
MCChildOf(n) == Text(IF n = 1 THEN "c1" ELSE "c2")
MCStarter == Text("provider:spawn")

Task(complexity, parallelizable, risk) ==
  [complexity |-> complexity, parallelizable |-> parallelizable, risk |-> risk,
   requiresCapabilities |-> {}, availableCapabilities |-> {}, availableProviders |-> {"spawn"},
   depth |-> 0, activeAgents |-> 0, totalAgentsUsed |-> 0, tokenPressureHigh |-> FALSE, secretAccessRequested |-> FALSE]
MCTasks == {Task("moderate", FALSE, "LOW"), Task("complex", TRUE, "HIGH")}
-----------------------------------------------------------------------------
(***************************************************************************)
(* CordisKernel: a chain of dependencies listed backwards whose middle may *)
(* fail, two providers of one service, a name listed twice.                *)
(***************************************************************************)
Plugin(name, inject, provides, hook, dispose) ==
  [name |-> name, enabled |-> TRUE, known |-> TRUE, inject |-> inject, provides |-> provides,
   hook |-> hook, dispose |-> dispose, throws |-> name = "middle"]
Base == Plugin("base", {}, <<"a">>, TRUE, TRUE)
Middle == Plugin("middle", {"a"}, <<"b">>, FALSE, TRUE)
Top == Plugin("top", {"b"}, << >>, TRUE, TRUE)
Rival == Plugin("rival", {}, <<"b">>, TRUE, FALSE)
MCProfiles ==
  {<<Top, Middle, Base>>, <<Rival, Base, [Middle EXCEPT !.known = FALSE]>>,
   <<Base, Base, [Rival EXCEPT !.enabled = FALSE]>>}

(***************************************************************************)
(* ProfileSetup: two compositions, one of them forced, one without builds. *)
(***************************************************************************)
Asked(composition, force, build) == [composition |-> composition, force |-> force, build |-> build]
MCRequests ==
  {Asked("core", FALSE, TRUE), Asked("lab", FALSE, TRUE), Asked("lab", TRUE, TRUE), Asked("standard", FALSE, FALSE)}

(***************************************************************************)
(* ToolGate: a call that awaits next() while others come and go, and more  *)
(* sessions and shapes than the memories hold.  The history is cut at five *)
(* of denials and of sessions that spoke, together: a session beyond its   *)
(* bound of shapes and a session beyond the bound of sessions, or three    *)
(* that spoke, one more than the map holds.                                *)
(***************************************************************************)
MCSession == {s1, s2, s3}
MCShape == {x1, x2, x3}
MCCall == {c1}
MCSpoken == {s \in Session : reasoned[s] # Unknown}
MCHistory == Cardinality(denied) + Cardinality(MCSpoken) <= 5
MCSymmetry == Permutations(MCShape)
-----------------------------------------------------------------------------
(***************************************************************************)
(* Samples.                                                                *)
(***************************************************************************)
Inputs ==
  [complexity : Complexities, parallelizable : BOOLEAN, risk : {"MEDIUM", "HIGH"},
   requiresCapabilities : {{}, {"k"}}, availableCapabilities : {{"k"}},
   availableProviders : {{"spawn"}, {"other", "spawn"}},
   depth : 0..2, activeAgents : 0..2, totalAgentsUsed : {0, 3},
   tokenPressureHigh : BOOLEAN, secretAccessRequested : {FALSE}]

String(marks, hex, base64) == [t |-> "string", marks |-> marks, hex |-> hex, base64 |-> base64]
Clean == String({}, 0, 2)
Hidden == String({"bidi"}, 0, 0)
Both == String({"bidi", "tag"}, 3, 3)
Digits == String({}, 1, 3)
Number == [t |-> "number"]
List(items) == [t |-> "array", items |-> items]
Object(items) == [t |-> "object", items |-> items]
Scalars == {Clean, Hidden, Both, Digits, Number}
Args ==
  Scalars \cup {List(<<x, y>>) : x \in Scalars, y \in Scalars}
  \cup {Object(<<x, List(<<y, z>>)>>) : x \in Scalars, y \in Scalars, z \in Scalars}
  \cup {List(<<List(<<List(<<>>), x>>), y>>) : x \in Scalars, y \in Scalars}
  \cup {List(<<w, x, y, z>>) : w \in {Clean, Both}, x \in {Clean, Both}, y \in Scalars, z \in Scalars}

Config(class, taint, cot, gate, profiles, gated, unicode, encoding, sanctioned, lab) ==
  [executionClass |-> class, taintPolicy |-> taint, reasoningTracePolicy |-> cot, capabilityClassGate |-> gate,
   cotVisibilityProfiles |-> profiles, riskGatedCoT |-> gated, enableUnicodeSanitization |-> unicode,
   enableEncodingScan |-> encoding, sanctionedCapabilityClasses |-> sanctioned, labCapabilityClassAllowlist |-> lab,
   denyCircumventionGuard |-> TRUE, logTaintAttempts |-> TRUE, allowPaid |-> FALSE, allowTrial |-> FALSE,
   allowUnknownCost |-> FALSE, maxDelegationDepth |-> 3, requireVerificationForHighRisk |-> TRUE]
Configs ==
  {c \in {Config(class, taint, cot, gate, profiles, gated, TRUE, encoding, {"ROUTINE"}, {"LABWORK"}) :
            class \in {"CORE", "STANDARD", "LAB"}, taint \in {"LOG_ONLY", "DENY"},
            cot \in {"AUDIT", "ENFORCE"}, gate \in {"AUDIT", "ENFORCE"},
            profiles \in {<<>>, "agent" :> "none"}, gated \in BOOLEAN, encoding \in BOOLEAN} :
     P!ValidatePolicyConfig(c)}
Calls ==
  [tool : {"bash", "read"}, route : {"agent"}, label : {None, "ROUTINE", "LABWORK"}, argLabel : {None},
   visibility : {None, "verbose"}, args : {Clean, List(<<Hidden>>), List(<<Clean, Digits>>)}]
RouteConfigs ==
  {c \in {[Config(class, "DENY", "AUDIT", "AUDIT", <<>>, TRUE, TRUE, TRUE, {}, {}) EXCEPT
              !.allowPaid = paid, !.allowTrial = trial, !.requireVerificationForHighRisk = required] :
            class \in {"STANDARD", "LAB"}, paid \in BOOLEAN, trial \in BOOLEAN, required \in BOOLEAN} :
     P!ValidatePolicyConfig(c)}
RouteAsks == [risk : {"LOW", "MEDIUM", "HIGH"}, cost : {"FREE_CONFIRMED", "FREE_LIMITED", "TRIAL", "PAID", "UNKNOWN"}]

\* Arguments of a call: an object, within it strings, numbers, lists, objects.
Primitive == {[t |-> "string"], [t |-> "number"]}
Members(written, values) ==
  {[t |-> "object", written |-> written, at |-> at] : at \in [ToSet(written) -> values]}
Array(items) == [t |-> "array", items |-> items]
Nested ==
  Primitive \cup Members(<<"m">>, Primitive)
  \cup {Array(items) : items \in {<<>>} \cup [1..2 -> Primitive] \cup [1..3 -> {[t |-> "string"]}]}
  \cup {Array(<<Array(<<x>>)>>) : x \in Primitive}
Arguments ==
  Members(<<>>, Nested) \cup Members(<<"n">>, Nested) \cup Members(<<"n", "m">>, Nested)
  \cup Members(<<"m", "n">>, Primitive \cup {Array(<<>>)}) \cup Members(<<"o", "n", "m">>, Primitive)
  \cup Members(<<"m:string,n">>, Primitive) \cup Members(<<"m:string,n", "m">>, Primitive)
Ids == {Text("a"), Spelt("b"), Spelt(""), None}
ToolNames == {Text("send_message"), Spelt("subagent"), Text("copy_file"), Text("relay"), Text("spawn_helper"), None}
ArgSets ==
  {<<>>} \cup {n :> v : n \in {"agent_id", "target"}, v \in Ids}
  \cup {"agent_id" :> v @@ "to" :> w : v \in Ids, w \in Ids}
Contacts ==
  [agentContactPolicy : {"LOG_ONLY", "DENY"},
   allowedContacts : {{}, {Edge("a", "b")}, {Edge("a", "b"), Edge("b", "a")}},
   commsToolNames : {{}, {Spelt("relay"), Text("spawn_helper"), Text("subagent"), None}}]
Execs == [tool : ToolNames, sessionId : {Text("a"), Spelt("")}, agentId : {Text("b"), None}, args : ArgSets]

Paths == UNION {[1..n -> {"a", "b", "/"}] : n \in 1..3} \cup {<<"a", "/", "a", "b">>}
Globs == {<<"a", "*">>, <<"a", "/", "*">>, <<"*", "*", "b">>, <<"?", "/", "?">>, <<"*", "*">>, <<"a", "/", "*", "*">>}
Scopes ==
  [maxRiskLevel : {"MEDIUM"}, approvalRequiredFor : {{"DEPLOY"}},
   allowedPaths : {<<>>} \cup {<<g>> : g \in Globs}, blockedPaths : {<<>>} \cup {<<g>> : g \in Globs},
   agentContactPolicy : {"LOG_ONLY"}, allowedContacts : {{}}, commsToolNames : {{}}]
Ceilings ==
  [maxRiskLevel : {"LOW", "MEDIUM", "HIGH"}, approvalRequiredFor : {{"DEPLOY"}}, allowedPaths : {<<>>}, blockedPaths : {<<>>},
   agentContactPolicy : {"LOG_ONLY", "DENY"}, allowedContacts : {{Edge("a", "b")}}, commsToolNames : {{}}]
PathCalls == [tool : {"subagent"}, tools : {{}}, paths : {{p} : p \in Paths}, riskLevel : {None}, taskClass : {None},
              approval : {None}, target : {None}]
RiskCalls ==
  [tool : {"subagent", "copy_file", "read"}, tools : SUBSET {"web_search", "send_message", "spawn_helper"}, paths : {{}},
   riskLevel : {None, "LOW", "HIGH", "HUGE"}, taskClass : {None, "DEPLOY", "OTHER"}, approval : {None, FALSE, TRUE},
   target : {None, "b", "c"}]
\* The call as the contact gate of the same listener sees it.
ExecOf(call) ==
  [tool |-> Text(call.tool), sessionId |-> Text("a"), agentId |-> None,
   args |-> IF call.target = None THEN <<>> ELSE "target" :> Text(call.target)]
-----------------------------------------------------------------------------
VARIABLES trial, scene

NoTrial == [on |-> FALSE]
Sampled(s) == trial = [on |-> TRUE, sample |-> s, done |-> FALSE, outcome |-> None]
Begun ==
  \/ \E l \in {Limits(1, 4, 1), Limits(3, 4, 1)}, in \in Inputs : \E heavy \in Heavier(in) :
       Sampled([kind |-> "decide", limits |-> l, before |-> in, after |-> heavy])
  \/ \E c \in Configs : \E s \in P!Stricter(c) \ {c} : \E call \in Calls, known \in {<<FALSE, FALSE>>, <<FALSE, None>>, <<TRUE, FALSE>>} :
       /\ P!ValidatePolicyConfig(s)
       /\ Sampled([kind |-> "tool", lax |-> c, strict |-> s, call |-> call, remembered |-> known[1], trace |-> known[2]])
  \/ \E c \in RouteConfigs, ask \in RouteAsks : \E s \in P!Stricter(c) \ {c} :
       /\ P!ValidatePolicyConfig(s)
       /\ Sampled([kind |-> "route", lax |-> c, strict |-> s, ask |-> ask])
  \/ \E v \in Arguments, w \in Arguments : Sampled([kind |-> "shape", args |-> <<v, w>>])
  \/ \E l \in Contacts, exec \in Execs : Sampled([kind |-> "contact", limits |-> l, exec |-> exec])
  \/ \E l \in Scopes, call \in PathCalls : Sampled([kind |-> "overreach", limits |-> l, call |-> call])
  \/ \E l \in Ceilings, call \in RiskCalls : Sampled([kind |-> "overreach", limits |-> l, call |-> call])
  \/ \E v \in Args : Sampled([kind |-> "scan", args |-> v])

Outcome(s) ==
  CASE s.kind = "decide"    -> [n \in {"before", "after"} |->
                                  [decision |-> DecideWorkflow(s.limits, s[n]).decision,
                                   delegable |-> EvaluateDelegationPolicy(1, s[n].depth, s[n].secretAccessRequested)]]
    [] s.kind = "tool"      -> <<P!Treatment(s.lax, [s.call EXCEPT !.label = None], s.remembered, s.trace),
                                 P!Treatment(s.lax, s.call, s.remembered, s.trace),
                                 P!Treatment(s.strict, s.call, s.remembered, s.trace)>>
    [] s.kind = "route"     -> [c \in {"lax", "strict"} |->
                                  [summary |-> P!ExecutionPolicySummary(s[c]),
                                   decision |-> P!EvaluateRoutePolicy(s[c], s.ask.risk, s.ask.cost)]]
    [] s.kind = "shape"     -> [i \in {1, 2} |-> S!DenySignature("tool", s.args[i])]
    [] s.kind = "contact"   -> PreExecute(s.limits, s.exec)
    [] s.kind = "overreach" -> O!AuditOverreach(s.limits, s.call, PreExecute(s.limits, ExecOf(s.call)))
    [] s.kind = "scan"      -> S!ScanToolArguments(s.args, TRUE, TRUE)

Judge ==
  /\ trial.on /\ ~trial.done
  /\ trial' = [trial EXCEPT !.done = TRUE, !.outcome = Outcome(trial.sample)]

(* What the scenes that are not played stand at. *)
FirstLimits == limits = Limits(1, 3, 1)
FirstProfile == profile = <<Top, Middle, Base>>
FirstRequest == request = Asked("core", FALSE, TRUE) /\ dist = {}

MCInit ==
  /\ DelegationInit /\ KernelInit /\ SetupInit /\ Init
  /\ scene \in Scenes
  /\ scene # "delegation" => FirstLimits
  /\ scene # "kernel" => FirstProfile
  /\ scene # "setup" => FirstRequest
  /\ IF scene = "trial" THEN Begun ELSE trial = NoTrial

MCNext ==
  /\ \/ scene = "delegation" /\ DelegationNext /\ UNCHANGED <<kernel, setup, vars, trial>>
     \/ scene = "kernel" /\ KernelNext /\ UNCHANGED <<delegation, setup, vars, trial>>
     \/ scene = "setup" /\ SetupNext /\ UNCHANGED <<delegation, kernel, vars, trial>>
     \/ scene = "gate" /\ Next /\ UNCHANGED <<delegation, kernel, setup, trial>>
     \/ scene = "trial" /\ Judge /\ UNCHANGED <<delegation, kernel, setup, vars>>
  /\ UNCHANGED scene

MCSpec == MCInit /\ [][MCNext]_<<scene, delegation, kernel, setup, vars, trial>>

Judged(kind) == trial.on /\ trial.done /\ trial.sample.kind = kind
-----------------------------------------------------------------------------
\* engine.ts:8: more load - another agent running or used, one level deeper,
\* a provider or a capability gone, token pressure - never spreads a task
\* further than it was before, through baseline, orchestration and ladder,
\* and never makes the policy plugin admit a delegation it refused.
LoadNeverRaisesFanOut ==
  Judged("decide") =>
    /\ FanOut(trial.outcome.after.decision) <= FanOut(trial.outcome.before.decision)
    /\ trial.outcome.after.delegable => trial.outcome.before.delegable

\* When one setting is made stricter (and the floor is not LAB), and when a
\* call says a capability class it did not say ("labeling can only RESTRICT,
\* never grant", policy engine.ts:839), a call that was refused is refused,
\* and one that was recorded is refused or recorded with as much.  A route
\* that was refused is refused, and one still admitted is verified as much;
\* what the system prompt says of the floor is what the gate then does.
StricterNeverPermits ==
  /\ Judged("tool") => /\ P!NoMilder(trial.outcome[1], trial.outcome[2])
                       /\ P!NoMilder(trial.outcome[2], trial.outcome[3])
  /\ Judged("route") => /\ P!NoLaxer(trial.outcome.lax.decision, trial.outcome.strict.decision)
                        /\ \A c \in {"lax", "strict"} :
                             P!Truthful(trial.outcome[c].summary, trial.outcome[c].decision,
                                        trial.sample.ask.risk, trial.sample.ask.cost)

\* Under DENY with a graph declared, a communication tool reaches next() only
\* along a declared edge: whichever argument names the recipient, however ids
\* and tool names are written, built-in tool or configured.  Only a start
\* without a target goes, and the calls of an agent without an id.  A tool
\* that is not communication is never refused, whatever its arguments are.
OnlyDeclaredContactsPass ==
  Judged("contact") =>
    LET lim   == trial.sample.limits
        exec  == trial.sample.exec
        tool  == Normalize(exec.tool)
        comms == DOMAIN DefaultCommsToolRegistry \cup ({Normalize(v) : v \in lim.commsToolNames} \ {""})
        named == {n \in DOMAIN exec.args : Normalize(exec.args[n]) # ""}
        rank(n) == CASE n = "agent_id" -> 1 [] n = "to" -> 2 [] OTHER -> 3
        from  == IF Normalize(exec.sessionId) # "" THEN Normalize(exec.sessionId) ELSE Normalize(exec.agentId)
    IN  IF tool \notin comms THEN trial.outcome = [verdict |-> "next", audit |-> "none"]
        ELSE (lim.agentContactPolicy = "DENY" /\ lim.allowedContacts # {} /\ from # "" /\ trial.outcome.verdict = "next")
             => \/ named = {} /\ tool \in {"subagent", "spawn_helper"}
                \/ \E n \in named : /\ \A k \in named : rank(n) <= rank(k)
                                    /\ Edge(from, Normalize(exec.args[n])) \in lim.allowedContacts

\* A path matches a glob when it can be cut into pieces, one for each atom,
\* that the atoms take.
Cut(path, atoms) ==
  \E ends \in [0..Len(atoms) -> 0..Len(path)] :
    /\ ends[0] = 0 /\ ends[Len(atoms)] = Len(path)
    /\ \A i \in DOMAIN atoms :
         LET piece == SubSeq(path, ends[i - 1] + 1, ends[i])
         IN  /\ ends[i - 1] <= ends[i]
             /\ CASE atoms[i] = "**" -> TRUE
                  [] atoms[i] = "*"  -> "/" \notin ToSet(piece)
                  [] atoms[i] = "?"  -> Len(piece) = 1 /\ piece # <<"/">>
                  [] OTHER -> piece = <<atoms[i]>>
Folded(glob) ==
  CASE glob = <<"*", "*", "b">> -> <<"**", "b">> [] glob = <<"*", "*">> -> <<"**">>
    [] glob = <<"a", "/", "*", "*">> -> <<"a", "/", "**">> [] OTHER -> glob
InScope(lim, path) ==
  LET some(globs) == \E i \in DOMAIN globs : Cut(path, Folded(globs[i]))
  IN  ~some(lim.blockedPaths) /\ (lim.allowedPaths = <<>> \/ some(lim.allowedPaths))

\* The places of a value and what is there, as far as depth and width reach.
RECURSIVE Places(_, _)
Places(v, path) ==
  IF Len(path) > 1 THEN {<<path, "deep">>}
  ELSE CASE v.t = "array" ->
              {<<path, IF Len(v.items) > 2 THEN "long" ELSE "array">>}
              \cup UNION {Places(v.items[i], Append(path, ToString(i))) : i \in DOMAIN v.items \cap {1, 2}}
         [] v.t = "object" ->
              LET first == {n \in DOMAIN v.at : n # "o" \/ Cardinality(DOMAIN v.at) <= 2}
              IN  {<<path, "object">>} \cup UNION {Places(v.at[n], Append(path, n)) : n \in first}
         [] OTHER -> {<<path, v.t>>}

\* Whether a value has a member whose name is written with separators.
RECURSIVE OddlyNamed(_)
OddlyNamed(v) ==
  CASE v.t = "array"  -> \E i \in DOMAIN v.items : OddlyNamed(v.items[i])
    [] v.t = "object" -> "m:string,n" \in DOMAIN v.at \/ \E n \in DOMAIN v.at : OddlyNamed(v.at[n])
    [] OTHER -> FALSE

\* The overreach audit of a call that the contact gate lets on records all
\* there is and nothing else - the risk above the ceiling, the approval that
\* is missing, the path that no glob allows or some glob blocks - and of one
\* that it refuses nothing.  A scan of arguments, when a listener comes to it,
\* finds the taint of the first nodes, just as many as its bounds allow.  The
\* signature of a call tells its arguments from any others by names, types
\* and order of items, unless depth, width or length cut the difference off
\* or a name is written with separators.
AuditsAreComplete ==
  /\ Judged("overreach") =>
       LET c == trial.sample.call
           lim == trial.sample.limits
           token == UNION {ToSet(MCTokenSeq(t)) : t \in {c.tool} \cup c.tools}
           risk == IF c.riskLevel \in {"LOW", "MEDIUM", "HIGH"} THEN c.riskLevel
                   ELSE IF token \cap {"bash", "spawn", "web", "copy"} # {} THEN "HIGH"
                   ELSE IF token \cap {"subagent", "send", "message"} # {} THEN "MEDIUM" ELSE "LOW"
           plain == c.tool # "subagent" /\ c.tools = {} /\ c.paths = {} 
                    /\ c.riskLevel = None /\ c.taskClass = None /\ c.approval = None
           refused == c.tool = "subagent" /\ lim.agentContactPolicy = "DENY" /\ c.target = "c"
       IN  /\ refused => trial.outcome = {}
           /\ ~refused =>
                /\ "RISK_ABOVE_MAX" \in trial.outcome
                     <=> ~plain /\ <<risk, lim.maxRiskLevel>> \in {<<"MEDIUM", "LOW">>, <<"HIGH", "LOW">>, <<"HIGH", "MEDIUM">>}
                /\ "APPROVAL_REQUIRED" \in trial.outcome <=> c.taskClass = "DEPLOY" /\ c.approval # TRUE
                /\ "PATH_SCOPE_EXCEEDED" \in trial.outcome <=> \E p \in c.paths : ~InScope(lim, p)
  /\ Judged("scan") =>
       LET nodes == S!Preorder(trial.sample.args)
           seen == {i \in 1..4 \cap DOMAIN nodes : nodes[i].t = "string"}
           marks(i) == IF i \in seen THEN Cardinality(nodes[i].marks) ELSE 0
           reached == {i \in seen : FoldLeft(LAMBDA n, k : n + marks(k), 0, [k \in 1..(i - 1) |-> k]) < 3}
       IN  trial.outcome = UNION {nodes[i].marks : i \in reached}
                           \cup (IF \E i \in seen : nodes[i].base64 >= 3 THEN {"encoding_blob"} ELSE {})
  /\ Judged("shape") =>
       LET same == Places(trial.sample.args[1], <<>>) = Places(trial.sample.args[2], <<>>)
       IN  /\ same => trial.outcome[1] = trial.outcome[2]
           /\ trial.outcome[1] = trial.outcome[2] =>
                \/ same \/ Len(trial.outcome[1]) = MCShapeLength
                \/ \E i \in {1, 2} : OddlyNamed(trial.sample.args[i])
=============================================================================
