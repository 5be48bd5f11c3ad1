------------------------------- MODULE Overreach -------------------------------
(***************************************************************************)
(* The overreach audit: a delegation that asks for more than the           *)
(* configuration sanctions - a risk above the ceiling, a task class that   *)
(* needs an approval it does not carry, a path out of scope - is recorded, *)
(* never refused.                                                          *)
(*                                                                         *)
(* A path is a sequence of characters, a glob one of characters, "*" and   *)
(* "?"; pathMatchesGlob() turns the glob into a regular expression and     *)
(* asks whether the whole path matches it.                                 *)
(***************************************************************************)
EXTENDS Integers, Sequences

CONSTANTS
  CommandTokens, NetworkTokens, WriteTokens,   \* the token lists of both classifiers
  DelegationTokens,
  TokenSeq(_),                                 \* a tool name's tokens, in order
  NoLabel                                      \* a field that is absent, or no string

Separator == "/"

\* The atoms of the expression: any run of characters, a run within one
\* segment, one character of a segment, or the character itself.
RECURSIVE Atoms(_)
Atoms(glob) ==
  IF glob = <<>> THEN <<>>
  ELSE IF glob[1] = "*" /\ Len(glob) > 1 /\ glob[2] = "*" THEN <<"run">> \o Atoms(SubSeq(glob, 3, Len(glob)))
  ELSE <<IF glob[1] = "*" THEN "segment run" ELSE IF glob[1] = "?" THEN "one" ELSE glob[1]>> \o Atoms(Tail(glob))

\* Whether an atom may take the character, and whether it may take more.
Takes(atom, char) == \/ atom = "run"
                     \/ atom \in {"segment run", "one"} /\ char # Separator
                     \/ atom = char
Repeats(atom) == atom \in {"run", "segment run"}

RECURSIVE Matches(_, _)
Matches(path, atoms) ==
  IF atoms = <<>> THEN path = <<>>
  ELSE \/ Repeats(atoms[1]) /\ Matches(path, Tail(atoms))
       \/ /\ path # <<>> /\ Takes(atoms[1], path[1])
          /\ Matches(Tail(path), IF Repeats(atoms[1]) THEN atoms ELSE Tail(atoms))

\* The cache of expressions changes nothing of the answer.
PathMatchesGlob(path, glob) == Matches(path, Atoms(glob))

\* Mutant: the allowlist is looked at first.
EvaluatePathScopeAllowFirst(allowed, blocked, path) ==
  IF \E i \in DOMAIN allowed : PathMatchesGlob(path, allowed[i]) THEN [allowed |-> TRUE, matchedBlocked |-> 0]
  ELSE [allowed |-> allowed = <<>> /\ \A i \in DOMAIN blocked : ~PathMatchesGlob(path, blocked[i]), matchedBlocked |-> 0]

\* The blocklist comes first; an empty allowlist allows everything else.
\* matchedBlocked is the place of the glob that blocked, or 0.
EvaluatePathScope(allowed, blocked, path) ==
  LET hits == {i \in DOMAIN blocked : PathMatchesGlob(path, blocked[i])}
  IN  IF hits # {} THEN [allowed |-> FALSE, matchedBlocked |-> CHOOSE i \in hits : \A k \in hits : i <= k]
      ELSE [allowed |-> allowed = <<>> \/ \E i \in DOMAIN allowed : PathMatchesGlob(path, allowed[i]),
            matchedBlocked |-> 0]
-----------------------------------------------------------------------------
Levels == <<"LOW", "MEDIUM", "HIGH">>
RiskRank(level) == CHOOSE n \in 1..3 : Levels[n] = level

HighRiskToken(token) == token \in CommandTokens \cup NetworkTokens \cup WriteTokens
HasToken(tool, P(_)) == \E i \in DOMAIN TokenSeq(tool) : P(TokenSeq(tool)[i])

\* supreme-policy's classifier, and the copy workflow-policy extends with a
\* middle level.
ClassifyToolRisk(tool) == IF HasToken(tool, HighRiskToken) THEN "HIGH" ELSE "LOW"
ClassifyDelegationToolRisk(tool) ==
  IF HasToken(tool, HighRiskToken) THEN "HIGH"
  ELSE IF HasToken(tool, LAMBDA token : token \in DelegationTokens) THEN "MEDIUM"
  ELSE "LOW"

\* A call is a delegation when it is of the spawn tool or carries one of the
\* parameters of one.  Its tools are the tool called and those it asks for.
DelegationShaped(call) ==
  \/ call.tool = "subagent"
  \/ call.tools # {} \/ call.paths # {}
  \/ call.riskLevel # NoLabel \/ call.taskClass # NoLabel \/ call.approval # NoLabel
DelegationRequestOf(call) ==
  [tools |-> {call.tool} \cup call.tools, paths |-> call.paths, riskLevel |-> call.riskLevel,
   taskClass |-> call.taskClass, approved |-> call.approval = TRUE]

\* An explicit level wins over what the tools' names say.
RequestedRisk(request) ==
  IF request.riskLevel \in {"LOW", "MEDIUM", "HIGH"} THEN request.riskLevel
  ELSE LET ranks == {1} \cup {RiskRank(ClassifyDelegationToolRisk(t)) : t \in request.tools}
       IN  Levels[CHOOSE n \in ranks : \A k \in ranks : k <= n]

EvaluateOverreach(limits, request) ==
  LET outside == {p \in request.paths :
                    ~EvaluatePathScope(limits.allowedPaths, limits.blockedPaths, p).allowed}
  IN  (IF RiskRank(RequestedRisk(request)) > RiskRank(limits.maxRiskLevel) THEN {"RISK_ABOVE_MAX"} ELSE {})
      \cup (IF request.taskClass \in limits.approvalRequiredFor /\ ~request.approved
            THEN {"APPROVAL_REQUIRED"} ELSE {})
      \cup (IF outside # {} THEN {"PATH_SCOPE_EXCEEDED"} ELSE {})

\* What the listener of tools/pre-execute records of a call: nothing when its
\* contact gate (verdict "deny") has refused it, for it returns at once.
AuditOverreach(limits, call, contact) ==
  IF contact.verdict = "deny" \/ ~DelegationShaped(call) THEN {}
  ELSE EvaluateOverreach(limits, DelegationRequestOf(call))
=============================================================================
