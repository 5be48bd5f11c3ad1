----------------------------- MODULE ContactRules -----------------------------
(***************************************************************************)
(* The agent-to-agent contact policy: which tool calls are communication,  *)
(* who is contacted, whether the declared graph has the edge, and what the *)
(* tools/pre-execute listener of supreme-workflow-policy does about it.    *)
(*                                                                         *)
(* A string of the outside is [text, plain]: its text once trimmed (and,   *)
(* for tool names, lower-cased), and whether it was written that way.      *)
(* NotAString is any other value.                                          *)
(***************************************************************************)
EXTENDS Sequences, TLC

CONSTANTS
  TokensOf(_),          \* the alphanumeric tokens of a tool name
  NotAString

\* Tool name -> channel, for the names that are built in.
DefaultCommsToolRegistry ==
  LET spawns   == {"subagent", "spawn", "spawn_agent", "task", "task_delegation", "delegate", "delegate_task"}
      messages == {"send_message", "send", "send_to_agent", "message_agent", "notify_agent"}
  IN  [n \in spawns |-> "spawn"] @@ [n \in messages |-> "message"]

Normalize(v) == IF v = NotAString THEN "" ELSE v.text

\* normalizeContactId() and normalizeToolName() trim (and the latter lowers
\* the case of) a string, and take anything else for an empty one.
NormalizeContactId(v) == Normalize(v)
NormalizeToolName(v) == Normalize(v)

InferCommsChannel(name) ==
  IF TokensOf(name) \cap {"spawn", "delegate", "subagent", "workflow"} # {} THEN "spawn" ELSE "message"

\* The names of the configuration are added to those built in, never put in
\* the place of one.
BuildCommsToolRegistry(extra) ==
  LET names == {NormalizeToolName(v) : v \in extra} \ {""}
  IN  DefaultCommsToolRegistry @@ [n \in names |-> InferCommsChannel(n)]

IsCommunicationTool(registry, tool) == NormalizeToolName(tool) \in DOMAIN registry \ {""}
CommsChannelOf(registry, tool) == registry[NormalizeToolName(tool)]
-----------------------------------------------------------------------------
Decision(flagged, blocked, reason) == [flagged |-> flagged, blocked |-> blocked, reason |-> reason]

\* limits.allowedContacts is the set of declared edges, written as they were.
Declares(limits, from, to) ==
  \E edge \in limits.allowedContacts :
     NormalizeContactId(edge.from) = from /\ NormalizeContactId(edge.to) = to

EvaluateAgentContact(limits, contact) ==
  LET from == NormalizeContactId(contact.from)
      to   == NormalizeContactId(contact.to)
  IN  IF limits.allowedContacts = {}           THEN Decision(FALSE, FALSE, "NO_CONTACT_GRAPH")
      ELSE IF from = "" \/ to = ""             THEN Decision(FALSE, FALSE, "NOT_INTER_AGENT")
      ELSE IF Declares(limits, from, to)       THEN Decision(FALSE, FALSE, "CONTACT_IN_GRAPH")
      ELSE Decision(TRUE, limits.agentContactPolicy = "DENY", "CONTACT_OUTSIDE_GRAPH")

\* A message that names no recipient, whether or not a graph is declared.
UnresolvableRecipientDecision(limits) ==
  Decision(TRUE, limits.agentContactPolicy = "DENY", "A2A_RECIPIENT_UNRESOLVABLE")

\* The sender is the session of the calling agent, else the agent.
SenderOf(exec) ==
  IF Normalize(exec.sessionId) # "" THEN exec.sessionId ELSE exec.agentId

\* Mutant: the first of the names that is there at all, blank or not.
FirstContactTargetPresent(args) ==
  LET names == SelectSeq(<<"agent_id", "to", "target">>, LAMBDA n : n \in DOMAIN args)
  IN  IF names = <<>> THEN NotAString ELSE args[names[1]]

\* The recipient: the first of the three argument names that says something.
FirstContactTarget(args) ==
  LET names == SelectSeq(<<"agent_id", "to", "target">>,
                         LAMBDA n : n \in DOMAIN args /\ Normalize(args[n]) # "")
  IN  IF names = <<>> THEN NotAString ELSE args[names[1]]
-----------------------------------------------------------------------------
\* What the listener finds of a call, when there is something to find.
Inspect(limits, registry, exec) ==
  LET target  == FirstContactTarget(exec.args)
      channel == CommsChannelOf(registry, exec.tool)
  IN  IF ~IsCommunicationTool(registry, exec.tool) THEN Decision(FALSE, FALSE, "NOT_A_COMMS_TOOL")
      ELSE IF Normalize(target) # ""
      THEN EvaluateAgentContact(limits, [from |-> SenderOf(exec), to |-> target])
      ELSE IF channel = "message" THEN UnresolvableRecipientDecision(limits)
      ELSE Decision(FALSE, FALSE, "SPAWN_WITHOUT_TARGET")

\* The listener: a blocked call is denied without calling next(), a flagged
\* one is recorded.
PreExecute(limits, exec) ==
  LET found == Inspect(limits, BuildCommsToolRegistry(limits.commsToolNames), exec)
  IN  [verdict |-> IF found.blocked THEN "deny" ELSE "next",
       audit   |-> IF found.flagged THEN found.reason ELSE "none"]

\* subagent/start and workflow/agent-start come after the fact: a start that
\* is not in the graph can only be recorded.
Detected(limits, from, child) ==
  /\ NormalizeContactId(child) # ""
  /\ EvaluateAgentContact(limits, [from |-> from, to |-> child]).flagged
=============================================================================
