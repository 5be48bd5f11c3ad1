------------------------------- MODULE AuditTrail -------------------------------
(***************************************************************************)
(* supreme-observability: events of the host and audits of the other       *)
(* plugins become records of listed fields, and a writer appends them one  *)
(* at a time to a file it rotates when full.  What cannot be written is    *)
(* dropped and counted; nothing reaches the caller.                        *)
(*                                                                         *)
(* Values are left out: a record is its number, its event, the fields kept *)
(* and how its line compares with maxLineChars.  Every line is one unit of *)
(* maxFileBytes in characters, and two in bytes if it is not of ASCII.  The *)
(* waterfall seams record a call when it has returned, and nothing of one  *)
(* that rejected.                                                          *)
(***************************************************************************)
EXTENDS Integers, Sequences, TLC

CONSTANTS
  MaxFileBytes,    \* in lines of ASCII
  MaxEmits,        \* bound on the events of a process
  MaxLives         \* bound on the processes of a behaviour

ASSUME TrailAssumption == {MaxFileBytes, MaxEmits, MaxLives} \subseteq Nat \ {0}

VARIABLES
  life,            \* which process runs
  seq,             \* events emitted in this process
  chain,           \* records the write chain has still to settle
  sized,           \* whether the head of the chain is past the size check
  active,          \* the lines of the file
  fileSize,        \* its bytes
  cut,             \* whether the file ends in a partial line
  rotated,         \* the lines of the file it replaced (path.1)
  stats,           \* written, dropped, rotations
  disposed,        \* the plugin was unloaded
  appended,        \* history: all lines appended, in order
  overgrown        \* history: a check or rename failed on a full file

trail == <<life, seq, chain, sized, active, fileSize, cut, rotated, stats, disposed, appended, overgrown>>

-------------------------------------------------------------------------------
(* Records.                                                                 *)

RecordFields ==
  {"sessionId", "turn", "step", "provider", "model", "latencyMs", "ttftMs", "tool",
   "toolError", "subagent", "workflow", "compaction", "tokenPressure", "usageIn",
   "usageOut", "errorClass", "verificationId", "verificationStatus", "routeDecisionId",
   "benchmarkRunId", "workflowDecisionId", "detail"}

Width == {"fits", "wide", "long detail", "long"}

(* appendFile writes UTF-8: what the line of a record adds to the file. *)
Bytes(record) == IF record.width = "wide" THEN 2 ELSE 1

BuildRecord(number, event, fields, width) ==
  [life |-> life, seq |-> number, event |-> event,
   fields |-> fields \cap RecordFields, width |-> width]

(* serializeRecord: without its detail a long line may fit; one that still  *)
(* does not is cut, and is not JSON any more.                               *)
Readable(record) == record.width # "long"

(* What is recorded of the host's events, and the fields handed over. *)
SessionEvents ==
  "session/created" :> <<"session_started", {"sessionId"}>> @@
  "session/disposed" :> <<"session_ended", {"sessionId"}>> @@
  "turn/start" :> <<"turn_start", {"sessionId", "turn", "step"}>> @@
  "turn/end" :> <<"turn_end", {"sessionId", "turn", "step"}>> @@
  "step/start" :> <<"step_start", {"sessionId", "turn", "step"}>> @@
  "step/end" :> <<"step_end", {"sessionId", "turn", "step"}>> @@
  "tool/call" :> <<"tool_call", {"sessionId", "turn", "step", "tool"}>> @@
  "tool/result" :> <<"tool_result", {"sessionId", "turn", "step", "toolError", "errorClass"}>> @@
  "assistant/message" :>
    <<"assistant_message", {"sessionId", "turn", "step", "usageIn", "usageOut"}>> @@
  "request/context" :> <<"request_context", {"sessionId", "provider", "model"}>> @@
  "compaction/start" :> <<"compaction_started", {"sessionId", "detail"}>> @@
  "compaction/end" :> <<"compaction_ended", {"sessionId", "errorClass"}>>

CallEvents ==
  "agent/request" :>
    <<"llm_request", {"sessionId", "turn", "step", "provider", "model", "latencyMs"}>> @@
  "agent/request-error" :>
    <<"llm_request_error", {"provider", "turn", "step", "errorClass"}>> @@
  "tools/execute" :> <<"tool_executed", {"tool", "latencyMs", "toolError"}>>

AgentEvents ==
  "subagent/start" :> <<"subagent_started", {"subagent", "sessionId"}>> @@
  "subagent/end" :> <<"subagent_ended", {"subagent", "sessionId"}>> @@
  "workflow/start" :> <<"workflow_started", {"workflow"}>> @@
  "workflow/end" :> <<"workflow_ended", {"workflow"}>>

(* Two of the audits other plugins hand to record(). *)
Audits ==
  "latency" :> <<"task_latency", {"benchmarkRunId", "latencyMs", "detail"}>> @@
  "free claim" :> <<"free_route_evidence",
    {"provider", "model", "costClass", "source", "checkedAt", "status", "expiresAt"}>>

Recorded == SessionEvents @@ CallEvents @@ AgentEvents @@ Audits

-------------------------------------------------------------------------------
(* The writer.                                                              *)

TrailInit ==
  /\ life = 1 /\ seq = 0 /\ chain = << >> /\ sized = FALSE
  /\ active = << >> /\ fileSize = 0 /\ cut = FALSE /\ rotated = << >>
  /\ stats = [written |-> 0, dropped |-> 0, rotations |-> 0]
  /\ disposed = FALSE /\ appended = << >> /\ overgrown = FALSE

(* Mutant: what comes after dispose is not counted. *)
WriteUncounted(record) ==
  IF disposed THEN UNCHANGED <<chain, stats>>
  ELSE chain' = Append(chain, record) /\ UNCHANGED stats

Write(record) ==
  IF disposed
  THEN stats' = [stats EXCEPT !.dropped = @ + 1] /\ UNCHANGED chain
  ELSE chain' = Append(chain, record) /\ UNCHANGED stats

Emit(occurrence, width) ==
  LET event == Recorded[occurrence] IN
  /\ seq < MaxEmits
  /\ seq' = seq + 1
  /\ Write(BuildRecord(seq + 1, event[1], event[2], width))
  /\ UNCHANGED <<life, sized, active, fileSize, cut, rotated, disposed, appended, overgrown>>

(* The file's size in bytes and the line's length in characters. *)
Full == fileSize + 1 > MaxFileBytes

Torn == [torn |-> TRUE]

(* The active file, with its partial line if it has one. *)
Contents == IF cut THEN Append(active, Torn) ELSE active

(* The file is full and is renamed, over the one rotated before.  A rename  *)
(* that fails is swallowed and counted like one that worked.                *)
Rotate(renamed) ==
  /\ chain # << >> /\ ~sized /\ Full
  /\ IF renamed THEN active' = << >> /\ fileSize' = 0 /\ cut' = FALSE /\ rotated' = Contents
     ELSE UNCHANGED <<active, fileSize, cut, rotated>>
  /\ stats' = [stats EXCEPT !.rotations = @ + 1]
  /\ sized' = TRUE
  /\ appended' = IF renamed /\ cut THEN Append(appended, Torn) ELSE appended
  /\ overgrown' = (overgrown \/ ~renamed)
  /\ UNCHANGED <<life, seq, chain, disposed>>

(* stat() rejects: the size is unknown, and the line is appended. *)
SizeUnknown ==
  /\ chain # << >> /\ ~sized /\ Full
  /\ sized' = TRUE /\ overgrown' = TRUE
  /\ UNCHANGED <<life, seq, chain, active, fileSize, cut, rotated, stats, disposed, appended>>

LineOf(record) == IF cut \/ ~Readable(record) THEN Torn ELSE record

AppendLine ==
  /\ chain # << >> /\ (sized \/ ~Full)
  /\ active' = Append(active, LineOf(Head(chain))) /\ fileSize' = fileSize + Bytes(Head(chain))
  /\ appended' = Append(appended, LineOf(Head(chain)))
  /\ chain' = Tail(chain) /\ sized' = FALSE /\ cut' = FALSE
  /\ stats' = [stats EXCEPT !.written = @ + 1]
  /\ UNCHANGED <<life, seq, rotated, disposed, overgrown>>

(* What a failing append leaves of the line it was to write. *)
LeavesPart(halfway) ==
  /\ halfway => chain # << >> /\ (sized \/ ~Full)
  /\ cut' = (cut \/ halfway)
  /\ fileSize' \in fileSize .. IF halfway THEN fileSize + Bytes(Head(chain)) ELSE fileSize

(* mkdir() rejects, or appendFile() does, before or after writing a part. *)
DropLine(halfway) ==
  /\ chain # << >> /\ LeavesPart(halfway)
  /\ chain' = Tail(chain) /\ sized' = FALSE
  /\ stats' = [stats EXCEPT !.dropped = @ + 1]
  /\ UNCHANGED <<life, seq, active, rotated, disposed, appended, overgrown>>

(* The plugin is unloaded; the disposer waits for the chain. *)
Dispose ==
  /\ ~disposed /\ disposed' = TRUE
  /\ UNCHANGED <<life, seq, chain, sized, active, fileSize, cut, rotated, stats, appended, overgrown>>

(* Another process starts on the same files; what was chained is lost. *)
Reboot(halfway) ==
  /\ life < MaxLives /\ life' = life + 1
  /\ LeavesPart(halfway)
  /\ seq' = 0 /\ chain' = << >> /\ sized' = FALSE /\ disposed' = FALSE
  /\ stats' = [written |-> 0, dropped |-> 0, rotations |-> 0]
  /\ UNCHANGED <<active, rotated, appended, overgrown>>

(* readRecent: of the last lines of the active file, those it can read.     *)
Recent(count) ==
  LET all == Contents
  IN  {all[i] : i \in {k \in DOMAIN all : k > Len(all) - count /\ all[k] # Torn}}

TrailNext(occurrences, widths) ==
  \/ \E occurrence \in occurrences : \E width \in widths : Emit(occurrence, width)
  \/ \E renamed \in BOOLEAN : Rotate(renamed)
  \/ SizeUnknown
  \/ AppendLine
  \/ \E halfway \in BOOLEAN : DropLine(halfway) \/ Reboot(halfway)
  \/ Dispose

TrailSpec(occurrences, widths) == TrailInit /\ [][TrailNext(occurrences, widths)]_trail

-------------------------------------------------------------------------------
(* Properties.                                                              *)

IsSuffix(s, t) == Len(s) <= Len(t) /\ s = SubSeq(t, Len(t) - Len(s) + 1, Len(t))

Before(r, s) == r.life < s.life \/ (r.life = s.life /\ r.seq < s.seq)

(* The trail has no gap nobody is told of.  Each event of this process is   *)
(* on its way, written, or counted as dropped; the rotated and the active   *)
(* file together are the end of all that was ever appended, in the order of *)
(* the events, whatever checks, renames and appends failed between.  Unless *)
(* a check or a rename failed, the file exceeds its bound at most by what   *)
(* the characters of its last line take beyond a byte each, parts of lines  *)
(* counted.  What recent() shows was appended, and nothing readable is      *)
(* newer but shown.                                                         *)
TrailKeepsOrder ==
  LET readable == {i \in DOMAIN appended : appended[i] # Torn}
  IN  /\ stats.written + stats.dropped + Len(chain) = seq
      /\ IsSuffix(rotated \o active, appended)
      /\ \A i, j \in readable : i < j => Before(appended[i], appended[j])
      /\ overgrown \/ fileSize <= MaxFileBytes + 1
      /\ \A count \in 1..MaxEmits : \A record \in Recent(count) :
           /\ \E i \in readable : appended[i] = record
           /\ \A i \in readable : Before(record, appended[i]) => appended[i] \in Recent(count)
===============================================================================
