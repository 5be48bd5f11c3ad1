--------------------------------- MODULE ToolGate ---------------------------------
(***************************************************************************)
(* supreme-policy on tools/pre-execute: concurrent tool calls, the memory  *)
(* of denied call shapes that refuses their repetition, and the memory of  *)
(* whether a session's last assistant message carried reasoning, which the *)
(* CoT gate enforces.  Both memories are bounded and forget the session    *)
(* that came first, active or not.                                         *)
(*                                                                         *)
(* A shape is a call signature: the tool and the names and types of its    *)
(* arguments.  What the capability and taint gates look at is not in the   *)
(* shape, so whether they refuse a call is left open, and so is what the   *)
(* rest of the waterfall decides after next().  Calls without an agent are *)
(* left out: they touch neither memory and the CoT gate never denies them. *)
(***************************************************************************)
EXTENDS BoundedMap, FiniteSets

CONSTANTS
  Session, Shape,
  Call,             \* calls that can be in flight at once
  MaxSessions,      \* sessions whose denials are remembered
  MaxShapes,        \* shapes remembered per session
  MaxTraces,        \* sessions whose last message is remembered
  Unknown           \* nothing known of a session's reasoning

ASSUME ToolGateAssumption ==
  /\ MaxSessions \in Nat \ {0} /\ MaxShapes \in Nat \ {0} /\ MaxTraces \in Nat \ {0}
  /\ Unknown \notin BOOLEAN

VARIABLES
  denySessions,     \* sessions with remembered denials, oldest first
  denyShapes,       \* session -> its remembered shapes, oldest first
  traceSessions,    \* sessions of lastTracePresent, oldest first
  lastTracePresent, \* session -> whether its last message reasoned
  inFlight,         \* call -> what awaits next(), or nothing
  denied,           \* history: <<session, shape>> denied since the session's reset
  deniers,          \* history: sessions a call of which was ever denied
  reasoned          \* history: session -> its last message, as it was

memory == <<denySessions, denyShapes>>
trace == <<traceSessions, lastTracePresent>>
vars == <<memory, trace, inFlight, denied, deniers, reasoned>>

(* A call that passed the gates, and what was the case when it did: that   *)
(* its shape was denied and nothing need have been forgotten, that its      *)
(* route is enforced and the session's last message had no reasoning.       *)
Flight == [session : Session, shape : Shape, retry : BOOLEAN, unreasoned : BOOLEAN]
Known == BOOLEAN \cup {Unknown}

TypeOK ==
  /\ denySessions \in Seq(Session)
  /\ denyShapes \in [Session -> Seq(Shape)]
  /\ traceSessions \in Seq(Session)
  /\ lastTracePresent \in [Session -> Known]
  /\ inFlight \in [Call -> Flight \cup {<<>>}]
  /\ denied \subseteq Session \X Shape
  /\ deniers \subseteq Session
  /\ reasoned \in [Session -> Known]

Init ==
  /\ denySessions = << >> /\ denyShapes = [s \in Session |-> << >>]
  /\ traceSessions = << >> /\ lastTracePresent = [s \in Session |-> Unknown]
  /\ inFlight = [c \in Call |-> <<>>]
  /\ denied = {} /\ deniers = {}
  /\ reasoned = [s \in Session |-> Unknown]

----
ShapesDenied(s) == {x \in Shape : <<s, x>> \in denied}

(* The sessions and the session's shapes that were denied fit the memory. *)
FitsMemory(s) ==
  Cardinality(deniers) <= MaxSessions /\ Cardinality(ShapesDenied(s)) <= MaxShapes

InFlight(s, x, enforced) ==
  [session |-> s, shape |-> x,
   retry |-> FitsMemory(s) /\ <<s, x>> \in denied,
   unreasoned |-> enforced /\ reasoned[s] = FALSE]

(* check(): the shape was denied in this session and is still remembered. *)
Remembered(s, x) == x \in ToSet(denyShapes[s])

(* recordDeny(): a session new to a full memory takes the place of the      *)
(* oldest, a shape new to a full session that of its oldest.                *)
RecordDeny(s, x) ==
  /\ denySessions' = Insert(denySessions, s, MaxSessions)
  /\ denyShapes' =
       [t \in Session |->
          IF t = s THEN Insert(denyShapes[s], x, MaxShapes)
          ELSE IF t \in Evicts(denySessions, s, MaxSessions) THEN << >> ELSE denyShapes[t]]
  /\ denied' = denied \cup {<<s, x>>}
  /\ deniers' = deniers \cup {s}

----
(* Mutant: the room is made for a session that has its place already. *)
ObserveAndEvict(s, reasoning) ==
  /\ traceSessions' = Insert(Delete(traceSessions, s), s, MaxTraces)
  /\ lastTracePresent' =
       [t \in Session |->
          IF t = s THEN reasoning
          ELSE IF Len(traceSessions) >= MaxTraces /\ t = Head(traceSessions) THEN Unknown
          ELSE lastTracePresent[t]]
  /\ reasoned' = [reasoned EXCEPT ![s] = reasoning]
  /\ UNCHANGED <<memory, inFlight, denied, deniers>>

(* session/event of an assistant/message. *)
Observe(s, reasoning) ==
  /\ traceSessions' = Insert(traceSessions, s, MaxTraces)
  /\ lastTracePresent' =
       [t \in Session |->
          IF t = s THEN reasoning
          ELSE IF t \in Evicts(traceSessions, s, MaxTraces) THEN Unknown
          ELSE lastTracePresent[t]]
  /\ reasoned' = [reasoned EXCEPT ![s] = reasoning]
  /\ UNCHANGED <<memory, inFlight, denied, deniers>>

(* A gate of the listener refuses a call that is no retry: the capability   *)
(* class, the Unicode or the encoding taint.                                *)
GateDenies(s, x) ==
  /\ ~Remembered(s, x)
  /\ RecordDeny(s, x)
  /\ UNCHANGED <<trace, inFlight, reasoned>>

(* PolicyService.recordDeny(): another component reports a denial. *)
ServiceDenies(s, x) ==
  /\ RecordDeny(s, x)
  /\ UNCHANGED <<trace, inFlight, reasoned>>

(* The CoT gate denies a call of an enforced route on known absence only.   *)
CoTDenies(s, x) ==
  /\ ~Remembered(s, x)
  /\ lastTracePresent[s] = FALSE
  /\ RecordDeny(s, x)
  /\ UNCHANGED <<trace, inFlight, reasoned>>

(* Mutant: the guard is consulted for enforced routes only. *)
PassUnguarded(c, s, x, enforced) ==
  /\ inFlight[c] = <<>>
  /\ enforced => ~Remembered(s, x) /\ lastTracePresent[s] # FALSE
  /\ inFlight' = [inFlight EXCEPT ![c] = InFlight(s, x, enforced)]
  /\ UNCHANGED <<memory, trace, denied, deniers, reasoned>>

(* A call passes every gate and awaits the rest of the waterfall.  Whether  *)
(* its route is enforced (mode, visibility, risk) is the configuration's.   *)
Pass(c, s, x, enforced) ==
  /\ inFlight[c] = <<>>
  /\ ~Remembered(s, x)
  /\ enforced => lastTracePresent[s] # FALSE
  /\ inFlight' = [inFlight EXCEPT ![c] = InFlight(s, x, enforced)]
  /\ UNCHANGED <<memory, trace, denied, deniers, reasoned>>

(* Mutant: a denial that came from downstream is not recorded. *)
DeniedDownstreamUnrecorded(c) ==
  /\ inFlight[c] # <<>>
  /\ denied' = denied \cup {<<inFlight[c].session, inFlight[c].shape>>}
  /\ deniers' = deniers \cup {inFlight[c].session}
  /\ inFlight' = [inFlight EXCEPT ![c] = <<>>]
  /\ UNCHANGED <<memory, trace, reasoned>>

(* next() answered with a denial of another listener. *)
DeniedDownstream(c) ==
  /\ inFlight[c] # <<>>
  /\ RecordDeny(inFlight[c].session, inFlight[c].shape)
  /\ inFlight' = [inFlight EXCEPT ![c] = <<>>]
  /\ UNCHANGED <<trace, reasoned>>

(* next() answered with anything else, or threw. *)
Runs(c) ==
  /\ inFlight[c] # <<>>
  /\ inFlight' = [inFlight EXCEPT ![c] = <<>>]
  /\ UNCHANGED <<memory, trace, denied, deniers, reasoned>>

(* Mutant: the reset session loses its place and keeps its shapes. *)
ResetPlaceOnly(s) ==
  /\ denySessions' = Delete(denySessions, s)
  /\ denied' = {d \in denied : d[1] # s}
  /\ UNCHANGED <<denyShapes, trace, inFlight, deniers, reasoned>>

(* resetDenyCircumvention(), calls of the session in flight or not. *)
Reset(s) ==
  /\ denySessions' = Delete(denySessions, s)
  /\ denyShapes' = [denyShapes EXCEPT ![s] = << >>]
  /\ denied' = {d \in denied : d[1] # s}
  /\ UNCHANGED <<trace, inFlight, deniers, reasoned>>

Next ==
  \/ \E s \in Session :
       \/ \E reasoning \in BOOLEAN : Observe(s, reasoning)
       \/ \E x \in Shape :
            \/ GateDenies(s, x)
            \/ CoTDenies(s, x)
            \/ ServiceDenies(s, x)
            \/ \E c \in Call, enforced \in BOOLEAN : Pass(c, s, x, enforced)
       \/ Reset(s)
  \/ \E c \in Call : DeniedDownstream(c) \/ Runs(c)

Spec == Init /\ [][Next]_vars

----
(* The memories hold no more than their bounds allow, nothing twice, and    *)
(* nothing for a session they forgot.                                       *)
MemoryInv ==
  /\ IsBoundedMap(denySessions, MaxSessions)
  /\ IsBoundedMap(traceSessions, MaxTraces)
  /\ \A s \in Session :
       /\ IsBoundedMap(denyShapes[s], MaxShapes)
       /\ s \notin ToSet(denySessions) => denyShapes[s] = << >>
       /\ s \in ToSet(traceSessions) <=> lastTracePresent[s] # Unknown

(* That, and every part of the state keeps its type. *)
GateSound == TypeOK /\ MemoryInv

(* README.md:64 of the plugin: a shape denied in a session is remembered    *)
(* until the session is reset, whichever gate or listener denied it and in  *)
(* whatever order the calls in flight ended, as long as the sessions and    *)
(* the session's shapes that were denied fit the memory.                    *)
DeniedStaysDenied == \A d \in denied : FitsMemory(d[1]) => Remembered(d[1], d[2])

(* So no repetition of a denied call passes the gates meanwhile.            *)
NoRetryPasses == \A c \in Call : inFlight[c] # <<>> => ~inFlight[c].retry

(* As long as the sessions that spoke fit the memory, no call of an         *)
(* enforced route passes when the session's last message had no reasoning.  *)
Spoke == {s \in Session : reasoned[s] # Unknown}
PassesNeedReasoning ==
  Cardinality(Spoke) <= MaxTraces
    => \A c \in Call : inFlight[c] # <<>> => ~inFlight[c].unreasoned

(* engine.ts:457: the gate fails open for the unknown and is "fail-closed   *)
(* for known absence", whatever other sessions spoke since it was known.    *)
KnownAbsenceFailsClosed ==
  \A c \in Call : inFlight[c] # <<>> => ~inFlight[c].unreasoned
===================================================================================
