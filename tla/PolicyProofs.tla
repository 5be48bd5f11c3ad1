----------------------------- MODULE PolicyProofs ------------------------------
(***************************************************************************)
(* What the policies hold agents to: the tool gate and delegation.         *)
(*                                                                         *)
(* The tool gate for any number of sessions, shapes and calls in flight    *)
(* and any bounds.  The argument: what a memory holds is among what was    *)
(* ever put into it, so that it is full of other keys when it evicts       *)
(* (RoomLasts), and then more was denied than fits.                        *)
(*                                                                         *)
(* AdmissionsBounded for any finite set of hosts and any limits the plugin *)
(* accepts.  The policy counts nothing, so the argument is over what every *)
(* host may still start: the decision on a host's question is fixed once   *)
(* it has read its counts, and the seats so promised are at most Most for  *)
(* each host.  The host that reads last finds room for its own.            *)
(*                                                                         *)
(* More load never spreads a task further, for any limits and any tasks:   *)
(* every condition of the decision goes one way with the load, and what a  *)
(* condition leads to is never further than what it leads away from.       *)
(*                                                                         *)
(* A stricter configuration permits no more, for any configurations, calls *)
(* and routes: PolicyRules gate by gate, each of which refuses and records *)
(* no less when a setting is made stricter (AsStrict).                     *)
(***************************************************************************)
EXTENDS ToolGate, Delegation, BoundedMapProofs, FiniteSetTheorems

(* What the memories hold was denied, and is forgotten only for want of room. *)
DenialsInv ==
  /\ IsFiniteSet(deniers)
  /\ ToSet(denySessions) \subseteq deniers
  /\ \A d \in denied : d[1] \in deniers
  /\ \A s \in Session : IsFiniteSet(ShapesDenied(s))
  /\ \A s \in Session : ToSet(denyShapes[s]) \subseteq ShapesDenied(s)
  /\ DeniedStaysDenied

(* What is known of a session's reasoning is true, and unknown only for     *)
(* want of room.                                                            *)
TraceInv ==
  /\ IsFiniteSet(Spoke)
  /\ ToSet(traceSessions) \subseteq Spoke
  /\ \A s \in Session : lastTracePresent[s] # Unknown => lastTracePresent[s] = reasoned[s]
  /\ Cardinality(Spoke) <= MaxTraces
       => \A s \in Session : lastTracePresent[s] = reasoned[s]

GateInv ==
  TypeOK /\ MemoryInv /\ DenialsInv /\ TraceInv /\ NoRetryPasses /\ PassesNeedReasoning

----
(* A map evicts nothing to make room for k while all the keys it ever held, *)
(* k included, are no more than its bound.                                  *)
LEMMA RoomLasts ==
  ASSUME NEW S, NEW s \in Seq(S), NEW k, NEW bound \in Nat, IsBoundedMap(s, bound),
         NEW ever, IsFiniteSet(ever), ToSet(s) \subseteq ever, k \in ever,
         Cardinality(ever) <= bound
  PROVE  Evicts(s, k, bound) = {}
<1> SUFFICES ASSUME k \notin ToSet(s), ~(Len(s) < bound) PROVE FALSE
  BY DEF Evicts
<1>1. Len(s) \in Nat /\ DOMAIN s = 1 .. Len(s) /\ IsInjective(s)
  BY LenProperties DEF IsBoundedMap
<1>2. /\ IsFiniteSet(1 .. Len(s)) /\ Cardinality(1 .. Len(s)) = Len(s)
  <2>1. /\ IsFiniteSet(1 .. Len(s))
        /\ Cardinality(1 .. Len(s)) = IF 1 > Len(s) THEN 0 ELSE Len(s) - 1 + 1
    <3>1. 1 \in Int /\ Len(s) \in Int
      BY <1>1
    <3> QED BY <3>1, FS_Interval, Zenon
  <2> QED BY <1>1, <2>1
<1>3. s \in Injection(1 .. Len(s), ever)
  <2>1. s \in [1 .. Len(s) -> ever]
    BY <1>1 DEF ToSet
  <2> QED BY <1>1, <2>1 DEF Injection
<1>4. s \notin Surjection(1 .. Len(s), ever)
  BY <1>1 DEF Surjection, ToSet
<1>5. Len(s) <= Cardinality(ever) /\ Len(s) # Cardinality(ever)
  BY <1>2, <1>3, <1>4, FS_Injection
<1>6. Cardinality(ever) \in Nat
  BY FS_CardinalityType
<1> QED BY <1>1, <1>5, <1>6

(* Growing by one key never makes a set fit again. *)
LEMMA FitsBefore ==
  ASSUME NEW A, NEW x, NEW bound \in Nat, IsFiniteSet(A), Cardinality(A \cup {x}) <= bound
  PROVE  IsFiniteSet(A \cup {x}) /\ Cardinality(A) <= bound
<1>1. IsFiniteSet(A \cup {x}) /\ Cardinality(A) <= Cardinality(A \cup {x})
  BY FS_AddElement, FS_Subset
<1>2. Cardinality(A) \in Nat /\ Cardinality(A \cup {x}) \in Nat
  BY <1>1, FS_CardinalityType
<1> QED BY <1>1, <1>2

----
(* What recordDeny() does to the memories. *)
LEMMA RecordDenyMemory ==
  ASSUME TypeOK, MemoryInv, NEW s \in Session, NEW x \in Shape, RecordDeny(s, x)
  PROVE  /\ denySessions' \in Seq(Session) /\ denyShapes' \in [Session -> Seq(Shape)]
         /\ IsBoundedMap(denySessions', MaxSessions)
         /\ ToSet(denySessions') =
              (ToSet(denySessions) \ Evicts(denySessions, s, MaxSessions)) \cup {s}
         /\ ToSet(denyShapes'[s]) =
              (ToSet(denyShapes[s]) \ Evicts(denyShapes[s], x, MaxShapes)) \cup {x}
         /\ \A t \in Session \ {s} :
              denyShapes'[t] = IF t \in Evicts(denySessions, s, MaxSessions)
                               THEN << >> ELSE denyShapes[t]
         /\ \A t \in Session : IsBoundedMap(denyShapes'[t], MaxShapes)
         /\ \A t \in Session : t \notin ToSet(denySessions') => denyShapes'[t] = << >>
<1>1. /\ MaxSessions \in Nat \ {0} /\ MaxShapes \in Nat \ {0}
      /\ denySessions \in Seq(Session) /\ IsBoundedMap(denySessions, MaxSessions)
      /\ denyShapes \in [Session -> Seq(Shape)]
      /\ \A t \in Session : IsBoundedMap(denyShapes[t], MaxShapes)
      /\ \A t \in Session : t \notin ToSet(denySessions) => denyShapes[t] = << >>
  BY ToolGateAssumption DEF TypeOK, MemoryInv
<1>2. /\ denySessions' = Insert(denySessions, s, MaxSessions)
      /\ denyShapes' =
           [t \in Session |->
              IF t = s THEN Insert(denyShapes[s], x, MaxShapes)
              ELSE IF t \in Evicts(denySessions, s, MaxSessions) THEN << >> ELSE denyShapes[t]]
  BY DEF RecordDeny
<1>3. /\ denySessions' \in Seq(Session) /\ IsBoundedMap(denySessions', MaxSessions)
      /\ ToSet(denySessions') =
           (ToSet(denySessions) \ Evicts(denySessions, s, MaxSessions)) \cup {s}
  BY <1>1, <1>2, InsertKeys
<1>4. denyShapes[s] \in Seq(Shape) /\ IsBoundedMap(denyShapes[s], MaxShapes)
  BY <1>1
<1>5. /\ Insert(denyShapes[s], x, MaxShapes) \in Seq(Shape)
      /\ IsBoundedMap(Insert(denyShapes[s], x, MaxShapes), MaxShapes)
      /\ ToSet(Insert(denyShapes[s], x, MaxShapes)) =
           (ToSet(denyShapes[s]) \ Evicts(denyShapes[s], x, MaxShapes)) \cup {x}
  BY <1>1, <1>4, InsertKeys
<1>6. denyShapes'[s] = Insert(denyShapes[s], x, MaxShapes)
  BY <1>2
<1>7. \A t \in Session \ {s} :
        denyShapes'[t] = IF t \in Evicts(denySessions, s, MaxSessions)
                         THEN << >> ELSE denyShapes[t]
  BY <1>2
<1>8. << >> \in Seq(Shape) /\ IsBoundedMap(<< >>, MaxShapes)
  BY <1>1, EmptySeq DEF IsBoundedMap, IsInjective
<1>9. denyShapes' \in [Session -> Seq(Shape)]
  BY <1>1, <1>2, <1>5, <1>8
<1>10. \A t \in Session : IsBoundedMap(denyShapes'[t], MaxShapes)
  BY <1>1, <1>5, <1>6, <1>7, <1>8
<1>11. \A t \in Session : t \notin ToSet(denySessions') => denyShapes'[t] = << >>
  BY <1>1, <1>3, <1>7
<1> QED BY <1>3, <1>5, <1>6, <1>7, <1>9, <1>10, <1>11

(* recordDeny() keeps what is recorded within the bounds. *)
LEMMA RecordDenyStep ==
  ASSUME TypeOK, MemoryInv, DenialsInv, NEW s \in Session, NEW x \in Shape,
         RecordDeny(s, x)
  PROVE  DenialsInv'
<1>1. deniers' = deniers \cup {s} /\ denied' = denied \cup {<<s, x>>}
  BY DEF RecordDeny
<1>2. /\ ToSet(denySessions') =
           (ToSet(denySessions) \ Evicts(denySessions, s, MaxSessions)) \cup {s}
      /\ ToSet(denyShapes'[s]) =
           (ToSet(denyShapes[s]) \ Evicts(denyShapes[s], x, MaxShapes)) \cup {x}
      /\ \A t \in Session \ {s} :
           denyShapes'[t] = IF t \in Evicts(denySessions, s, MaxSessions)
                            THEN << >> ELSE denyShapes[t]
  BY RecordDenyMemory
<1>3. /\ ShapesDenied(s)' = ShapesDenied(s) \cup {x}
      /\ \A t \in Session \ {s} : ShapesDenied(t)' = ShapesDenied(t)
  BY <1>1 DEF ShapesDenied
<1>4. /\ IsFiniteSet(deniers) /\ ToSet(denySessions) \subseteq deniers
      /\ \A d \in denied : d[1] \in deniers
      /\ \A t \in Session : IsFiniteSet(ShapesDenied(t))
      /\ \A t \in Session : ToSet(denyShapes[t]) \subseteq ShapesDenied(t)
      /\ DeniedStaysDenied
  BY DEF DenialsInv
<1>5. IsFiniteSet(deniers') /\ ToSet(denySessions') \subseteq deniers'
  BY <1>1, <1>2, <1>4, FS_AddElement
<1>6. \A d \in denied' : d[1] \in deniers'
  BY <1>1, <1>4
<1>7. \A t \in Session : IsFiniteSet(ShapesDenied(t)')
  BY <1>3, <1>4, FS_AddElement
<1>8. \A t \in Session : ToSet(denyShapes'[t]) \subseteq ShapesDenied(t)'
  <2> TAKE t \in Session
  <2>1. CASE t = s
    BY <1>2, <1>3, <1>4, <2>1
  <2>2. CASE t # s
    <3>1. ToSet(<< >>) = {}
      BY DEF ToSet
    <3> QED BY <1>2, <1>3, <1>4, <2>2, <3>1
  <2> QED BY <2>1, <2>2
<1>9. DeniedStaysDenied'
  <2> SUFFICES ASSUME NEW t \in Session, NEW y \in Shape, <<t, y>> \in denied',
                      Cardinality(deniers') <= MaxSessions,
                      Cardinality(ShapesDenied(t)') <= MaxShapes
               PROVE  y \in ToSet(denyShapes'[t])
    <3>1. denied' \subseteq Session \X Shape
      BY <1>1 DEF TypeOK
    <3> QED BY <3>1 DEF DeniedStaysDenied, FitsMemory, Remembered
  <2>1. /\ MaxSessions \in Nat /\ MaxShapes \in Nat
        /\ denySessions \in Seq(Session) /\ IsBoundedMap(denySessions, MaxSessions)
        /\ denyShapes[s] \in Seq(Shape) /\ IsBoundedMap(denyShapes[s], MaxShapes)
    BY ToolGateAssumption DEF TypeOK, MemoryInv
  <2>2. Cardinality(deniers) <= MaxSessions
    BY <1>1, <1>4, <2>1, FitsBefore
  <2>3. CASE t = s
    <3>1. Evicts(denyShapes[s], x, MaxShapes) = {}
      <4>1. IsFiniteSet(ShapesDenied(s)') /\ x \in ShapesDenied(s)'
            /\ ToSet(denyShapes[s]) \subseteq ShapesDenied(s)'
        BY <1>3, <1>4, <1>7
      <4> QED BY <2>1, <2>3, <4>1, RoomLasts
    <3>2. Cardinality(ShapesDenied(s)) <= MaxShapes
      BY <1>3, <1>4, <2>1, <2>3, FitsBefore
    <3>3. <<s, y>> \in denied => y \in ToSet(denyShapes[s])
      BY <1>4, <2>2, <3>2 DEF DeniedStaysDenied, FitsMemory, Remembered
    <3> QED BY <1>1, <1>2, <2>3, <3>1, <3>3
  <2>4. CASE t # s
    <3>1. Evicts(denySessions, s, MaxSessions) = {}
      <4>1. IsFiniteSet(deniers') /\ s \in deniers' /\ ToSet(denySessions) \subseteq deniers'
        BY <1>1, <1>4, <1>5
      <4> QED BY <2>1, <4>1, RoomLasts
    <3>2. denyShapes'[t] = denyShapes[t]
      BY <1>2, <2>4, <3>1
    <3>3. <<t, y>> \in denied /\ Cardinality(ShapesDenied(t)) <= MaxShapes
      BY <1>1, <1>3, <2>4
    <3> QED BY <1>4, <2>2, <3>2, <3>3 DEF DeniedStaysDenied, FitsMemory, Remembered
  <2> QED BY <2>3, <2>4
<1> QED BY <1>5, <1>6, <1>7, <1>8, <1>9 DEF DenialsInv

(* A denial of a gate: only the memory of denials changes, and perhaps a    *)
(* call leaves the flight.                                                  *)
LEMMA DenialStep ==
  ASSUME GateInv, NEW s \in Session, NEW x \in Shape, RecordDeny(s, x),
         UNCHANGED <<trace, reasoned>>,
         inFlight' \in [Call -> Flight \cup {<<>>}],
         \A c \in Call : inFlight'[c] \in {inFlight[c], <<>>}
  PROVE  GateInv'
<1>1. /\ TypeOK /\ MemoryInv /\ DenialsInv /\ TraceInv
      /\ NoRetryPasses /\ PassesNeedReasoning
  BY DEF GateInv
<1>2. /\ traceSessions' = traceSessions /\ lastTracePresent' = lastTracePresent
      /\ reasoned' = reasoned
  BY DEF trace
<1>3. DenialsInv'
  BY <1>1, RecordDenyStep
<1>4. TypeOK' /\ MemoryInv'
  <2>1. denied' \subseteq Session \X Shape /\ deniers' \subseteq Session
    BY <1>1 DEF RecordDeny, TypeOK
  <2> QED BY <1>1, <1>2, <2>1, RecordDenyMemory DEF TypeOK, MemoryInv
<1>5. TraceInv'
  BY <1>1, <1>2 DEF TraceInv, Spoke
<1>6. NoRetryPasses' /\ PassesNeedReasoning'
  BY <1>1, <1>2 DEF NoRetryPasses, PassesNeedReasoning, Spoke
<1> QED BY <1>1, <1>3, <1>4, <1>5, <1>6 DEF GateInv

LEMMA ObserveStep ==
  ASSUME GateInv, NEW s \in Session, NEW reasoning \in BOOLEAN, Observe(s, reasoning)
  PROVE  GateInv'
<1>1. /\ TypeOK /\ MemoryInv /\ DenialsInv /\ TraceInv
      /\ NoRetryPasses /\ PassesNeedReasoning
  BY DEF GateInv
<1>2. /\ UNCHANGED <<denySessions, denyShapes, inFlight, denied, deniers>>
      /\ traceSessions' = Insert(traceSessions, s, MaxTraces)
      /\ lastTracePresent' =
           [t \in Session |->
              IF t = s THEN reasoning
              ELSE IF t \in Evicts(traceSessions, s, MaxTraces) THEN Unknown
              ELSE lastTracePresent[t]]
      /\ reasoned' = [reasoned EXCEPT ![s] = reasoning]
  BY DEF Observe, memory
<1>3. /\ MaxTraces \in Nat \ {0} /\ Unknown \notin BOOLEAN
      /\ traceSessions \in Seq(Session) /\ IsBoundedMap(traceSessions, MaxTraces)
      /\ lastTracePresent \in [Session -> Known] /\ reasoned \in [Session -> Known]
      /\ \A t \in Session : t \in ToSet(traceSessions) <=> lastTracePresent[t] # Unknown
  BY <1>1, ToolGateAssumption DEF TypeOK, MemoryInv
<1>4. /\ traceSessions' \in Seq(Session) /\ IsBoundedMap(traceSessions', MaxTraces)
      /\ ToSet(traceSessions') =
           (ToSet(traceSessions) \ Evicts(traceSessions, s, MaxTraces)) \cup {s}
  BY <1>2, <1>3, InsertKeys
<1>5. /\ lastTracePresent' \in [Session -> Known] /\ reasoned' \in [Session -> Known]
      /\ lastTracePresent'[s] = reasoning /\ reasoned'[s] = reasoning
      /\ \A t \in Session \ {s} :
           /\ reasoned'[t] = reasoned[t]
           /\ lastTracePresent'[t] = IF t \in Evicts(traceSessions, s, MaxTraces)
                                     THEN Unknown ELSE lastTracePresent[t]
  BY <1>2, <1>3 DEF Known
<1>6. s \notin Evicts(traceSessions, s, MaxTraces)
  <2>1. ASSUME s \notin ToSet(traceSessions), ~(Len(traceSessions) < MaxTraces)
        PROVE  s # Head(traceSessions)
    <3>1. Len(traceSessions) \in Nat /\ traceSessions # << >>
      BY <1>3, <2>1, LenProperties, EmptySeq
    <3>2. 1 \in DOMAIN traceSessions /\ Head(traceSessions) = traceSessions[1]
      BY <1>3, <3>1, LenProperties, HeadTailProperties
    <3> QED BY <2>1, <3>2 DEF ToSet
  <2> QED BY <2>1 DEF Evicts
<1>7. TypeOK'
  BY <1>1, <1>2, <1>4, <1>5 DEF TypeOK
<1>8. MemoryInv'
  <2>1. \A t \in Session : t \in ToSet(traceSessions') <=> lastTracePresent'[t] # Unknown
    BY <1>3, <1>4, <1>5
  <2> QED BY <1>1, <1>2, <1>4, <2>1 DEF MemoryInv
<1>9. DenialsInv' /\ NoRetryPasses'
  BY <1>1, <1>2 DEF DenialsInv, DeniedStaysDenied, FitsMemory, ShapesDenied, Remembered,
                    NoRetryPasses
<1>10. Spoke' = Spoke \cup {s}
  BY <1>3, <1>5 DEF Spoke
<1>11. /\ IsFiniteSet(Spoke) /\ IsFiniteSet(Spoke')
       /\ ToSet(traceSessions') \subseteq Spoke'
       /\ Cardinality(Spoke') <= MaxTraces => Cardinality(Spoke) <= MaxTraces
  BY <1>1, <1>3, <1>4, <1>10, FS_AddElement, FitsBefore DEF TraceInv
<1>12. Cardinality(Spoke') <= MaxTraces => Evicts(traceSessions, s, MaxTraces) = {}
  <2>1. ToSet(traceSessions) \subseteq Spoke' /\ s \in Spoke'
    BY <1>1, <1>10 DEF TraceInv
  <2> QED BY <1>3, <1>11, <2>1, RoomLasts
<1>13. TraceInv'
  <2>1. \A t \in Session : lastTracePresent'[t] # Unknown => lastTracePresent'[t] = reasoned'[t]
    BY <1>1, <1>5 DEF TraceInv
  <2>2. Cardinality(Spoke') <= MaxTraces
          => \A t \in Session : lastTracePresent'[t] = reasoned'[t]
    BY <1>1, <1>5, <1>11, <1>12 DEF TraceInv
  <2> QED BY <1>11, <2>1, <2>2 DEF TraceInv
<1>14. PassesNeedReasoning'
  BY <1>1, <1>2, <1>11 DEF PassesNeedReasoning
<1> QED BY <1>7, <1>8, <1>9, <1>13, <1>14 DEF GateInv

LEMMA PassStep ==
  ASSUME GateInv, NEW c \in Call, NEW s \in Session, NEW x \in Shape,
         NEW enforced \in BOOLEAN, Pass(c, s, x, enforced)
  PROVE  GateInv'
<1>1. /\ TypeOK /\ MemoryInv /\ DenialsInv /\ TraceInv
      /\ NoRetryPasses /\ PassesNeedReasoning
  BY DEF GateInv
<1>2. /\ UNCHANGED <<denySessions, denyShapes, traceSessions, lastTracePresent,
                     denied, deniers, reasoned>>
      /\ ~Remembered(s, x)
      /\ enforced => lastTracePresent[s] # FALSE
      /\ inFlight' = [inFlight EXCEPT ![c] = InFlight(s, x, enforced)]
  BY DEF Pass, memory, trace
<1>3. inFlight \in [Call -> Flight \cup {<<>>}]
  BY <1>1 DEF TypeOK
<1> DEFINE f == InFlight(s, x, enforced)
<1>4. /\ f \in Flight
      /\ f.retry = (FitsMemory(s) /\ <<s, x>> \in denied)
      /\ f.unreasoned = (enforced /\ reasoned[s] = FALSE)
  BY DEF InFlight, Flight
<1>5. ~f.retry
  BY <1>1, <1>2, <1>4 DEF DenialsInv, DeniedStaysDenied
<1>6. Cardinality(Spoke) <= MaxTraces => ~f.unreasoned
  BY <1>1, <1>2, <1>4 DEF TraceInv
<1> HIDE DEF f
<1>7. \A d \in Call : inFlight'[d] = IF d = c THEN f ELSE inFlight[d]
  BY <1>2, <1>3 DEF f
<1>8. TypeOK'
  <2>1. inFlight' \in [Call -> Flight \cup {<<>>}]
    BY <1>2, <1>3, <1>4 DEF f
  <2> QED BY <1>1, <1>2, <2>1 DEF TypeOK
<1>9. MemoryInv' /\ DenialsInv' /\ TraceInv'
  BY <1>1, <1>2 DEF MemoryInv, DenialsInv, DeniedStaysDenied, FitsMemory, ShapesDenied,
                    Remembered, TraceInv, Spoke
<1>10. NoRetryPasses'
  BY <1>1, <1>5, <1>7 DEF NoRetryPasses
<1>11. PassesNeedReasoning'
  BY <1>1, <1>2, <1>6, <1>7 DEF PassesNeedReasoning, Spoke
<1> QED BY <1>8, <1>9, <1>10, <1>11 DEF GateInv

LEMMA ResetStep ==
  ASSUME GateInv, NEW s \in Session, Reset(s)
  PROVE  GateInv'
<1>1. /\ TypeOK /\ MemoryInv /\ DenialsInv /\ TraceInv
      /\ NoRetryPasses /\ PassesNeedReasoning
  BY DEF GateInv
<1>2. /\ UNCHANGED <<traceSessions, lastTracePresent, inFlight, deniers, reasoned>>
      /\ denySessions' = Delete(denySessions, s)
      /\ denyShapes' = [denyShapes EXCEPT ![s] = << >>]
      /\ denied' = {d \in denied : d[1] # s}
  BY DEF Reset, trace
<1>3. /\ MaxSessions \in Nat /\ MaxShapes \in Nat
      /\ denySessions \in Seq(Session) /\ IsBoundedMap(denySessions, MaxSessions)
      /\ denyShapes \in [Session -> Seq(Shape)]
  BY <1>1, ToolGateAssumption DEF TypeOK, MemoryInv
<1>4. /\ denySessions' \in Seq(Session) /\ IsBoundedMap(denySessions', MaxSessions)
      /\ ToSet(denySessions') = ToSet(denySessions) \ {s}
  BY <1>2, <1>3, DeleteKeys
<1>5. /\ << >> \in Seq(Shape) /\ IsBoundedMap(<< >>, MaxShapes) /\ ToSet(<< >>) = {}
  BY <1>3, EmptySeq DEF IsBoundedMap, IsInjective, ToSet
<1>6. \A t \in Session : denyShapes'[t] = IF t = s THEN << >> ELSE denyShapes[t]
  BY <1>2, <1>3
<1>7. TypeOK'
  BY <1>1, <1>2, <1>4, <1>5 DEF TypeOK
<1>8. MemoryInv'
  BY <1>1, <1>2, <1>4, <1>5, <1>6 DEF MemoryInv
<1>9. /\ ShapesDenied(s)' = {}
      /\ \A t \in Session \ {s} : ShapesDenied(t)' = ShapesDenied(t)
  BY <1>2 DEF ShapesDenied
<1>10. DenialsInv'
  <2>1. /\ \A t \in Session : IsFiniteSet(ShapesDenied(t)')
        /\ \A t \in Session : ToSet(denyShapes'[t]) \subseteq ShapesDenied(t)'
    BY <1>1, <1>5, <1>6, <1>9, FS_EmptySet DEF DenialsInv
  <2>2. \A d \in denied' : d \in denied /\ d[1] \in Session \ {s}
    BY <1>1, <1>2 DEF TypeOK
  <2>3. DeniedStaysDenied'
    BY <1>1, <1>2, <1>6, <1>9, <2>2
       DEF DenialsInv, DeniedStaysDenied, FitsMemory, Remembered
  <2> QED BY <1>1, <1>2, <1>4, <2>1, <2>2, <2>3 DEF DenialsInv
<1>11. TraceInv' /\ NoRetryPasses' /\ PassesNeedReasoning'
  BY <1>1, <1>2 DEF TraceInv, Spoke, NoRetryPasses, PassesNeedReasoning
<1> QED BY <1>7, <1>8, <1>10, <1>11 DEF GateInv

LEMMA RunsStep ==
  ASSUME GateInv, NEW c \in Call, Runs(c)
  PROVE  GateInv'
<1>1. /\ UNCHANGED <<denySessions, denyShapes, traceSessions, lastTracePresent,
                     denied, deniers, reasoned>>
      /\ inFlight' = [inFlight EXCEPT ![c] = <<>>]
  BY DEF Runs, memory, trace
<1>2. /\ inFlight \in [Call -> Flight \cup {<<>>}]
      /\ inFlight' \in [Call -> Flight \cup {<<>>}]
      /\ \A d \in Call : inFlight'[d] \in {inFlight[d], <<>>}
  BY <1>1 DEF GateInv, TypeOK
<1>3. TypeOK' /\ MemoryInv' /\ DenialsInv' /\ TraceInv'
  BY <1>1, <1>2 DEF GateInv, TypeOK, MemoryInv, DenialsInv, DeniedStaysDenied, FitsMemory,
                    ShapesDenied, Remembered, TraceInv, Spoke
<1>4. NoRetryPasses' /\ PassesNeedReasoning'
  BY <1>1, <1>2 DEF GateInv, NoRetryPasses, PassesNeedReasoning, Spoke
<1> QED BY <1>3, <1>4 DEF GateInv

LEMMA GateStep ==
  ASSUME GateInv, [Next]_vars
  PROVE  GateInv'
<1>1. ASSUME NEW s \in Session, NEW x \in Shape,
             GateDenies(s, x) \/ CoTDenies(s, x) \/ ServiceDenies(s, x)
      PROVE  GateInv'
  <2>1. RecordDeny(s, x) /\ UNCHANGED <<trace, inFlight, reasoned>>
    BY <1>1 DEF GateDenies, CoTDenies, ServiceDenies
  <2>2. /\ inFlight' \in [Call -> Flight \cup {<<>>}]
        /\ \A c \in Call : inFlight'[c] \in {inFlight[c], <<>>}
    BY <2>1 DEF GateInv, TypeOK
  <2> QED BY <2>1, <2>2, DenialStep
<1>2. ASSUME NEW c \in Call, DeniedDownstream(c)
      PROVE  GateInv'
  <2>1. /\ inFlight[c] # <<>> /\ RecordDeny(inFlight[c].session, inFlight[c].shape)
        /\ inFlight' = [inFlight EXCEPT ![c] = <<>>] /\ UNCHANGED <<trace, reasoned>>
    BY <1>2 DEF DeniedDownstream
  <2>2. inFlight \in [Call -> Flight \cup {<<>>}]
    BY DEF GateInv, TypeOK
  <2>3. inFlight[c].session \in Session /\ inFlight[c].shape \in Shape
    BY <2>1, <2>2 DEF Flight
  <2>4. /\ inFlight' \in [Call -> Flight \cup {<<>>}]
        /\ \A d \in Call : inFlight'[d] \in {inFlight[d], <<>>}
    BY <2>1, <2>2
  <2> QED BY <2>1, <2>3, <2>4, DenialStep
<1>3. CASE UNCHANGED vars
  <2>1. UNCHANGED <<denySessions, denyShapes, traceSessions, lastTracePresent, inFlight,
                    denied, deniers, reasoned>>
    BY <1>3 DEF vars, memory, trace
  <2> QED BY <2>1 DEF GateInv, TypeOK, MemoryInv, DenialsInv, DeniedStaysDenied, FitsMemory,
                      ShapesDenied, Remembered, TraceInv, Spoke, NoRetryPasses,
                      PassesNeedReasoning
<1> QED BY <1>1, <1>2, <1>3, ObserveStep, PassStep, ResetStep, RunsStep DEF Next

LEMMA GateInitially ==
  ASSUME Init
  PROVE  GateInv
<1>1. /\ denySessions = << >> /\ traceSessions = << >>
      /\ denied = {} /\ deniers = {}
      /\ denyShapes = [s \in Session |-> << >>]
      /\ lastTracePresent = [s \in Session |-> Unknown]
      /\ reasoned = [s \in Session |-> Unknown]
      /\ inFlight = [c \in Call |-> <<>>]
  BY DEF Init
<1>2. /\ << >> \in Seq(Session) /\ << >> \in Seq(Shape) /\ ToSet(<< >>) = {}
      /\ IsBoundedMap(<< >>, MaxSessions) /\ IsBoundedMap(<< >>, MaxShapes)
      /\ IsBoundedMap(<< >>, MaxTraces)
  BY EmptySeq, ToolGateAssumption DEF IsBoundedMap, IsInjective, ToSet
<1>3. TypeOK /\ MemoryInv
  BY <1>1, <1>2 DEF TypeOK, MemoryInv, Known
<1>4. DenialsInv
  BY <1>1, <1>2, FS_EmptySet DEF DenialsInv, ShapesDenied, DeniedStaysDenied
<1>5. TraceInv
  BY <1>1, <1>2, FS_EmptySet DEF TraceInv, Spoke
<1>6. NoRetryPasses /\ PassesNeedReasoning
  BY <1>1 DEF NoRetryPasses, PassesNeedReasoning
<1> QED BY <1>3, <1>4, <1>5, <1>6 DEF GateInv

(* The memories of denials and of reasoning stay within their bounds and    *)
(* agree with the maps they are kept in, and the state keeps its type.      *)
THEOREM GateMemoryBounded == Spec => []GateSound
<1>1. GateInv => GateSound
  BY DEF GateInv, GateSound
<1>2. GateInv /\ [Next]_vars => GateInv'
  BY GateStep
<1> QED BY GateInitially, <1>1, <1>2, PTL DEF Spec

(* A denied shape is remembered until the session is reset, while the       *)
(* denials fit the memory.                                                  *)
THEOREM DenialsStay == Spec => []DeniedStaysDenied
<1>1. GateInv => DeniedStaysDenied
  BY DEF GateInv, DenialsInv
<1>2. GateInv /\ [Next]_vars => GateInv'
  BY GateStep
<1> QED BY GateInitially, <1>1, <1>2, PTL DEF Spec

(* So no call that repeats a denied one passes the gates meanwhile.         *)
THEOREM DenialsHold == Spec => []NoRetryPasses
<1>1. GateInv => NoRetryPasses
  BY DEF GateInv
<1>2. GateInv /\ [Next]_vars => GateInv'
  BY GateStep
<1> QED BY GateInitially, <1>1, <1>2, PTL DEF Spec

(* No call of an enforced route passes without reasoning in the session's   *)
(* last message, while the sessions that spoke fit the memory.              *)
THEOREM ReasoningHolds == Spec => []PassesNeedReasoning
<1>1. GateInv => PassesNeedReasoning
  BY DEF GateInv
<1>2. GateInv /\ [Next]_vars => GateInv'
  BY GateStep
<1> QED BY GateInitially, <1>1, <1>2, PTL DEF Spec

----
(* What a host with this question, or this grant, may still start. *)
Promised(l, question, given) ==
  IF question # Nothing THEN Slots(DecideWorkflow(l, question).decision) ELSE given
promise == [h \in Hosts |-> Promised(limits, asking[h], grant[h])]

(* The seats promised, m of them at most to a host. *)
Seats(p, m) == {s \in Hosts \X (1 .. m) : s[2] <= p[s[1]]}
SeatCount == Cardinality(Seats(promise, Most))

DelegationTypeOK ==
  /\ limits.maxConcurrentAgents \in 1 .. 8
  /\ limits.maxTotalAgents \in 1 .. 32
  /\ used \in Nat
  /\ active \subseteq 1 .. used
  /\ asking \in [Hosts -> {Nothing} \cup WorkflowDecisionInput]
  /\ grant \in [Hosts -> Nat]
  /\ \A h \in Hosts : asking[h] # Nothing => grant[h] = 0
  /\ promise \in [Hosts -> 0 .. Most]

(* AdmissionsBounded with every promise already kept. *)
PromisesFit ==
  /\ Cardinality(active) + SeatCount <= limits.maxConcurrentAgents + Most * (Cardinality(Hosts) - 1)
  /\ used + SeatCount <= limits.maxTotalAgents - 1 + Most * Cardinality(Hosts)

DelegationInv == DelegationTypeOK /\ PromisesFit

----
(* The ladder ends at DIRECT or leaves a task where it was. *)
LEMMA LadderEnds ==
  ASSUME NEW l, NEW in, NEW d \in {"SUPREME_WORKFLOW", "WORKFLOW", "SUBAGENT", "DIRECT"}
  PROVE  Degraded(l, in, d) = IF Constrained(l, in) THEN "DIRECT" ELSE d
<1> DEFINE down(e) == Degrade(l, in, e)
<1>1. Rung("SUPREME_WORKFLOW") = 1 /\ Rung("WORKFLOW") = 2 /\ Rung("SUBAGENT") = 3
  BY DEF Rung, DegradeOrder
<1>2. CASE Constrained(l, in)
  <2>1. /\ down("SUPREME_WORKFLOW") = "WORKFLOW" /\ down("WORKFLOW") = "SUBAGENT"
        /\ down("SUBAGENT") = "DIRECT" /\ down("DIRECT") = "DIRECT"
    BY <1>1, <1>2 DEF Degrade, DegradeOrder
  <2> QED BY <1>2, <2>1 DEF Degraded
<1>3. CASE ~Constrained(l, in)
  BY <1>3 DEF Degraded, Degrade
<1> QED BY <1>2, <1>3

(* A decision that lets a host start agents has room for them on the counts *)
(* it was made on.                                                          *)
LEMMA DecisionFits ==
  ASSUME NEW l, l.maxConcurrentAgents \in 1 .. 8, l.maxTotalAgents \in 1 .. 32,
         NEW in \in WorkflowDecisionInput
  PROVE  LET n == Slots(DecideWorkflow(l, in).decision)
         IN  /\ n \in 0 .. 2
             /\ n <= IF l.maxConcurrentAgents > 1 THEN 2 ELSE 1
             /\ n > 0 => /\ in.totalAgentsUsed < l.maxTotalAgents
                         /\ in.activeAgents + n <= l.maxConcurrentAgents
<1> DEFINE d == DecideWorkflow(l, in).decision
           n == Slots(d)
<1>1. in.activeAgents \in Nat /\ in.totalAgentsUsed \in Nat
  BY DEF WorkflowDecisionInput
<1>2. n \in 0 .. 2 /\ (n = 2 => d = "SUPREME_WORKFLOW") /\ (n > 0 => d \notin {"DENY", "DIRECT"})
  BY DEF Slots
<1>3. Wanted(l, in) \in {"SUPREME_WORKFLOW", "WORKFLOW", "SUBAGENT", "DIRECT"}
  BY DEF Wanted, Baseline
<1>4. Degraded(l, in, Wanted(l, in)) = IF Constrained(l, in) THEN "DIRECT" ELSE Wanted(l, in)
  BY <1>3, LadderEnds
<1>5. d \in {"DENY", "DIRECT"} \/ (~Exhausted(l, in) /\ d = Degraded(l, in, Wanted(l, in)))
  BY DEF DecideWorkflow
<1>6. ASSUME n > 0
      PROVE  in.totalAgentsUsed < l.maxTotalAgents /\ in.activeAgents + n <= l.maxConcurrentAgents
  <2>1. ~Exhausted(l, in) /\ ~Constrained(l, in) /\ d = Wanted(l, in)
    BY <1>2, <1>4, <1>5, <1>6
  <2>2. in.totalAgentsUsed < l.maxTotalAgents /\ in.activeAgents < l.maxConcurrentAgents
    BY <1>1, <2>1 DEF Exhausted, Constrained
  <2>3. n = 2 => in.activeAgents + 2 <= l.maxConcurrentAgents
    BY <1>2, <2>1 DEF Wanted, Baseline, Orchestrated
  <2> QED BY <1>1, <1>2, <2>2, <2>3
<1> QED BY <1>1, <1>2, <1>6

----
LEMMA SeatsFinite ==
  ASSUME NEW m \in 0 .. 2, NEW p
  PROVE  /\ IsFiniteSet(Hosts \X (1 .. m)) /\ Cardinality(Hosts) \in Nat
         /\ Cardinality(Hosts \X (1 .. m)) = m * Cardinality(Hosts)
         /\ IsFiniteSet(Seats(p, m)) /\ Cardinality(Seats(p, m)) \in Nat
         /\ Cardinality(Seats(p, m)) <= m * Cardinality(Hosts)
<1>1. IsFiniteSet(Hosts) /\ Cardinality(Hosts) \in Nat
  BY DelegationAssumption, FS_CardinalityType
<1>2. IsFiniteSet(1 .. m) /\ Cardinality(1 .. m) = m
  <2>1. IsFiniteSet(1 .. m) /\ Cardinality(1 .. m) = IF 1 > m THEN 0 ELSE m - 1 + 1
    <3>1. 1 \in Int /\ m \in Int
      OBVIOUS
    <3> QED BY <3>1, FS_Interval, Zenon
  <2> QED BY <2>1
<1>3. /\ IsFiniteSet(Hosts \X (1 .. m))
      /\ Cardinality(Hosts \X (1 .. m)) = Cardinality(Hosts) * m
  BY <1>1, <1>2, FS_Product
<1>4. Seats(p, m) \in SUBSET (Hosts \X (1 .. m))
  BY DEF Seats
<1>5. IsFiniteSet(Seats(p, m)) /\ Cardinality(Seats(p, m)) <= Cardinality(Hosts \X (1 .. m))
  BY <1>3, <1>4, FS_Subset
<1>6. Cardinality(Seats(p, m)) \in Nat
  BY <1>5, FS_CardinalityType
<1>7. Cardinality(Hosts) * m = m * Cardinality(Hosts)
  BY <1>1
<1> QED BY <1>1, <1>3, <1>5, <1>6, <1>7

(* Whatever the other hosts were promised, this one's n seats are all that *)
(* are not theirs.                                                         *)
LEMMA SeatsPromised ==
  ASSUME NEW m \in 1 .. 2, NEW h \in Hosts, NEW n \in 0 .. m, NEW p \in [Hosts -> 0 .. m], p[h] = n
  PROVE  Cardinality(Seats(p, m)) <= m * (Cardinality(Hosts) - 1) + n
<1> DEFINE others == (Hosts \ {h}) \X (1 .. m)
           own == {h} \X (1 .. n)
<1>1. IsFiniteSet(Hosts \ {h}) /\ Cardinality(Hosts \ {h}) = Cardinality(Hosts) - 1
  BY DelegationAssumption, FS_RemoveElement
<1>2. /\ IsFiniteSet(1 .. m) /\ Cardinality(1 .. m) = m
      /\ IsFiniteSet(1 .. n) /\ Cardinality(1 .. n) = n
  <2>1. 1 \in Int /\ m \in Int /\ n \in Int
    OBVIOUS
  <2>2. /\ IsFiniteSet(1 .. m) /\ Cardinality(1 .. m) = IF 1 > m THEN 0 ELSE m - 1 + 1
        /\ IsFiniteSet(1 .. n) /\ Cardinality(1 .. n) = IF 1 > n THEN 0 ELSE n - 1 + 1
    BY <2>1, FS_Interval, Zenon
  <2> QED BY <2>2
<1>3. IsFiniteSet(others) /\ Cardinality(others) = Cardinality(Hosts \ {h}) * m
  BY <1>1, <1>2, FS_Product
<1>4. IsFiniteSet(own) /\ Cardinality(own) = 1 * n
  <2>1. IsFiniteSet({h}) /\ Cardinality({h}) = 1
    BY FS_Singleton
  <2> QED BY <1>2, <2>1, FS_Product
<1>5. others \cap own = {}
  OBVIOUS
<1>6. IsFiniteSet(others \cup own) /\ Cardinality(others \cup own) = Cardinality(others) + Cardinality(own)
  <2>1. /\ IsFiniteSet(others \cup own)
        /\ Cardinality(others \cup own) = Cardinality(others) + Cardinality(own) - Cardinality(others \cap own)
    BY <1>3, <1>4, FS_Union
  <2>2. Cardinality(others \cap own) = 0
    BY <1>5, FS_EmptySet
  <2>3. Cardinality(others) \in Nat /\ Cardinality(own) \in Nat
    BY <1>3, <1>4, FS_CardinalityType
  <2> QED BY <2>1, <2>2, <2>3
<1>7. Seats(p, m) \in SUBSET (others \cup own)
  BY DEF Seats
<1>8. Cardinality(Seats(p, m)) <= Cardinality(others) + Cardinality(own)
  BY <1>6, <1>7, FS_Subset
<1>9. Cardinality(Hosts) \in Nat
  BY DelegationAssumption, FS_CardinalityType
<1>10. (Cardinality(Hosts) - 1) * m = m * (Cardinality(Hosts) - 1)
  BY <1>9
<1> QED BY <1>1, <1>3, <1>4, <1>8, <1>10

(* An agent that starts takes one seat. *)
LEMMA SeatTaken ==
  ASSUME NEW m \in 1 .. 2, NEW h \in Hosts, NEW p \in [Hosts -> 0 .. m], p[h] > 0
  PROVE  Cardinality(Seats([p EXCEPT ![h] = @ - 1], m)) = Cardinality(Seats(p, m)) - 1
<1> DEFINE seat == <<h, p[h]>>
<1>1. p[h] \in 1 .. m
  OBVIOUS
<1>2. Seats([p EXCEPT ![h] = @ - 1], m) = Seats(p, m) \ {seat}
  <2>1. ASSUME NEW s \in Hosts \X (1 .. m)
        PROVE  s[2] <= [p EXCEPT ![h] = @ - 1][s[1]] <=> s[2] <= p[s[1]] /\ s # seat
    <3>1. PICK g \in Hosts, i \in 1 .. m : s = <<g, i>>
      OBVIOUS
    <3>2. CASE g = h
      BY <1>1, <3>1, <3>2
    <3>3. CASE g # h
      BY <3>1, <3>3
    <3> QED BY <3>2, <3>3
  <2> QED BY <2>1 DEF Seats
<1>3. seat \in Seats(p, m)
  BY <1>1 DEF Seats
<1>4. IsFiniteSet(Seats(p, m))
  <2>1. m \in 0 .. 2
    OBVIOUS
  <2> QED BY <2>1, SeatsFinite
<1>5. Cardinality(Seats(p, m) \ {seat}) = Cardinality(Seats(p, m)) - 1
  BY <1>3, <1>4, FS_RemoveElement
<1> QED BY <1>2, <1>5

----
LEMMA MostType ==
  ASSUME DelegationTypeOK
  PROVE  Most \in 1 .. 2 /\ Most <= limits.maxConcurrentAgents
BY DEF DelegationTypeOK, Most

LEMMA DelegationInitially ==
  ASSUME DelegationInit
  PROVE  DelegationInv
<1>1. limits.maxConcurrentAgents \in 1 .. 8 /\ limits.maxTotalAgents \in 1 .. 32
  BY DEF DelegationInit, ValidateWorkflowLimits
<1>2. Most \in 1 .. 2 /\ Most <= limits.maxConcurrentAgents
  BY <1>1 DEF Most
<1>3. promise = [h \in Hosts |-> 0]
  BY DEF DelegationInit, promise, Promised
<1>4. DelegationTypeOK
  BY <1>1, <1>2, <1>3 DEF DelegationInit, DelegationTypeOK
<1>5. SeatCount = 0
  <2>1. Seats(promise, Most) = {}
    BY <1>3 DEF Seats
  <2> QED BY <2>1, FS_EmptySet DEF SeatCount
<1>6. Cardinality(active) = 0
  BY FS_EmptySet DEF DelegationInit
<1>7. Cardinality(Hosts) \in Nat
  BY DelegationAssumption, FS_CardinalityType
<1>8. Most * (Cardinality(Hosts) - 1) + Most >= 0 /\ Most * Cardinality(Hosts) >= 0
  BY <1>2, <1>7
<1>9. PromisesFit
  BY <1>1, <1>2, <1>5, <1>6, <1>7, <1>8 DEF PromisesFit, DelegationInit
<1> QED BY <1>4, <1>9 DEF DelegationInv

(* A host that reads its counts is promised no more than they leave room for. *)
LEMMA ReadKeeps ==
  ASSUME DelegationInv, NEW h \in Hosts, NEW task \in Tasks, Read(h, task)
  PROVE  DelegationInv'
<1> DEFINE question == [task EXCEPT !.activeAgents = Cardinality(active), !.totalAgentsUsed = used]
           n == Slots(DecideWorkflow(limits, question).decision)
           now == Promised(limits, asking'[h], grant[h])
<1>1. /\ DelegationTypeOK /\ PromisesFit
      /\ Most \in 1 .. 2 /\ Most <= limits.maxConcurrentAgents
      /\ limits' = limits /\ active' = active /\ used' = used /\ grant' = grant
      /\ Most' = Most
  BY MostType DEF DelegationInv, Read, Most
<1>2. IsFiniteSet(active) /\ Cardinality(active) \in Nat
  <2>1. used \in Int /\ 1 \in Int
    BY <1>1 DEF DelegationTypeOK
  <2>2. IsFiniteSet(1 .. used)
    BY <2>1, FS_Interval
  <2>3. active \in SUBSET (1 .. used)
    BY <1>1 DEF DelegationTypeOK
  <2>4. IsFiniteSet(active)
    BY <2>2, <2>3, FS_Subset
  <2> QED BY <2>4, FS_CardinalityType
<1>3. /\ question \in WorkflowDecisionInput
      /\ question.activeAgents = Cardinality(active) /\ question.totalAgentsUsed = used
  <2>1. task \in WorkflowDecisionInput
    BY DelegationAssumption
  <2> QED BY <1>1, <1>2, <2>1 DEF WorkflowDecisionInput, DelegationTypeOK
<1>4. /\ asking \in [Hosts -> {Nothing} \cup WorkflowDecisionInput]
      /\ asking[h] = Nothing /\ grant[h] = 0 /\ grant \in [Hosts -> Nat]
      /\ asking' = [asking EXCEPT ![h] = question]
  BY <1>1 DEF Read, DelegationTypeOK
<1>5. /\ n \in 0 .. Most
      /\ n > 0 => used < limits.maxTotalAgents /\ Cardinality(active) + n <= limits.maxConcurrentAgents
  <2>1. limits.maxConcurrentAgents \in 1 .. 8 /\ limits.maxTotalAgents \in 1 .. 32
    BY <1>1 DEF DelegationTypeOK
  <2> HIDE DEF question
  <2>2. /\ n \in 0 .. 2
        /\ n <= IF limits.maxConcurrentAgents > 1 THEN 2 ELSE 1
        /\ n > 0 => /\ question.totalAgentsUsed < limits.maxTotalAgents
                    /\ question.activeAgents + n <= limits.maxConcurrentAgents
    BY <1>3, <2>1, DecisionFits
  <2> QED BY <1>1, <1>3, <2>2 DEF Most
<1>6. now \in {0, n}
  BY <1>4 DEF Promised
<1>7. promise' = [promise EXCEPT ![h] = now]
  BY <1>1, <1>4 DEF promise, Promised
<1>8. promise \in [Hosts -> 0 .. Most] /\ promise[h] = 0 /\ promise' \in [Hosts -> 0 .. Most]
  BY <1>1, <1>4, <1>5, <1>6, <1>7 DEF DelegationTypeOK, promise, Promised
<1>9. DelegationTypeOK'
  BY <1>1, <1>3, <1>4, <1>8 DEF DelegationTypeOK
<1>10. PromisesFit'
  <2>1. CASE now = 0
    <3>1. promise' = promise
      BY <1>7, <1>8, <2>1
    <3> QED BY <1>1, <3>1 DEF PromisesFit, SeatCount
  <2>2. CASE now # 0
    <3>1. now = n /\ n > 0
      BY <1>5, <1>6, <2>2
    <3>2. Cardinality(Seats(promise', Most)) <= Most * (Cardinality(Hosts) - 1) + n
      BY <1>1, <1>5, <1>7, <1>8, <3>1, SeatsPromised
    <3>3. /\ Cardinality(Hosts) \in Nat
          /\ Cardinality(Seats(promise', Most)) \in Nat
          /\ Cardinality(Seats(promise', Most)) <= Most * Cardinality(Hosts)
      <4>1. Most \in 0 .. 2
        BY <1>1
      <4> QED BY <4>1, SeatsFinite
    <3>4. SeatCount' = Cardinality(Seats(promise', Most))
      BY <1>1 DEF SeatCount
    <3>5. used \in Nat /\ limits.maxTotalAgents \in 1 .. 32 /\ limits.maxConcurrentAgents \in 1 .. 8
      BY <1>1 DEF DelegationTypeOK
    <3> DEFINE x == Most * (Cardinality(Hosts) - 1)
               y == Most * Cardinality(Hosts)
    <3>6. x \in Int /\ y \in Int
      BY <1>1, <3>3
    <3> HIDE DEF x, y, n
    <3>7. /\ Cardinality(active) + SeatCount' <= limits.maxConcurrentAgents + x
          /\ used + SeatCount' <= limits.maxTotalAgents - 1 + y
      BY <1>2, <1>5, <3>1, <3>2, <3>3, <3>4, <3>5, <3>6 DEF x, y
    <3> QED BY <1>1, <3>7 DEF PromisesFit, x, y
  <2> QED BY <2>1, <2>2
<1> QED BY <1>9, <1>10 DEF DelegationInv

(* The decision on a question is what was promised when it was asked. *)
LEMMA DecideKeeps ==
  ASSUME DelegationInv, NEW h \in Hosts, Decide(h)
  PROVE  DelegationInv'
<1> DEFINE n == Slots(DecideWorkflow(limits, asking[h]).decision)
<1>1. /\ DelegationTypeOK /\ PromisesFit
      /\ limits' = limits /\ active' = active /\ used' = used /\ Most' = Most
      /\ asking[h] # Nothing
      /\ grant' = [grant EXCEPT ![h] = n] /\ asking' = [asking EXCEPT ![h] = Nothing]
  BY DEF DelegationInv, Decide, Most
<1>2. /\ asking \in [Hosts -> {Nothing} \cup WorkflowDecisionInput]
      /\ grant \in [Hosts -> Nat] /\ n \in Nat
  BY <1>1 DEF DelegationTypeOK, Slots
<1>3. promise' = promise
  BY <1>1, <1>2 DEF promise, Promised
<1>4. DelegationTypeOK'
  BY <1>1, <1>2, <1>3 DEF DelegationTypeOK
<1>5. PromisesFit'
  BY <1>1, <1>3 DEF PromisesFit, SeatCount
<1> QED BY <1>4, <1>5 DEF DelegationInv

(* An agent that starts takes the seat it was promised. *)
LEMMA LaunchKeeps ==
  ASSUME DelegationInv, NEW h \in Hosts, Launch(h)
  PROVE  DelegationInv'
<1>1. /\ DelegationTypeOK /\ PromisesFit /\ Most \in 1 .. 2
      /\ limits' = limits /\ asking' = asking /\ Most' = Most
      /\ used' = used + 1 /\ active' = active \cup {used + 1}
      /\ grant[h] > 0 /\ grant' = [grant EXCEPT ![h] = @ - 1]
  BY MostType DEF DelegationInv, Launch, Most
<1>2. /\ asking \in [Hosts -> {Nothing} \cup WorkflowDecisionInput]
      /\ grant \in [Hosts -> Nat] /\ used \in Nat /\ active \subseteq 1 .. used
      /\ \A g \in Hosts : asking[g] # Nothing => grant[g] = 0
      /\ promise \in [Hosts -> 0 .. Most]
  BY <1>1 DEF DelegationTypeOK
<1>3. asking[h] = Nothing /\ promise[h] = grant[h]
  BY <1>1, <1>2 DEF promise, Promised
<1>4. promise' = [promise EXCEPT ![h] = @ - 1]
  BY <1>1, <1>2, <1>3 DEF promise, Promised
<1>5. /\ promise' \in [Hosts -> 0 .. Most] /\ grant' \in [Hosts -> Nat]
      /\ \A g \in Hosts : asking'[g] # Nothing => grant'[g] = 0
  BY <1>1, <1>2, <1>3, <1>4
<1>6. used' \in Nat /\ active' \subseteq 1 .. used'
  BY <1>1, <1>2
<1>7. DelegationTypeOK'
  BY <1>1, <1>2, <1>5, <1>6 DEF DelegationTypeOK
<1>8. SeatCount' = SeatCount - 1
  BY <1>1, <1>2, <1>3, <1>4, SeatTaken DEF SeatCount
<1>9. /\ Cardinality(active) \in Nat
      /\ Cardinality(active') = Cardinality(active) + 1
  <2>1. used \in Int /\ 1 \in Int
    BY <1>2
  <2>2. IsFiniteSet(1 .. used)
    BY <2>1, FS_Interval
  <2>3. active \in SUBSET (1 .. used)
    BY <1>2
  <2>4. IsFiniteSet(active)
    BY <2>2, <2>3, FS_Subset
  <2>5. used + 1 \notin active
    BY <1>2
  <2> QED BY <1>1, <2>4, <2>5, FS_CardinalityType, FS_AddElement
<1>10. SeatCount \in Nat /\ Cardinality(Hosts) \in Nat
  <2>1. Most \in 0 .. 2
    BY <1>1
  <2> QED BY <2>1, SeatsFinite DEF SeatCount
<1>11. limits.maxTotalAgents \in 1 .. 32 /\ limits.maxConcurrentAgents \in 1 .. 8
  BY <1>1 DEF DelegationTypeOK
<1>12. PromisesFit'
  <2> DEFINE x == Most * (Cardinality(Hosts) - 1)
             y == Most * Cardinality(Hosts)
  <2>1. x \in Int /\ y \in Int
    BY <1>1, <1>10
  <2>2. Cardinality(active) + SeatCount <= limits.maxConcurrentAgents + x
    BY <1>1 DEF PromisesFit
  <2>3. used + SeatCount <= limits.maxTotalAgents - 1 + y
    BY <1>1 DEF PromisesFit
  <2> HIDE DEF x, y
  <2>4. /\ Cardinality(active') + SeatCount' <= limits.maxConcurrentAgents + x
        /\ used' + SeatCount' <= limits.maxTotalAgents - 1 + y
    BY <1>1, <1>2, <1>8, <1>9, <1>10, <1>11, <2>1, <2>2, <2>3
  <2> QED BY <1>1, <2>4 DEF PromisesFit, x, y
<1> QED BY <1>7, <1>12 DEF DelegationInv

(* An agent that ends leaves its promise kept. *)
LEMMA EndKeeps ==
  ASSUME DelegationInv, NEW a \in active, End(a)
  PROVE  DelegationInv'
<1>1. /\ DelegationTypeOK /\ PromisesFit /\ Most \in 1 .. 2 /\ Most' = Most
      /\ limits' = limits /\ asking' = asking /\ used' = used /\ grant' = grant
      /\ active' = active \ {a}
  BY MostType DEF DelegationInv, End, Most
<1>2. promise' = promise /\ SeatCount' = SeatCount
  BY <1>1 DEF promise, SeatCount
<1>3. DelegationTypeOK'
  BY <1>1, <1>2 DEF DelegationTypeOK
<1>4. /\ Cardinality(active) \in Nat /\ Cardinality(active') \in Nat
      /\ Cardinality(active') <= Cardinality(active)
  <2>1. used \in Int /\ 1 \in Int /\ active \in SUBSET (1 .. used)
    BY <1>1 DEF DelegationTypeOK
  <2>2. IsFiniteSet(active)
    BY <2>1, FS_Interval, FS_Subset
  <2>3. active' \in SUBSET active
    BY <1>1
  <2> QED BY <2>2, <2>3, FS_Subset, FS_CardinalityType
<1>5. SeatCount \in Nat /\ Cardinality(Hosts) \in Nat
  <2>1. Most \in 0 .. 2
    BY <1>1
  <2> QED BY <2>1, SeatsFinite DEF SeatCount
<1>6. PromisesFit'
  <2> DEFINE x == Most * (Cardinality(Hosts) - 1)
  <2>1. x \in Int /\ limits.maxConcurrentAgents \in Int
    BY <1>1, <1>5 DEF DelegationTypeOK
  <2>2. Cardinality(active) + SeatCount <= limits.maxConcurrentAgents + x
    BY <1>1 DEF PromisesFit
  <2> HIDE DEF x
  <2>3. Cardinality(active') + SeatCount' <= limits.maxConcurrentAgents + x
    BY <1>2, <1>4, <1>5, <2>1, <2>2
  <2> QED BY <1>1, <1>2, <2>3 DEF PromisesFit, x
<1> QED BY <1>3, <1>6 DEF DelegationInv

----
LEMMA DelegationImplies ==
  ASSUME DelegationInv
  PROVE  AdmissionsBounded
<1>1. DelegationTypeOK /\ PromisesFit /\ Most \in 1 .. 2
  BY MostType DEF DelegationInv
<1>2. SeatCount \in Nat /\ Cardinality(Hosts) \in Nat
  <2>1. Most \in 0 .. 2
    BY <1>1
  <2> QED BY <2>1, SeatsFinite DEF SeatCount
<1>3. /\ used \in Nat /\ limits.maxTotalAgents \in Int /\ limits.maxConcurrentAgents \in Int
      /\ Cardinality(active) \in Nat
  <2>1. used \in Int /\ 1 \in Int /\ active \in SUBSET (1 .. used)
    BY <1>1 DEF DelegationTypeOK
  <2>2. IsFiniteSet(active)
    BY <2>1, FS_Interval, FS_Subset
  <2>3. Cardinality(active) \in Nat
    BY <2>2, FS_CardinalityType
  <2>4. used \in Nat /\ limits.maxTotalAgents \in 1 .. 32 /\ limits.maxConcurrentAgents \in 1 .. 8
    BY <1>1 DEF DelegationTypeOK
  <2> QED BY <2>3, <2>4
<1> DEFINE x == Most * (Cardinality(Hosts) - 1)
           y == Most * Cardinality(Hosts)
<1>4. x \in Int /\ y \in Int
  BY <1>1, <1>2
<1>5. /\ Cardinality(active) + SeatCount <= limits.maxConcurrentAgents + x
      /\ used + SeatCount <= limits.maxTotalAgents - 1 + y
  BY <1>1 DEF PromisesFit
<1> HIDE DEF x, y
<1>6. /\ Cardinality(active) <= limits.maxConcurrentAgents + x
      /\ used <= limits.maxTotalAgents - 1 + y
  BY <1>2, <1>3, <1>4, <1>5
<1> QED BY <1>6 DEF AdmissionsBounded, x, y

(* However many hosts ask decide() with counts that grow old, the agents    *)
(* running exceed the limit by no more than the other hosts may start on    *)
(* what they read, and the agents ever started by no more than all may.     *)
THEOREM AdmissionsAlwaysBounded == DelegationSpec => []AdmissionsBounded
<1>1. DelegationInit => DelegationInv
  BY DelegationInitially
<1>2. DelegationInv /\ [DelegationNext]_delegation => DelegationInv'
  <2> SUFFICES ASSUME DelegationInv, [DelegationNext]_delegation PROVE DelegationInv'
    OBVIOUS
  <2>1. CASE \E h \in Hosts, task \in Tasks : Read(h, task)
    BY <2>1, ReadKeeps
  <2>2. CASE \E h \in Hosts : Decide(h)
    BY <2>2, DecideKeeps
  <2>3. CASE \E h \in Hosts : Launch(h)
    BY <2>3, LaunchKeeps
  <2>4. CASE \E a \in active : End(a)
    BY <2>4, EndKeeps
  <2>5. CASE UNCHANGED delegation
    BY <2>5 DEF delegation, DelegationInv, DelegationTypeOK, PromisesFit, SeatCount, promise, Promised, Most
  <2> QED BY <2>1, <2>2, <2>3, <2>4, <2>5 DEF DelegationNext
<1>3. DelegationInv => AdmissionsBounded
  BY DelegationImplies
<1> QED BY <1>1, <1>2, <1>3, PTL DEF DelegationSpec

----
(* heavy is the task of in under at least as much load. *)
NoLighter(in, heavy) ==
  /\ heavy.complexity = in.complexity /\ heavy.parallelizable = in.parallelizable /\ heavy.risk = in.risk
  /\ heavy.requiresCapabilities = in.requiresCapabilities
  /\ heavy.availableCapabilities \subseteq in.availableCapabilities
  /\ heavy.availableProviders \subseteq in.availableProviders
  /\ in.depth <= heavy.depth /\ in.activeAgents <= heavy.activeAgents
  /\ in.totalAgentsUsed <= heavy.totalAgentsUsed
  /\ in.tokenPressureHigh => heavy.tokenPressureHigh
  /\ in.secretAccessRequested => heavy.secretAccessRequested

(* The fields of a decision input. *)
TaskFields ==
  {"complexity", "parallelizable", "risk", "requiresCapabilities", "availableCapabilities", "availableProviders",
   "depth", "activeAgents", "totalAgentsUsed", "tokenPressureHigh", "secretAccessRequested"}

LEMMA HeavierIsNoLighter ==
  ASSUME NEW in \in WorkflowDecisionInput, NEW heavy \in Heavier(in)
  PROVE  heavy \in WorkflowDecisionInput /\ NoLighter(in, heavy)
<1>1. CASE \E f \in {"depth", "activeAgents", "totalAgentsUsed"} : heavy = [in EXCEPT ![f] = @ + 1]
  <2>1. CASE heavy = [in EXCEPT !["depth"] = @ + 1]
    BY <2>1 DEF WorkflowDecisionInput, NoLighter
  <2>2. CASE heavy = [in EXCEPT !["activeAgents"] = @ + 1]
    BY <2>2 DEF WorkflowDecisionInput, NoLighter
  <2>3. CASE heavy = [in EXCEPT !["totalAgentsUsed"] = @ + 1]
    BY <2>3 DEF WorkflowDecisionInput, NoLighter
  <2> QED BY <1>1, <2>1, <2>2, <2>3
<1>2. CASE \E p \in in.availableProviders : heavy = [in EXCEPT !.availableProviders = @ \ {p}]
  BY <1>2 DEF WorkflowDecisionInput, NoLighter
<1>3. CASE \E c \in in.availableCapabilities : heavy = [in EXCEPT !.availableCapabilities = @ \ {c}]
  BY <1>3 DEF WorkflowDecisionInput, NoLighter
<1>4. CASE \E f \in {"tokenPressureHigh", "secretAccessRequested"} : heavy = [in EXCEPT ![f] = TRUE]
  <2>1. CASE heavy = [in EXCEPT !["tokenPressureHigh"] = TRUE]
    <3>1. heavy \in WorkflowDecisionInput
      BY <2>1 DEF WorkflowDecisionInput
    <3>2. \A field \in TaskFields \ {"tokenPressureHigh"} : heavy[field] = in[field]
      BY <2>1 DEF WorkflowDecisionInput, TaskFields
    <3>3. heavy.tokenPressureHigh
      BY <2>1 DEF WorkflowDecisionInput
    <3>4. in.secretAccessRequested => heavy.secretAccessRequested
      BY <3>2, Zenon DEF TaskFields
    <3>5. in.depth \in Nat /\ in.activeAgents \in Nat /\ in.totalAgentsUsed \in Nat
      BY DEF WorkflowDecisionInput
    <3> QED BY <3>1, <3>2, <3>3, <3>4, <3>5 DEF NoLighter, TaskFields
  <2>2. CASE heavy = [in EXCEPT !["secretAccessRequested"] = TRUE]
    <3>1. heavy \in WorkflowDecisionInput
      BY <2>2 DEF WorkflowDecisionInput
    <3>2. \A field \in TaskFields \ {"secretAccessRequested"} : heavy[field] = in[field]
      BY <2>2 DEF WorkflowDecisionInput, TaskFields
    <3>3. heavy.secretAccessRequested
      BY <2>2 DEF WorkflowDecisionInput
    <3>4. in.tokenPressureHigh => heavy.tokenPressureHigh
      BY <3>2, Zenon DEF TaskFields
    <3>5. in.depth \in Nat /\ in.activeAgents \in Nat /\ in.totalAgentsUsed \in Nat
      BY DEF WorkflowDecisionInput
    <3> QED BY <3>1, <3>2, <3>3, <3>4, <3>5 DEF NoLighter, TaskFields
  <2> QED BY <1>4, <2>1, <2>2
<1> QED BY <1>1, <1>2, <1>3, <1>4 DEF Heavier

(* Each condition of the decision holds under more load if it held under    *)
(* less, but for the one that asks for room.                                *)
LEMMA LoadConstrains ==
  ASSUME NEW l \in WorkflowLimitsConfig,
         NEW in \in WorkflowDecisionInput, NEW heavy \in WorkflowDecisionInput, NoLighter(in, heavy)
  PROVE  /\ BeyondBounds(l, in) => BeyondBounds(l, heavy)
         /\ Exhausted(l, in) => Exhausted(l, heavy)
         /\ Constrained(l, in) => Constrained(l, heavy)
         /\ Orchestrated(l, heavy) => Orchestrated(l, in)
         /\ Baseline(heavy) = Baseline(in)
<1>1. /\ in.depth \in Nat /\ in.activeAgents \in Nat /\ in.totalAgentsUsed \in Nat
      /\ heavy.depth \in Nat /\ heavy.activeAgents \in Nat /\ heavy.totalAgentsUsed \in Nat
      /\ l.maxConcurrentAgents \in Int /\ l.maxTotalAgents \in Int /\ l.maxDepth \in Int
  BY DEF WorkflowDecisionInput, WorkflowLimitsConfig
<1>2. /\ heavy.requiresCapabilities = in.requiresCapabilities
      /\ heavy.availableCapabilities \subseteq in.availableCapabilities
      /\ in.depth <= heavy.depth /\ in.activeAgents <= heavy.activeAgents
      /\ in.totalAgentsUsed <= heavy.totalAgentsUsed
      /\ ProvidersUsable(l, heavy) => ProvidersUsable(l, in)
  BY DEF NoLighter, ProvidersUsable
<1>3. Baseline(heavy) = Baseline(in) /\ heavy.risk = in.risk
  BY DEF NoLighter, Baseline
<1>4. in.tokenPressureHigh => heavy.tokenPressureHigh
  BY Zenon DEF NoLighter
<1>5. BeyondBounds(l, in) => BeyondBounds(l, heavy)
  BY <1>1, <1>2 DEF BeyondBounds
<1>6. Exhausted(l, in) => Exhausted(l, heavy)
  BY <1>1, <1>2 DEF Exhausted
<1>7. in.activeAgents >= l.maxConcurrentAgents => heavy.activeAgents >= l.maxConcurrentAgents
  BY <1>1, <1>2
<1>8. Constrained(l, in) => Constrained(l, heavy)
  BY <1>2, <1>4, <1>7, Zenon DEF Constrained
<1>9. Orchestrated(l, heavy) => Orchestrated(l, in)
  BY <1>1, <1>2, <1>3 DEF Orchestrated
<1> QED BY <1>3, <1>5, <1>6, <1>8, <1>9

(* "Never increases fan-out" (engine.ts:8): a task under at least as much    *)
(* load, by any number of steps of Heavier, is never spread further than    *)
(* before, and the policy plugin admits no delegation of it that it refused *)
(* before.                                                                  *)
THEOREM LoadSpreadsNothing ==
  ASSUME NEW l \in WorkflowLimitsConfig,
         NEW in \in WorkflowDecisionInput, NEW heavy \in WorkflowDecisionInput, NoLighter(in, heavy)
  PROVE  /\ FanOut(DecideWorkflow(l, heavy).decision) <= FanOut(DecideWorkflow(l, in).decision)
         /\ \A depth \in Int :
              EvaluateDelegationPolicy(depth, heavy.depth, heavy.secretAccessRequested)
                => EvaluateDelegationPolicy(depth, in.depth, in.secretAccessRequested)
<1> DEFINE light == DecideWorkflow(l, in).decision
           laden == DecideWorkflow(l, heavy).decision
<1>1. /\ FanOut("DENY") = 0 /\ FanOut("DIRECT") = 1 /\ FanOut("SUBAGENT") = 2
      /\ FanOut("WORKFLOW") = 3 /\ FanOut("SUPREME_WORKFLOW") = 4
  <2>1. /\ Rung("SUPREME_WORKFLOW") = 1 /\ Rung("WORKFLOW") = 2 /\ Rung("SUBAGENT") = 3
        /\ Rung("DIRECT") = 4
    BY DEF Rung, DegradeOrder
  <2> QED BY <2>1 DEF FanOut
<1>2. Baseline(in) \in {"DIRECT", "WORKFLOW", "SUBAGENT"}
  BY DEF Baseline
<1>3. /\ Wanted(l, in) = IF Orchestrated(l, in) THEN "SUPREME_WORKFLOW" ELSE Baseline(in)
      /\ Wanted(l, heavy) = IF Orchestrated(l, heavy) THEN "SUPREME_WORKFLOW" ELSE Baseline(in)
  BY LoadConstrains DEF Wanted
<1>4. /\ Degraded(l, in, Wanted(l, in)) = IF Constrained(l, in) THEN "DIRECT" ELSE Wanted(l, in)
      /\ Degraded(l, heavy, Wanted(l, heavy)) = IF Constrained(l, heavy) THEN "DIRECT" ELSE Wanted(l, heavy)
  BY <1>2, <1>3, LadderEnds
<1>5. in.secretAccessRequested => heavy.secretAccessRequested
  BY Zenon DEF NoLighter
<1>6. light = IF in.secretAccessRequested \/ BeyondBounds(l, in) THEN "DENY"
              ELSE IF Exhausted(l, in) \/ Constrained(l, in) THEN "DIRECT" ELSE Wanted(l, in)
  BY <1>4 DEF DecideWorkflow
<1>7. laden = IF heavy.secretAccessRequested \/ BeyondBounds(l, heavy) THEN "DENY"
              ELSE IF Exhausted(l, heavy) \/ Constrained(l, heavy) THEN "DIRECT" ELSE Wanted(l, heavy)
  BY <1>4 DEF DecideWorkflow
<1> HIDE DEF light, laden
<1>8. FanOut(Baseline(in)) \in 1 .. 3 /\ FanOut(Wanted(l, in)) \in 1 .. 4
      /\ FanOut(Wanted(l, heavy)) <= FanOut(Wanted(l, in)) /\ FanOut(Wanted(l, heavy)) \in 1 .. 4
  BY <1>1, <1>2, <1>3, LoadConstrains
<1>9. FanOut(laden) <= FanOut(light)
  <2>1. CASE in.secretAccessRequested \/ BeyondBounds(l, in)
    <3>1. light = "DENY" /\ laden = "DENY"
      BY <1>5, <1>6, <1>7, <2>1, LoadConstrains
    <3> QED BY <1>1, <3>1
  <2>2. CASE ~(in.secretAccessRequested \/ BeyondBounds(l, in)) /\ (Exhausted(l, in) \/ Constrained(l, in))
    <3>1. light = "DIRECT" /\ laden \in {"DENY", "DIRECT"}
      BY <1>6, <1>7, <2>2, LoadConstrains
    <3> QED BY <1>1, <3>1
  <2>3. CASE ~(in.secretAccessRequested \/ BeyondBounds(l, in)) /\ ~(Exhausted(l, in) \/ Constrained(l, in))
    <3>1. light = Wanted(l, in) /\ laden \in {"DENY", "DIRECT", Wanted(l, heavy)}
      BY <1>6, <1>7, <2>3
    <3> QED BY <1>1, <1>8, <3>1
  <2> QED BY <2>1, <2>2, <2>3
<1>10. in.depth \in Nat /\ heavy.depth \in Nat /\ in.depth <= heavy.depth
  BY DEF WorkflowDecisionInput, NoLighter
<1>11. ASSUME NEW depth \in Int,
              EvaluateDelegationPolicy(depth, heavy.depth, heavy.secretAccessRequested)
       PROVE  EvaluateDelegationPolicy(depth, in.depth, in.secretAccessRequested)
  <2>1. ~heavy.secretAccessRequested /\ heavy.depth <= depth
    BY <1>11, Zenon DEF EvaluateDelegationPolicy
  <2>2. in.depth <= depth
    BY <1>10, <2>1
  <2> QED BY <1>5, <2>1, <2>2, Zenon DEF EvaluateDelegationPolicy
<1> QED BY <1>9, <1>11 DEF light, laden

----
(* The rules of supreme-policy, for any scan, any risks of tools and any     *)
(* routes.                                                                  *)
CONSTANTS Scan(_, _, _), ToolRisk(_), Routes, Absent
Rules == INSTANCE PolicyRules

(* One configuration is as strict as another, setting by setting. *)
AsStrict(c, s) ==
  /\ s.executionClass = "LAB" => c.executionClass = "LAB"
  /\ c.taintPolicy = "DENY" => s.taintPolicy = "DENY"
  /\ c.reasoningTracePolicy # "OFF" => s.reasoningTracePolicy # "OFF"
  /\ c.reasoningTracePolicy = "ENFORCE" => s.reasoningTracePolicy = "ENFORCE"
  /\ c.capabilityClassGate # "OFF" => s.capabilityClassGate # "OFF"
  /\ c.capabilityClassGate = "ENFORCE" => s.capabilityClassGate = "ENFORCE"
  /\ c.enableUnicodeSanitization => s.enableUnicodeSanitization
  /\ c.enableEncodingScan => s.enableEncodingScan
  /\ c.denyCircumventionGuard => s.denyCircumventionGuard
  /\ c.logTaintAttempts => s.logTaintAttempts
  /\ c.requireVerificationForHighRisk => s.requireVerificationForHighRisk
  /\ s.riskGatedCoT => c.riskGatedCoT
  /\ s.allowPaid => c.allowPaid
  /\ s.allowTrial => c.allowTrial
  /\ s.sanctionedCapabilityClasses \subseteq c.sanctionedCapabilityClasses
  /\ s.labCapabilityClassAllowlist \subseteq c.labCapabilityClassAllowlist
  /\ \A r \in DOMAIN s.cotVisibilityProfiles :
       s.cotVisibilityProfiles[r] = "none"
         => r \in DOMAIN c.cotVisibilityProfiles /\ c.cotVisibilityProfiles[r] = "none"

(* A scan asked for more finds no less: it visits a value once for each     *)
(* kind of taint it is asked for.                                           *)
ScanSeesMore(args) ==
  \A u1, u2, e1, e2 \in BOOLEAN :
    (u1 => u2) /\ (e1 => e2) /\ Scan(args, u1, e1) # {} => Scan(args, u2, e2) # {}

(* What is used of a configuration's types. *)
Settings(c) ==
  /\ c.taintPolicy \in {"LOG_ONLY", "DENY"}
  /\ c.reasoningTracePolicy \in {"OFF", "AUDIT", "ENFORCE"}
  /\ c.capabilityClassGate \in {"OFF", "AUDIT", "ENFORCE"}
  /\ c.enableUnicodeSanitization \in BOOLEAN /\ c.enableEncodingScan \in BOOLEAN
  /\ c.denyCircumventionGuard \in BOOLEAN /\ c.logTaintAttempts \in BOOLEAN
  /\ c.riskGatedCoT \in BOOLEAN /\ c.allowPaid \in BOOLEAN /\ c.allowTrial \in BOOLEAN
  /\ c.requireVerificationForHighRisk \in BOOLEAN

(* The settings of an accepted configuration have their types. *)
LEMMA SettingsTyped ==
  ASSUME NEW c, Rules!ValidatePolicyConfig(c)
  PROVE  Settings(c)
<1>1. c \in Rules!SupremePolicyConfig
  BY Zenon DEF Rules!ValidatePolicyConfig
<1> QED BY <1>1 DEF Rules!SupremePolicyConfig, Settings

(* What Stricter changes of a configuration leaves it as strict. *)
LEMMA StricterIsAsStrict ==
  ASSUME NEW c, Rules!ValidatePolicyConfig(c), NEW s \in Rules!Stricter(c)
  PROVE  AsStrict(c, s)
<1>1. c \in Rules!SupremePolicyConfig
  BY Zenon DEF Rules!ValidatePolicyConfig
<1>2. CASE s \in {[c EXCEPT !.enableUnicodeSanitization = TRUE], [c EXCEPT !.enableEncodingScan = TRUE],
                  [c EXCEPT !.requireVerificationForHighRisk = TRUE]}
  BY <1>1, <1>2 DEF Rules!SupremePolicyConfig, AsStrict
<1>3. CASE s \in {[c EXCEPT !.allowPaid = FALSE], [c EXCEPT !.allowTrial = FALSE], [c EXCEPT !.riskGatedCoT = FALSE]}
  BY <1>1, <1>3 DEF Rules!SupremePolicyConfig, AsStrict
<1>4. CASE \E label : s = [c EXCEPT !.sanctionedCapabilityClasses = @ \ {label}]
                      \/ s = [c EXCEPT !.labCapabilityClassAllowlist = @ \ {label}]
  BY <1>1, <1>4 DEF Rules!SupremePolicyConfig, AsStrict
<1>5. CASE \E class \in {"CORE", "STANDARD", "SUPREME"} : s = [c EXCEPT !.executionClass = class]
  BY <1>1, <1>5 DEF Rules!SupremePolicyConfig, AsStrict
<1>6. CASE s = [c EXCEPT !.cotVisibilityProfiles = [r \in {p \in DOMAIN @ : @[p] # "none"} |-> @[r]]]
  BY <1>1, <1>6 DEF Rules!SupremePolicyConfig, AsStrict
<1>7. ASSUME NEW f \in {"taintPolicy", "reasoningTracePolicy", "capabilityClassGate"}, NEW v,
             s = [c EXCEPT ![f] = v],
             <<c[f], v>> \in {<<"OFF", "AUDIT">>, <<"AUDIT", "ENFORCE">>, <<"LOG_ONLY", "DENY">>}
      PROVE  AsStrict(c, s)
  <2>1. CASE f = "taintPolicy"
    BY <1>1, <1>7, <2>1 DEF Rules!SupremePolicyConfig, AsStrict
  <2>2. CASE f = "reasoningTracePolicy"
    BY <1>1, <1>7, <2>2 DEF Rules!SupremePolicyConfig, AsStrict
  <2>3. CASE f = "capabilityClassGate"
    BY <1>1, <1>7, <2>3 DEF Rules!SupremePolicyConfig, AsStrict
  <2> QED BY <2>1, <2>2, <2>3
<1> DEFINE next == [mode \in {"OFF", "AUDIT", "LOG_ONLY"} |->
                      CASE mode = "OFF" -> "AUDIT" [] mode = "AUDIT" -> "ENFORCE" [] mode = "LOG_ONLY" -> "DENY"]
           raised(f) == IF c[f] \in DOMAIN next THEN {[c EXCEPT ![f] = next[c[f]]]} ELSE {}
<1>8. CASE s \in UNION {raised(f) : f \in {"taintPolicy", "reasoningTracePolicy", "capabilityClassGate"}}
  <2>1. PICK f \in {"taintPolicy", "reasoningTracePolicy", "capabilityClassGate"} : s \in raised(f)
    BY <1>8, Zenon
  <2>2. c[f] \in DOMAIN next /\ s = [c EXCEPT ![f] = next[c[f]]]
    BY <2>1, Zenon
  <2>3. <<c[f], next[c[f]]>> \in {<<"OFF", "AUDIT">>, <<"AUDIT", "ENFORCE">>, <<"LOG_ONLY", "DENY">>}
    BY <2>2
  <2> HIDE DEF next
  <2> QED BY <1>7, <2>2, <2>3, Zenon
<1> DEFINE modes == UNION {raised(f) : f \in {"taintPolicy", "reasoningTracePolicy", "capabilityClassGate"}}
           required == {[c EXCEPT ![f] = TRUE] : f \in {"enableUnicodeSanitization", "enableEncodingScan",
                                                        "requireVerificationForHighRisk"}}
           paid == {[c EXCEPT ![f] = FALSE] : f \in {"allowPaid", "allowTrial"}}
           gated == {[c EXCEPT !.riskGatedCoT = FALSE]}
           unlisted == {[c EXCEPT !.sanctionedCapabilityClasses = @ \ {label}] : label \in c.sanctionedCapabilityClasses}
           barred == {[c EXCEPT !.labCapabilityClassAllowlist = @ \ {label}] : label \in c.labCapabilityClassAllowlist}
           lowered == {[c EXCEPT !.executionClass = class] : class \in {"CORE", "STANDARD", "SUPREME"}}
           spoken == {[c EXCEPT !.cotVisibilityProfiles = [r \in {p \in DOMAIN @ : @[p] # "none"} |-> @[r]]]}
<1>9. Rules!Stricter(c) = modes \cup required \cup paid \cup gated \cup unlisted \cup barred \cup lowered \cup spoken
  BY Zenon DEF Rules!Stricter
<1>10. (s \in required => AsStrict(c, s)) /\ (s \in paid \cup gated => AsStrict(c, s))
  BY <1>2, <1>3
<1>11. (s \in unlisted \cup barred => AsStrict(c, s)) /\ (s \in lowered => AsStrict(c, s))
  BY <1>4, <1>5
<1>12. (s \in modes => AsStrict(c, s)) /\ (s \in spoken => AsStrict(c, s))
  BY <1>6, <1>8
<1> HIDE DEF modes, required, paid, gated, unlisted, barred, lowered, spoken
<1> QED BY <1>9, <1>10, <1>11, <1>12

(* The capability gate of a stricter configuration denies where the other   *)
(* denies, and denies or records where it records.                          *)
LEMMA CapabilityTightens ==
  ASSUME NEW c, NEW s, Settings(c), Settings(s), AsStrict(c, s), NEW label
  PROVE  /\ Rules!EvaluateCapabilityGate(c, label) = "DENY" => Rules!EvaluateCapabilityGate(s, label) = "DENY"
         /\ Rules!EvaluateCapabilityGate(c, label) = "AUDIT"
              => Rules!EvaluateCapabilityGate(s, label) \in {"AUDIT", "DENY"}
<1>1. Rules!IsCapabilityClassSanctioned(s, label) => Rules!IsCapabilityClassSanctioned(c, label)
  BY DEF Rules!IsCapabilityClassSanctioned, AsStrict
<1> QED BY <1>1 DEF Rules!EvaluateCapabilityGate, AsStrict, Settings

(* The reasoning gate likewise: a profile that excuses silence, and the     *)
(* enforcement for risky tools alone, are the laxer settings.               *)
LEMMA ReasoningTightens ==
  ASSUME NEW c, NEW s, Settings(c), Settings(s), AsStrict(c, s), NEW call, NEW known
  PROVE  /\ Rules!CoTGate(c, call, known) = "DENY" => Rules!CoTGate(s, call, known) = "DENY"
         /\ Rules!CoTGate(c, call, known) = "AUDIT" => Rules!CoTGate(s, call, known) \in {"AUDIT", "DENY"}
<1> DEFINE risk == ToolRisk(call.tool)
           seen(d) == Rules!ResolveCotVisibility(d, call)
<1>1. seen(s) = "none" => seen(c) = "none"
  BY DEF Rules!ResolveCotVisibility, AsStrict
<1>2. \A d : Rules!CoTGate(d, call, known)
               = Rules!EvaluateCoTEnforcement(d.reasoningTracePolicy, d.riskGatedCoT, risk, seen(d), known)
  BY DEF Rules!CoTGate
<1> HIDE DEF risk, seen
<1> QED BY <1>1, <1>2 DEF Rules!EvaluateCoTEnforcement, Rules!EvaluateCoTGate, AsStrict, Settings

(* The taint gates likewise: what a scan found, a wider scan finds. *)
LEMMA ScansTighten ==
  ASSUME NEW c, NEW s, Settings(c), Settings(s), AsStrict(c, s), NEW call, ScanSeesMore(call.args),
         NEW unicode \in BOOLEAN, NEW encoding \in BOOLEAN
  PROVE  Rules!Taints(c, call, unicode, encoding) # {} => Rules!Taints(s, call, unicode, encoding) # {}
<1>1. /\ (unicode /\ c.enableUnicodeSanitization) \in BOOLEAN /\ (unicode /\ s.enableUnicodeSanitization) \in BOOLEAN
      /\ (encoding /\ c.enableEncodingScan) \in BOOLEAN /\ (encoding /\ s.enableEncodingScan) \in BOOLEAN
  BY Zenon
<1>2. /\ (unicode /\ c.enableUnicodeSanitization) => (unicode /\ s.enableUnicodeSanitization)
      /\ (encoding /\ c.enableEncodingScan) => (encoding /\ s.enableEncodingScan)
  BY Zenon DEF AsStrict
<1> QED BY <1>1, <1>2, Zenon DEF ScanSeesMore, Rules!Taints

(* Under a configuration as strict as another a call fares no better: what  *)
(* was refused is refused, and what was recorded is refused or recorded     *)
(* with as much.  Any settings may be stricter at once, Stricter's among    *)
(* them; the tools/pre-execute listener of engine.ts.                       *)
THEOREM StricterTreatsNoMilder ==
  ASSUME NEW c, NEW s, Rules!ValidatePolicyConfig(c), Rules!ValidatePolicyConfig(s),
         AsStrict(c, s) \/ s \in Rules!Stricter(c),
         NEW call, ScanSeesMore(call.args), NEW remembered, NEW known
  PROVE  Rules!NoMilder(Rules!Treatment(c, call, remembered, known), Rules!Treatment(s, call, remembered, known))
<1> DEFINE label == Rules!ExtractCapabilitySignal(call)
<1>1. Settings(c) /\ Settings(s) /\ AsStrict(c, s)
  BY SettingsTyped, StricterIsAsStrict
<1> SUFFICES ASSUME Rules!PreExecute(s, call, remembered, known) = "next"
      PROVE  /\ Rules!PreExecute(c, call, remembered, known) = "next"
             /\ Rules!Audits(c, call, known) \subseteq Rules!Audits(s, call, known)
  BY DEF Rules!NoMilder, Rules!Treatment
<1>2. /\ ~(s.denyCircumventionGuard /\ remembered)
      /\ Rules!EvaluateCapabilityGate(s, label) # "DENY"
      /\ ~(s.taintPolicy = "DENY" /\ Rules!Taints(s, call, TRUE, FALSE) # {})
      /\ ~(s.taintPolicy = "DENY" /\ Rules!Taints(s, call, FALSE, TRUE) # {})
      /\ Rules!CoTGate(s, call, known) # "DENY"
  BY DEF Rules!PreExecute
<1>3. /\ ~(c.denyCircumventionGuard /\ remembered)
      /\ Rules!EvaluateCapabilityGate(c, label) # "DENY"
      /\ ~(c.taintPolicy = "DENY" /\ Rules!Taints(c, call, TRUE, FALSE) # {})
      /\ ~(c.taintPolicy = "DENY" /\ Rules!Taints(c, call, FALSE, TRUE) # {})
      /\ Rules!CoTGate(c, call, known) # "DENY"
  <2>1. /\ Rules!Taints(c, call, TRUE, FALSE) # {} => Rules!Taints(s, call, TRUE, FALSE) # {}
        /\ Rules!Taints(c, call, FALSE, TRUE) # {} => Rules!Taints(s, call, FALSE, TRUE) # {}
    BY <1>1, ScansTighten
  <2>2. Rules!EvaluateCapabilityGate(c, label) # "DENY"
    BY <1>1, <1>2, CapabilityTightens
  <2>3. Rules!CoTGate(c, call, known) # "DENY"
    BY <1>1, <1>2, ReasoningTightens
  <2> QED BY <1>1, <1>2, <2>1, <2>2, <2>3, Zenon DEF AsStrict
<1>4. Rules!PreExecute(c, call, remembered, known) = "next"
  BY <1>3, Zenon DEF Rules!PreExecute
<1>5. Rules!EvaluateCapabilityGate(c, label) = "AUDIT" => Rules!EvaluateCapabilityGate(s, label) = "AUDIT"
  BY <1>1, <1>2, CapabilityTightens
<1>6. Rules!CoTGate(c, call, known) = "AUDIT" => Rules!CoTGate(s, call, known) = "AUDIT"
  BY <1>1, <1>2, ReasoningTightens
<1>7. c.logTaintAttempts /\ Rules!Taints(c, call, TRUE, TRUE) # {}
        => s.logTaintAttempts /\ Rules!Taints(s, call, TRUE, TRUE) # {}
  BY <1>1, ScansTighten, Zenon DEF AsStrict
<1>8. Rules!Audits(c, call, known) \subseteq Rules!Audits(s, call, known)
  BY <1>5, <1>6, <1>7 DEF Rules!Audits
<1> QED BY <1>4, <1>8

(* "Labeling can only RESTRICT, never grant": a call that names its class   *)
(* fares no better than the same call naming none.                          *)
THEOREM LabelingNeverGrants ==
  ASSUME NEW c, NEW plain, NEW call, plain.label = Absent, plain.argLabel = Absent,
         \A f \in {"tool", "args", "route", "visibility"} : plain[f] = call[f],
         NEW remembered, NEW known
  PROVE  Rules!NoMilder(Rules!Treatment(c, plain, remembered, known), Rules!Treatment(c, call, remembered, known))
<1>1. /\ plain.tool = call.tool /\ plain.args = call.args
      /\ plain.route = call.route /\ plain.visibility = call.visibility
  OBVIOUS
<1>2. Rules!EvaluateCapabilityGate(c, Rules!ExtractCapabilitySignal(plain)) = "ALLOW"
  BY DEF Rules!EvaluateCapabilityGate, Rules!ExtractCapabilitySignal
<1>3. /\ Rules!CoTGate(c, plain, known) = Rules!CoTGate(c, call, known)
      /\ \A u, e : Rules!Taints(c, plain, u, e) = Rules!Taints(c, call, u, e)
  BY <1>1 DEF Rules!CoTGate, Rules!Taints, Rules!ResolveCotVisibility
<1>4. Rules!PreExecute(c, call, remembered, known) = "next" => Rules!PreExecute(c, plain, remembered, known) = "next"
  BY <1>2, <1>3 DEF Rules!PreExecute
<1>5. Rules!Audits(c, plain, known) \subseteq Rules!Audits(c, call, known)
  BY <1>2, <1>3 DEF Rules!Audits
<1> QED BY <1>4, <1>5 DEF Rules!NoMilder, Rules!Treatment

(* Under a configuration as strict as another a route fares no better: what *)
(* is admitted was admitted, and is verified as much.  And what the prompt  *)
(* says of the floor is what becomes of the route.                          *)
THEOREM StricterAdmitsNoMore ==
  ASSUME NEW c, NEW s, Rules!ValidatePolicyConfig(c), Rules!ValidatePolicyConfig(s),
         AsStrict(c, s) \/ s \in Rules!Stricter(c),
         NEW risk \in {"LOW", "MEDIUM", "HIGH"},
         NEW cost \in {"FREE_CONFIRMED", "FREE_LIMITED", "TRIAL", "PAID", "UNKNOWN"}
  PROVE  /\ Rules!NoLaxer(Rules!EvaluateRoutePolicy(c, risk, cost), Rules!EvaluateRoutePolicy(s, risk, cost))
         /\ Rules!Truthful(Rules!ExecutionPolicySummary(c), Rules!EvaluateRoutePolicy(c, risk, cost), risk, cost)
<1> DEFINE Pairs == {<<"NONE", "NONE">>, <<"BASIC", "BASIC">>, <<"BASIC", "REQUIRED">>,
                     <<"REQUIRED", "REQUIRED">>, <<"STRICT", "STRICT">>}
           needs(d) == Rules!VerificationRequirement(d, risk, cost)
<1>1. Settings(c) /\ Settings(s) /\ AsStrict(c, s)
  BY SettingsTyped, StricterIsAsStrict
<1>2. Rules!AdmitsCost(s, cost) => Rules!AdmitsCost(c, cost)
  BY <1>1 DEF Rules!AdmitsCost, AsStrict
<1>3. Rules!AdmitsCost(s, cost) => <<needs(c), needs(s)>> \in Pairs
  <2> SUFFICES ASSUME Rules!AdmitsCost(s, cost) PROVE <<needs(c), needs(s)>> \in Pairs
    OBVIOUS
  <2>1. CASE risk = "HIGH"
    BY <1>1, <2>1 DEF Rules!VerificationRequirement, AsStrict, Settings
  <2>2. CASE risk = "MEDIUM"
    BY <1>1, <2>2 DEF Rules!VerificationRequirement
  <2>3. CASE risk = "LOW"
    <3>1. cost = "PAID" => s.allowPaid /\ c.allowPaid
      BY <1>1 DEF Rules!AdmitsCost, AsStrict
    <3> QED BY <2>3, <3>1 DEF Rules!VerificationRequirement
  <2> QED BY <2>1, <2>2, <2>3
<1>4. \A v, w : <<v, w>> \in Pairs
                 => \E i, j \in DOMAIN Rules!Levels : i <= j /\ Rules!Levels[i] = v /\ Rules!Levels[j] = w
  <2>1. /\ DOMAIN Rules!Levels = 1 .. 4 /\ Rules!Levels[1] = "NONE" /\ Rules!Levels[2] = "BASIC"
        /\ Rules!Levels[3] = "REQUIRED" /\ Rules!Levels[4] = "STRICT"
    BY DEF Rules!Levels
  <2> QED BY <2>1
<1>5. Rules!NoLaxer(Rules!EvaluateRoutePolicy(c, risk, cost), Rules!EvaluateRoutePolicy(s, risk, cost))
  <2> HIDE DEF Pairs
  <2>1. Rules!AdmitsCost(s, cost)
          => \E i, j \in DOMAIN Rules!Levels : i <= j /\ Rules!Levels[i] = needs(c) /\ Rules!Levels[j] = needs(s)
    BY <1>3, <1>4
  <2> QED BY <1>2, <2>1 DEF Rules!NoLaxer, Rules!EvaluateRoutePolicy
<1>6. Rules!Truthful(Rules!ExecutionPolicySummary(c), Rules!EvaluateRoutePolicy(c, risk, cost), risk, cost)
  BY <1>1 DEF Rules!Truthful, Rules!ExecutionPolicySummary, Rules!EvaluateRoutePolicy, Rules!AdmitsCost,
              Rules!VerificationRequirement, Settings
<1> QED BY <1>5, <1>6
================================================================================
