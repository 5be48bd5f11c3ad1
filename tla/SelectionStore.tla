----------------------------- MODULE SelectionStore -----------------------------
(***************************************************************************)
(* supreme-memory-policy's store of selections: a bounded LRU map from     *)
(* (session, task) to what select() chose, and a second one from session   *)
(* to its active task, which the prompt section renders.  One capacity     *)
(* bounds both, each evicts by its own order of use, and the two can lose  *)
(* a session at different times.                                           *)
(*                                                                         *)
(* Service calls normalise the session id they are given; the prompt       *)
(* section uses the id of the assembly's agent as it is.  Tasks are the    *)
(* trimmed ids: everything that takes one trims it.  What select() chooses *)
(* is any member of Content, Blank when nothing qualifies.                 *)
(***************************************************************************)
EXTENDS BoundedMap

CONSTANTS
  Session, Task, Content, Blank, Nothing, Normalized, NoIdentity,
  NoTask,           \* a session without an active task
  Capacity          \* selectionStoreCap, after clamping

ASSUME SessionAssumption ==
  /\ Normalized \in [Session -> Session \cup {NoIdentity}]
  /\ NoIdentity \notin Session
  /\ \A r \in Session : Normalized[r] \in Session
                          => Normalized[Normalized[r]] = Normalized[r]

ASSUME ContentAssumption == Blank \in Content /\ Nothing \notin Content
ASSUME StoreAssumption == Capacity \in Nat \ {0} /\ NoTask \notin Task

VARIABLES
  entryOrder,      \* the entries' keys, least recently used first
  selection,       \* identity -> its entry, or Nothing
  activeOrder,     \* the keys of activeTask, least recently used first
  activeTask,      \* session -> its active task, or NoTask
  prompt,          \* the section the last prompt assembly got
  recency,         \* history: every identity used since its last release
  sessionRecency   \* history: every session whose pointer was used since

store == <<entryOrder, selection, activeOrder, activeTask>>
vars == <<store, prompt, recency, sessionRecency>>

Identity == Session \X Task

TypeOK ==
  /\ entryOrder \in Seq(Identity)
  /\ selection \in [Identity -> Content \cup {Nothing}]
  /\ activeOrder \in Seq(Session)
  /\ activeTask \in [Session -> Task \cup {NoTask}]
  /\ prompt \in Content \cup {Nothing}
  /\ recency \in Seq(Identity)
  /\ sessionRecency \in Seq(Session)

Init ==
  /\ entryOrder = << >> /\ recency = << >>
  /\ activeOrder = << >> /\ sessionRecency = << >>
  /\ selection = [i \in Identity |-> Nothing]
  /\ activeTask = [s \in Session |-> NoTask]
  /\ prompt = Nothing

----
(* Map.delete then Map.set: k becomes the most recently used key. *)
Touched(order, k) == Append(Delete(order, k), k)

(* record(): delete, set, and evict the oldest beyond the capacity. *)
EvictsOldest(order, k) == Evicts(Delete(order, k), k, Capacity)

(* Mutant: the size check comes one key late. *)
RecordedOneTooMany(order, k) == Insert(Delete(order, k), k, Capacity + 1)

Recorded(order, k) == Insert(Delete(order, k), k, Capacity)

(* Mutant: a hit does not refresh. *)
UsedInPlace(order, k) == order

(* get() and activeTaskOf() refresh a key they find. *)
Used(order, k) == IF k \in ToSet(order) THEN Touched(order, k) ELSE order

(* Mutant: an empty id is an identity. *)
(* The session a service call is about: none when its id is empty. *)
Owner(r) == {s \in Session : s = Normalized[r]}
IdentitiesOf(sessions) == {i \in Identity : i[1] \in sessions}

----
(* select() with a full identity: storeScoped() and record(). *)
Select(r, t, c) == \E s \in Owner(r) :
  LET i == <<s, t>>
  IN  /\ entryOrder' = Recorded(entryOrder, i)
      /\ selection' = [k \in Identity |->
                         IF k = i THEN c
                         ELSE IF k \in EvictsOldest(entryOrder, i) THEN Nothing ELSE selection[k]]
      /\ activeOrder' = Recorded(activeOrder, s)
      /\ activeTask' = [x \in Session |->
                          IF x = s THEN t
                          ELSE IF x \in EvictsOldest(activeOrder, s) THEN NoTask ELSE activeTask[x]]
      /\ recency' = Touched(recency, i)
      /\ sessionRecency' = Touched(sessionRecency, s)
      /\ UNCHANGED prompt

(* lookup() of a full identity: the entry of exactly that identity. *)
Lookup(r, t) == \E s \in Owner(r) :
  /\ <<s, t>> \in ToSet(entryOrder)
  /\ entryOrder' = Used(entryOrder, <<s, t>>)
  /\ recency' = Touched(recency, <<s, t>>)
  /\ UNCHANGED <<selection, activeOrder, activeTask, prompt, sessionRecency>>

(* Mutant: the section falls back to any selection of the session. *)
RenderAnyOfSession(r) ==
  /\ activeTask[r] # NoTask
  /\ \E t \in Task : prompt' = selection[<<r, t>>]
  /\ UNCHANGED <<store, recency, sessionRecency>>

(* The prompt section: activeTaskOf(), then get(), each refreshing its map. *)
RenderActive(r) ==
  LET i == <<r, activeTask[r]>>
  IN  /\ activeTask[r] # NoTask
      /\ activeOrder' = Used(activeOrder, r)
      /\ sessionRecency' = Touched(sessionRecency, r)
      /\ entryOrder' = Used(entryOrder, i)
      /\ recency' = IF selection[i] = Nothing THEN recency ELSE Touched(recency, i)
      /\ prompt' = IF selection[i] = Blank THEN Nothing ELSE selection[i]
      /\ UNCHANGED <<selection, activeTask>>

RenderNothing(r) ==
  /\ activeTask[r] = NoTask
  /\ prompt' = Nothing
  /\ UNCHANGED <<store, recency, sessionRecency>>

(* releaseTask(): the pointer goes only when it points at that task. *)
ReleaseTask(r, t) == \E s \in Owner(r) :
  /\ entryOrder' = Delete(entryOrder, <<s, t>>)
  /\ recency' = Delete(recency, <<s, t>>)
  /\ selection' = [selection EXCEPT ![<<s, t>>] = Nothing]
  /\ IF activeTask[s] = t
     THEN /\ activeOrder' = Delete(activeOrder, s)
          /\ sessionRecency' = Delete(sessionRecency, s)
          /\ activeTask' = [activeTask EXCEPT ![s] = NoTask]
     ELSE UNCHANGED <<activeOrder, activeTask, sessionRecency>>
  /\ UNCHANGED prompt

(* releaseSession() and the session/disposed event for some sessions, and  *)
(* releaseAll() and the plugin's disposal for all of them.                 *)
Release(sessions) ==
  /\ entryOrder' = DeleteAll(entryOrder, IdentitiesOf(sessions))
  /\ recency' = DeleteAll(recency, IdentitiesOf(sessions))
  /\ selection' = [i \in Identity |-> IF i[1] \in sessions THEN Nothing ELSE selection[i]]
  /\ activeOrder' = DeleteAll(activeOrder, sessions)
  /\ sessionRecency' = DeleteAll(sessionRecency, sessions)
  /\ activeTask' = [s \in Session |-> IF s \in sessions THEN NoTask ELSE activeTask[s]]
  /\ UNCHANGED prompt

ReleaseSession(r) == Normalized[r] # NoIdentity /\ Release(Owner(r))
ReleaseAll == Release(Session)

Next ==
  \/ \E r \in Session :
       \/ \E t \in Task :
            \/ \E c \in Content : Select(r, t, c)
            \/ Lookup(r, t)
            \/ ReleaseTask(r, t)
       \/ RenderActive(r)
       \/ RenderNothing(r)
       \/ ReleaseSession(r)
  \/ ReleaseAll

Spec == Init /\ [][Next]_vars

----
(* Each map holds at most Capacity keys, none twice, and exactly the keys   *)
(* that have a value: an evicted or released identity leaves no content.    *)
StoreInv ==
  /\ IsBoundedMap(entryOrder, Capacity)
  /\ IsBoundedMap(activeOrder, Capacity)
  /\ \A i \in Identity : i \in ToSet(entryOrder) <=> selection[i] # Nothing
  /\ \A s \in Session : s \in ToSet(activeOrder) <=> activeTask[s] # NoTask

(* Both maps forget in the order of use, whatever mix of selects, lookups,  *)
(* renders and releases went before: what is kept was used later than       *)
(* anything that was evicted and not released since.                        *)
LeastRecentlyUsedGoesFirst ==
  IsSuffix(entryOrder, recency) /\ IsSuffix(activeOrder, sessionRecency)

(* The selection a session's prompt can still show. *)
LatestOf(s) ==
  IF activeTask[s] = NoTask \/ selection[<<s, activeTask[s]>>] = Nothing THEN << >>
  ELSE <<activeTask[s], selection[<<s, activeTask[s]>>]>>

(* The two maps and their two evictions implement the promise: a prompt     *)
(* shows its own session's last selection or nothing, never an older one.   *)
Promise == INSTANCE LatestSelection WITH latest <- [s \in Session |-> LatestOf(s)]
ShowsLatestOrNothing == Promise!Spec
================================================================================
