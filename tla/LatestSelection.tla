---------------------------- MODULE LatestSelection ----------------------------
(***************************************************************************)
(* What supreme-memory-policy promises a session's prompt: it shows the    *)
(* selection the session made last, or nothing.  Selections may be         *)
(* forgotten when others select; a forgotten or released one never gives   *)
(* way to an older one, and never to another session's.                    *)
(***************************************************************************)
CONSTANTS
  Session,          \* session ids as hosts write them
  Task,             \* task ids, trimmed
  Content,          \* what a selection can hold
  Blank,            \* the selection of nothing
  Nothing,          \* no selection, and an empty prompt section
  Normalized,       \* session id -> its trimmed form
  NoIdentity        \* the trimmed form of an empty id

VARIABLES
  latest,    \* session -> the task and content selected last, or Nothing
  prompt     \* the section the last prompt assembly got

Latest == (Task \X Content) \cup {<<>>}

(* The section that renders a selection: an empty one renders as nothing. *)
Rendered(c) == IF c = Blank THEN Nothing ELSE c

Init == latest = [s \in Session |-> <<>>] /\ prompt = Nothing

Select(s, t, c) ==
  /\ latest' \in [Session -> Latest]
  /\ latest'[s] = <<t, c>>
  /\ \A x \in Session \ {s} : latest'[x] \in {latest[x], <<>>}
  /\ UNCHANGED prompt

Render(r) ==
  /\ prompt' = IF latest[r] = <<>> THEN Nothing ELSE Rendered(latest[r][2])
  /\ UNCHANGED latest

ReleaseTask(s, t) ==
  /\ latest' = [latest EXCEPT ![s] = IF @ # <<>> /\ @[1] = t THEN <<>> ELSE @]
  /\ UNCHANGED prompt

Release(sessions) ==
  /\ latest' = [s \in Session |-> IF s \in sessions THEN <<>> ELSE latest[s]]
  /\ UNCHANGED prompt

Own(r) == Normalized[r] \in Session

Next ==
  \/ \E r \in Session : Render(r)
  \/ \E r \in {x \in Session : Own(x)} :
       \/ \E t \in Task : \/ \E c \in Content : Select(Normalized[r], t, c)
                          \/ ReleaseTask(Normalized[r], t)
       \/ Release({Normalized[r]})
  \/ Release(Session)

Spec == Init /\ [][Next]_<<latest, prompt>>
================================================================================
