------------------------------ MODULE FailOpenLog ------------------------------
(***************************************************************************)
(* The append-only JSONL store the plugins persist through: records kept   *)
(* in memory, newest MaxEntries of them, and appended one at a time to a   *)
(* file by a chain of promises.  An append that fails is swallowed: the    *)
(* record stays in memory and the caller is answered as if it was kept.    *)
(*                                                                         *)
(* The file is the sequence of its readable lines.  An append that stops   *)
(* half-way, by an error or by a crash, leaves a partial line; the next    *)
(* append continues that line, and a reload skips it as corrupt.           *)
(***************************************************************************)
EXTENDS Integers, Sequences

CONSTANT
  MaxEntries     \* how many records memory retains

ASSUME LogAssumption == MaxEntries \in Nat \ {0}

VARIABLES
  memory,        \* the retained records, in the order they were pushed
  queue,         \* pushed, and not yet settled by the append chain
  file,          \* the readable lines
  partial        \* whether the file ends in a partial line

log == <<memory, queue, file, partial>>

LogTypeOK(Entry) ==
  /\ memory \in Seq(Entry) /\ Len(memory) <= MaxEntries
  /\ queue \in Seq(Entry)
  /\ file \in Seq(Entry)
  /\ partial \in BOOLEAN

LogInit == memory = << >> /\ queue = << >> /\ file = << >> /\ partial = FALSE

----
(* Mutant: the size is checked before the record is added. *)
RetainedOneMore(s) ==
  IF Len(s) <= MaxEntries + 1 THEN s ELSE SubSeq(s, Len(s) - MaxEntries, Len(s))

(* The most recent tail that fits in memory. *)
Retained(s) == IF Len(s) <= MaxEntries THEN s ELSE SubSeq(s, Len(s) - MaxEntries + 1, Len(s))

(* persist(): the record is in memory at once, its line is only chained. *)
Push(r) ==
  /\ memory' = Retained(Append(memory, r))
  /\ queue' = Append(queue, r)
  /\ UNCHANGED <<file, partial>>

(* The append of the oldest chained record succeeds.  After a partial line  *)
(* its own line is the rest of a corrupt one.                               *)
Lands ==
  /\ queue # << >>
  /\ queue' = Tail(queue)
  /\ file' = IF partial THEN file ELSE Append(file, Head(queue))
  /\ partial' = FALSE
  /\ UNCHANGED memory

(* mkdir() or appendFile() rejects, before writing or half-way; the catch   *)
(* drops the line and lets the chain go on.                                 *)
Fails(leftPartial) ==
  /\ queue # << >>
  /\ queue' = Tail(queue)
  /\ partial' = (partial \/ leftPartial)
  /\ UNCHANGED <<memory, file>>

(* Mutant: the load keeps the oldest records. *)
RestartFromOldest(leftPartial, readable) ==
  /\ leftPartial => queue # << >>
  /\ queue' = << >>
  /\ partial' = (partial \/ leftPartial)
  /\ memory' = IF Len(file) <= MaxEntries THEN file ELSE SubSeq(file, 1, MaxEntries)
  /\ UNCHANGED file

(* The process dies and another one loads the file: what was chained is     *)
(* gone, perhaps half-written.  An unreadable file counts as an empty one.  *)
Restart(leftPartial, readable) ==
  /\ leftPartial => queue # << >>
  /\ queue' = << >>
  /\ partial' = (partial \/ leftPartial)
  /\ memory' = IF readable THEN Retained(file) ELSE << >>
  /\ UNCHANGED file
================================================================================
