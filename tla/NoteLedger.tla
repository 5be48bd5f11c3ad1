------------------------------- MODULE NoteLedger -------------------------------
(***************************************************************************)
(* What supreme-memory-policy puts into a prompt: notes of its ledger, the *)
(* configured project knowledge and the items of a long-term provider.     *)
(* The ledger is a FailOpenLog of notes that are validated when appended   *)
(* and again when reloaded.  select() takes the confident notes in order   *)
(* of relevance, adds the other items, leaves out what bears a secret, and *)
(* fills the budget.                                                       *)
(*                                                                         *)
(* A text is the set of its words, Secret one of them; confidence is in    *)
(* hundredths.  Items are named by where they come from and their id.  A   *)
(* priority or a confidence may be NaN, which no check of a range refuses. *)
(***************************************************************************)
EXTENDS FailOpenLog, FiniteSets

CONSTANTS
  Note,            \* what callers try to append, well-formed or not
  Knowledge,       \* the configured project items
  Provider,        \* long-term providers a host may register
  ItemsOf,         \* the items each provider lists for any task
  Noop,            \* the provider there is before any registers
  Secret,          \* a word that makes a text credential-bearing
  TokensOf,        \* estimateTokens of a set of words
  Task, Budget,    \* the tasks, and the budgets, memory is selected for
  NotANumber,      \* NaN
  MinConfidence, MaxInjected, RelevanceRanking,
  MaxAppends       \* bound on the appends of a behaviour

ASSUME LedgerAssumption ==
  /\ Budget \subseteq Nat /\ MinConfidence \in 0..100 /\ MaxInjected \in Nat \ {0}
  /\ RelevanceRanking \in BOOLEAN /\ MaxAppends \in Nat
  /\ Noop \notin Provider /\ NotANumber \notin Int

(* A sequence of items whose size is a number. *)
IsItemList(list) ==
  /\ list \in Seq({list[i] : i \in DOMAIN list})
  /\ \A i \in DOMAIN list : list[i].tokens \in Nat /\ list[i].priority \in Int \cup {NotANumber}

(* Ids and times stand for their order; what is not a number of tokens does *)
(* not come from a provider.                                                *)
ASSUME ItemAssumption ==
  /\ \A note \in Note : /\ IsFiniteSet(note.words)
                        /\ note.id \in Int /\ note.createdAt \in Int
                        /\ TokensOf[note.words] \in Nat
  /\ IsItemList(Knowledge)
  /\ \A provider \in Provider : IsItemList(ItemsOf[provider])

VARIABLES
  longTerm,        \* the registered provider
  rejected,        \* appends refused
  appends

notes == <<log, longTerm, rejected, appends>>

MemoryClass == {"PROJECT_CONTEXT", "TASK_RELEVANT", "LONG_TERM"}

-------------------------------------------------------------------------------
(* The ledger.                                                              *)

IsSecretBearing(words) == Secret \in words

(* validateLedgerNote: NaN is neither below a range nor above it. *)
Admitted == 0..100 \cup {NotANumber}

WellFormed(note) ==
  /\ note.words # {} /\ note.priority \in Admitted /\ note.confidence \in Admitted
  /\ ~IsSecretBearing(note.words)

LedgerInit == LogInit /\ longTerm = Noop /\ rejected = 0 /\ appends = 0

AppendNote(note) ==
  /\ appends < MaxAppends /\ appends' = appends + 1
  /\ IF WellFormed(note) THEN Push(note) /\ UNCHANGED rejected
     ELSE rejected' = rejected + 1 /\ UNCHANGED log
  /\ UNCHANGED longTerm

(* JSON knows no NaN: the line has null for it, and a reload refuses it.    *)
Reloads(note) == NotANumber \notin {note.priority, note.confidence}

NoteLands ==
  /\ queue # << >>
  /\ IF Reloads(Head(queue)) THEN Lands
     ELSE queue' = Tail(queue) /\ partial' = FALSE /\ UNCHANGED <<memory, file>>
  /\ UNCHANGED <<longTerm, rejected, appends>>

NoteFails == \E leftPartial \in BOOLEAN : Fails(leftPartial) /\ UNCHANGED <<longTerm, rejected, appends>>

(* A new process loads the ledger; providers register anew. *)
Reload ==
  /\ \E leftPartial, readable \in BOOLEAN : Restart(leftPartial, readable)
  /\ longTerm' = Noop /\ rejected' = 0 /\ UNCHANGED appends

-------------------------------------------------------------------------------
(* The long-term provider.  Any disposer puts back the one that does        *)
(* nothing, whoever has registered since.                                   *)

RegisterLongTerm(provider) ==
  /\ longTerm' = provider /\ UNCHANGED <<log, rejected, appends>>

DisposeLongTerm ==
  /\ longTerm' = Noop /\ UNCHANGED <<log, rejected, appends>>

LongTermItems == IF longTerm = Noop THEN << >> ELSE ItemsOf[longTerm]

-------------------------------------------------------------------------------
(* Selection.                                                               *)

(* What a stable sort may make of the places: each of them once, and no two *)
(* that are neighbours against the relation.  It is one order only if the   *)
(* relation is transitive.                                                  *)
Sortings(places, before) ==
  {order \in [1..Cardinality(places) -> places] :
     /\ \A i \in places : \E n \in DOMAIN order : order[n] = i
     /\ \A n \in DOMAIN order : n > 1 => <<order[n-1], order[n]>> \in before}

LedgerRelevance(note, task) == Cardinality(note.words \cap task)

(* The difference of two priorities is 0, or NaN, and decides nothing. *)
Level(a, b) == a.priority = b.priority \/ NotANumber \in {a.priority, b.priority}

MoreUrgent(a, b) ==
  \/ ~Level(a, b) /\ a.priority > b.priority
  \/ Level(a, b) /\ a.createdAt > b.createdAt
  \/ Level(a, b) /\ a.createdAt = b.createdAt /\ a.id < b.id

NoteAhead(a, b, task) ==
  LET x == LedgerRelevance(a, task)
      y == LedgerRelevance(b, task)
  IN  IF RelevanceRanking /\ x # y THEN x > y ELSE MoreUrgent(a, b)

(* Of notes that are alike the earlier one comes first. *)
NoteOrder(list, task) ==
  {p \in (DOMAIN list) \X (DOMAIN list) :
     \/ NoteAhead(list[p[1]], list[p[2]], task)
     \/ ~NoteAhead(list[p[2]], list[p[1]], task) /\ p[1] < p[2]}

Capped(list) == SubSeq(list, 1, IF Len(list) < MaxInjected THEN Len(list) ELSE MaxInjected)

Confident(note) == note.confidence # NotANumber /\ note.confidence >= MinConfidence

(* Mutant: the best notes are taken, and the doubtful ones left out then. *)
SelectLedgerNotesCapFirst(list, task) ==
  {SelectSeq(Capped([n \in DOMAIN order |-> list[order[n]]]), Confident) :
     order \in Sortings(DOMAIN list, NoteOrder(list, task))}

SelectLedgerNotes(list, task) ==
  LET confident == {i \in DOMAIN list : Confident(list[i])}
  IN  {Capped([n \in DOMAIN order |-> list[order[n]]]) :
         order \in Sortings(confident, NoteOrder(list, task))}

LedgerItem(note) ==
  [id |-> <<"ledger", note.id>>, class |-> "TASK_RELEVANT", words |-> note.words,
   tokens |-> TokensOf[note.words], priority |-> note.priority]

(* All that may be shown, once the notes are chosen. *)
Items(chosen) ==
  Knowledge \o [i \in DOMAIN chosen |-> LedgerItem(chosen[i])] \o LongTermItems

(* An item that shares its id with an excluded one is left out with it. *)
Excluded(items, budget) ==
  {items[i].id : i \in {j \in DOMAIN items :
     \/ IsSecretBearing(items[j].words)
     \/ /\ items[j].tokens > budget
        /\ items[j].priority # NotANumber /\ items[j].priority < 50}}

Eligible(items, budget) == {i \in DOMAIN items : items[i].id \notin Excluded(items, budget)}

(* By priority, then by size, then as they were listed. *)
MemoryOrder(items) ==
  {p \in (DOMAIN items) \X (DOMAIN items) :
     LET x == items[p[1]]
         y == items[p[2]]
     IN  \/ ~Level(x, y) /\ x.priority > y.priority
         \/ Level(x, y) /\ x.tokens < y.tokens
         \/ Level(x, y) /\ x.tokens = y.tokens /\ p[1] < p[2]}

(* What the first of the items take of the budget; smaller ones may still   *)
(* follow one that did not fit.                                             *)
Filling(items, order, budget) ==
  LET fill[n \in 0..Len(order)] ==
        IF n = 0 THEN [used |-> 0, list |-> << >>]
        ELSE LET so == fill[n-1]
                 m == items[order[n]]
             IN  IF so.used + m.tokens <= budget
                 THEN [used |-> so.used + m.tokens, list |-> Append(so.list, m)]
                 ELSE so
  IN  fill

SelectMemory(items, budget) ==
  {Filling(items, order, budget)[Len(order)] :
     order \in Sortings(Eligible(items, budget), MemoryOrder(items))}

(* select(): an empty task needs no memory. *)
Select(task, chosen, budget) ==
  IF task = {} THEN {[used |-> 0, list |-> << >>]} ELSE SelectMemory(Items(chosen), budget)

LedgerNext ==
  \/ \E note \in Note : AppendNote(note)
  \/ NoteLands
  \/ NoteFails
  \/ Reload
  \/ \E provider \in Provider : RegisterLongTerm(provider)
  \/ DisposeLongTerm

LedgerSpec == LedgerInit /\ [][LedgerNext]_notes

-------------------------------------------------------------------------------
(* Properties.                                                              *)

Adding(list) ==
  LET sum[n \in 0..Len(list)] == IF n = 0 THEN 0 ELSE sum[n-1] + list[n].tokens
  IN  sum

Fits(list, budget) == Adding(list)[Len(list)] <= budget

(* What a task is shown.  Nothing in it bears a secret, wherever it came    *)
(* from, and it is within the budget.  The ledger's part is of confident    *)
(* notes memory holds, as many as the cap lets in; if all of them have a    *)
(* priority, none is behind a more relevant one that was left out.  No      *)
(* eligible item is left out that would still fit.                          *)
PromptsAreAdmissible ==
  \A task \in Task \ {{}} : \A chosen \in SelectLedgerNotes(memory, task) :
    LET confident == {i \in DOMAIN memory : Confident(memory[i])}
        items == Items(chosen)
    IN  /\ \A i \in DOMAIN chosen :
             Confident(chosen[i]) /\ chosen[i] \in {memory[j] : j \in DOMAIN memory}
        /\ Len(chosen) >= MaxInjected \/ Len(chosen) = Cardinality(confident)
        /\ (\A j \in confident : memory[j].priority # NotANumber) =>
             \A j \in confident : \A i \in DOMAIN chosen :
               memory[j] \in {chosen[k] : k \in DOMAIN chosen}
                 \/ ~NoteAhead(memory[j], chosen[i], task)
        /\ \A budget \in Budget : \A selection \in Select(task, chosen, budget) :
             LET shown == selection.list
                 listed == {shown[i] : i \in DOMAIN shown}
             IN  /\ \A m \in listed : ~IsSecretBearing(m.words)
                 /\ Fits(shown, budget)
                 /\ \A i \in DOMAIN items :
                      items[i] \in listed
                        \/ items[i].id \in Excluded(items, budget)
                        \/ ~Fits(Append(shown, items[i]), budget)
===============================================================================
