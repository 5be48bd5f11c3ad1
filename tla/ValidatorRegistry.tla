-------------------------- MODULE ValidatorRegistry --------------------------
(***************************************************************************)
(* The validator registry of supreme-verifier: a Map from validator ids to *)
(* specs, the disposers register() returns, and runAll(), which walks the  *)
(* live Map and awaits a validator at every entry.                         *)
(***************************************************************************)
EXTENDS BoundedMap, FiniteSetsExt

CONSTANTS Specs,               \* validators a host may register
          IdOf(_),             \* spec -> its validatorId; several specs may share one
          MaxRegistrations     \* bound on register() calls

ASSUME RegistryAssumption == MaxRegistrations \in Nat

VARIABLES registry,   \* live entries in insertion order, by registration number
          spec,       \* spec[n]: what registration n registered
          uses,       \* uses[n]: how often the disposer of registration n was called
          sweep       \* the runAll() call under way

registryVars == <<registry, spec, uses, sweep>>

Issued == 1..Len(spec)
IdAt(n) == IdOf(spec[n])
Live == ToSet(registry)
LiveIds == {IdAt(n) : n \in Live}
Holding(id) == {n \in Live : IdAt(n) = id}
Idle == [on |-> FALSE, at |-> 0, ran |-> <<>>, kept |-> {}]

RegistryTypeOK ==
  /\ spec \in Seq(Specs) /\ Len(spec) <= MaxRegistrations
  /\ registry \in Seq(Issued)
  /\ uses \in [Issued -> 0..2]
  /\ sweep \in [on : BOOLEAN, at : 0..Len(spec), ran : Seq(Issued), kept : SUBSET Issued]

RegistryInit ==
  /\ registry = <<>> /\ spec = <<>> /\ uses = <<>>
  /\ sweep = Idle

RegisterUnchecked(s) ==                \* the duplicate check forgotten
  /\ Len(spec) < MaxRegistrations
  /\ spec' = Append(spec, s)
  /\ registry' = Append(DeleteAll(registry, Holding(IdOf(s))), Len(spec) + 1)
  /\ uses' = Append(uses, 0)
  /\ UNCHANGED sweep

\* register(): a duplicate id throws, before anything changes.
Register(s) ==
  /\ Len(spec) < MaxRegistrations
  /\ IdOf(s) \notin LiveIds
  /\ spec' = Append(spec, s)
  /\ registry' = Append(registry, Len(spec) + 1)
  /\ uses' = Append(uses, 0)
  /\ UNCHANGED sweep

\* The disposer deletes by id: the entry of whoever holds the id now.  At
\* most the second call of one disposer is of interest.
Dispose(n) ==
  /\ uses[n] < 2
  /\ registry' = DeleteAll(registry, Holding(IdAt(n)))
  /\ uses' = [uses EXCEPT ![n] = @ + 1]
  /\ sweep' = [sweep EXCEPT !.kept = @ \ Holding(IdAt(n))]
  /\ UNCHANGED spec

\* runAll(): the iterator of a Map visits, in insertion order, every entry
\* that is there when it gets to it: those added on the way are visited,
\* those deleted are not.  (An entry added later has a higher number.)
SweepBegin ==
  /\ ~sweep.on /\ sweep.ran = <<>>
  /\ sweep' = [on |-> TRUE, at |-> 0, ran |-> <<>>, kept |-> Live]
  /\ UNCHANGED <<registry, spec, uses>>

SweepNextByIndex ==                    \* an index into a list that may shrink
  /\ sweep.on
  /\ sweep' = IF Len(sweep.ran) + 1 > Len(registry)
              THEN [sweep EXCEPT !.on = FALSE]
              ELSE [sweep EXCEPT !.at = registry[Len(sweep.ran) + 1],
                                 !.ran = Append(@, registry[Len(sweep.ran) + 1])]
  /\ UNCHANGED <<registry, spec, uses>>

SweepNext ==
  /\ sweep.on
  /\ LET ahead == {i \in DOMAIN registry : registry[i] > sweep.at}
         next == registry[Min(ahead)]
     IN  sweep' = IF ahead = {}
                  THEN [sweep EXCEPT !.on = FALSE]
                  ELSE [sweep EXCEPT !.at = next, !.ran = Append(@, next)]
  /\ UNCHANGED <<registry, spec, uses>>

RegistryNext ==
  \/ \E s \in Specs : Register(s)
  \/ \E n \in Issued : Dispose(n)
  \/ SweepBegin
  \/ SweepNext
-----------------------------------------------------------------------------
\* While no disposer was called twice, exactly the registrations whose
\* disposer was not called are live, each under an id of its own: a disposer
\* that deletes by id then only ever deletes its own registration.
DisposersAreOwn ==
  (\A n \in Issued : uses[n] <= 1) =>
     /\ Live = {n \in Issued : uses[n] = 0}
     /\ Cardinality(LiveIds) = Len(registry)

\* When runAll() is done, every validator that was registered all the while
\* ran exactly once, and they ran in the order of their registration, however
\* the registry changed between two awaits.
SweepCoversStable ==
  (~sweep.on /\ sweep.ran # <<>>) =>
     /\ \A n \in sweep.kept : Cardinality({i \in DOMAIN sweep.ran : sweep.ran[i] = n}) = 1
     /\ \A i, j \in DOMAIN sweep.ran : i < j => sweep.ran[i] < sweep.ran[j]
=============================================================================
