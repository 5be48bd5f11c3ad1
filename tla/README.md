# TLA+ models of dsh-supreme

dsh-supreme is a set of plugins for an agent host (DSH, on the Cordis plugin
kernel): a router that picks a free model for each request, policies that gate
tools, costs, workflows and memory, a verifier, a benchmark store and a
telemetry writer. Everything runs in one JavaScript process. A handler runs
without interruption up to its next `await`; between awaits any other handler,
of this plugin or another, may run, and the process may die. What the models
are about is therefore not data races but the order of whole handler segments,
state read before an await and used after it, bounded maps that forget, reports
that arrive late, stores that drop what they cannot write, and rules written
twice that must agree.

Paths below are relative to `src/src/plugins/` of the repository unless they
start with `src/`.

## 1. Inventory

| component | state | operations | hard behaviours |
|---|---|---|---|
| **supreme-router**, breakers (`supreme-router/engine.ts`, `index.ts`) | failure lists and cooldowns per route; outcome entries per route and per provider bucket in a bounded map; escalation set | `recordOutcome`, `reportVerifierOutcome`, `agent/request-error`, `acquireProbe`, the health gate, effort pacing | late and reordered reports, eviction of open entries, boundaries of window and cooldown, one probe per episode |
| **supreme-router**, dispatch | decisions, retry ledger, free claims | `route()`, `registerAttempt`, `agent/request` and `llm/stream` gates, fallback plans | clock read before awaits, concurrent hosts, substituted routes, stale plans |
| **supreme-router**, scoring | class samples, rebuilt per decision | `selectRoute`, `ClassPerformanceTracker`, `planCrossProviderFallbacks` | the order of samples, gates and cost classes; records of other components |
| **supreme-policy** | frozen config; deny signatures per session; last reasoning trace per session | `evaluateRoutePolicy`, the `tools/pre-execute` pipeline, taint scans, resets | concurrent calls of one shape, bounded memories, bounded scans, order of the gates |
| **supreme-workflow-policy** | frozen limits | `decide`, path scopes, `canCloseTask`, contacts, overreach | check-then-act on the caller's counts, evidence of another task, many ways to name a recipient |
| **supreme-memory-policy**, selection store | LRU map of selections, LRU map of active tasks | `select`, `lookup`, releases, the prompt section, `session/disposed` | two bounds that evict apart, stale or foreign selections in a prompt |
| **supreme-memory-policy**, note ledger | newest notes, append chain, long-term provider | `ledgerAppend`, `ledgerSelect`, `selectMemory` | dropped writes, reload, budgets |
| **supreme-benchmark**, runs and scores | runs, scores, append chain | `startRun`, `finishRun`, `recordScore`, history, aggregates, class samples | record written before it changes, overlapping calls, restart |
| **supreme-benchmark**, checkpoints | newest checkpoints, append chain | `checkpoint`, `resumeCheckpoint` | dropped and half-written lines, crashes, eviction, ties of the clock, artifacts that changed |
| **supreme-verifier** | validators by id | `register`, `run`, `runAll`, `runAndRecord`, `hashArtifact`, the JSON Schema subset | the artifact changes between run and hash; id reuse; limits met inside a branch |
| **supreme-observability** | write queue, statistics | event handlers, audits, rotation, `recent`, `dispose` | failed rotation, torn lines, drain at dispose |
| **cordis-mini kernel** (`src/src/harness/cordis-mini`) | services, disposal callbacks | `boot`, `provide`, `dispose` | order of boot, half-applied plugins, overlapping calls |
| **setup command** (`src/real/supreme.mjs`) | upstream checkout, bundle, profile directory | `setup`, `doctor` | a run killed or failed at any step, a user's edits, repeated runs |
| fixtures, suite, real-host drivers, bundles, YAML and data | | | not part of the program's logic |

How they meet: the router asks supreme-policy for every route and reads the
benchmark store's samples; hosts report outcomes and verdicts back to the
router; the close gate of the workflow policy consumes the verifier's evidence;
all of them record through supreme-observability when it is there. Services are
found by name on the kernel and frozen; the handlers sit on the host's
waterfall events (`agent/request`, `llm/stream`, `agent/request-error`,
`tools/pre-execute`) and emit events (`session/event`, `session/disposed`).

What makes each part correct:

- breakers: the incremental state is what the sequence of reports calls for;
  a circuit blocks for at most one cooldown; its probe is out at most once per
  episode; a bucket's failures stay the bucket's.
- dispatch: no decision through an open circuit, no stream to a route the
  policy refuses, retries within their budget.
- scoring: the choice follows from the gates, the cost order and the record;
  an outcome counts at once while the tracker has room for it.
- selection store: a prompt shows its own session's last selection or nothing.
- note ledger: nothing secret and nothing over budget in a prompt, and nothing
  left out without a reason.
- checkpoints: a step whose completion was recorded is not run again.
- benchmark store: what was written is read back, and a claim counts as
  verified exactly when a verifier passed its run.
- tool gate: a denied call shape stays denied within the bounds; every denial
  is remembered; a stricter configuration permits no more.
- workflow policy: load never widens a fan-out; concurrent callers exceed a
  limit by a bounded number; only declared contacts are made.
- evidence and close gate: a high-risk task closes only on a PASS for the
  bytes it was given for; both copies of the check agree, up to the fields that
  only one of them reads.
- schema validator: nothing is ignored, and the verdict is conformance unless a
  limit ended it; then it is a failure, but for a limit met in a branch.
- JSONL writer: order, rotation bounds, drain at dispose.
- kernel: no plugin before what it injects; disposal in reverse order.
- setup: READY means ready, and a repeated run changes nothing.

## 2. Modules

```
RouteKeys   BoundedMap                 FailOpenLog            LatestSelection
    \        /    \    \                |        \                  :
  CircuitBreaker   \   SelectionStore ..|.. implements .............:
  OutcomeCircuitBreaker   |    |      Checkpoints   NoteLedger
         \        /       |    |        |      \          \
       RouterCircuits     |  MCCircuits |  MCCheckpoints    \
        /     |       SelectionStore-   CheckpointsProofs    \
 CircuitLog   |           Proofs                              \
   |   \   RouterDispatch                                      \
   |    \    /     |     \                                      \
   |  RouterProofs |      MCHalfOpen                             \
 MCCircuits     MCDispatch                                        \
                                                                   |
BenchmarkRuns --- OutcomeRouting (and RouteScoring) --------- MCEvidence
     |   AuditTrail --------------------------------------------/
 StoresProofs

BoundedMap -- ValidatorRegistry   CloseGate       ValidatorRules
     |                     \       /                     /
     |                   EvidenceClose ------ MCClose ---/
     |                         |
     |                 EvidenceCloseProofs
     |
     +-- ToolGate ---------------------------------- MCAgents (below)
              \
               \   WorkflowDecision  ContactRules    CordisKernel  ProfileSetup
                \         \          /                |      \       /     |
                 \        Delegation ------------------|--- MCAgents ------|--- Overreach,
                  \         |                           \                /      TaintScan,
                  PolicyProofs                           ProfileProofs         PolicyRules
```

All proof modules but `CheckpointsProofs`, `StoresProofs` and `ProfileProofs`
use `BoundedMapProofs`, and `PolicyProofs` instantiates `PolicyRules`; neither is
drawn.

| module | models |
|---|---|
| `RouteKeys` | routes (provider, model) and the provider bucket `provider::*`, which is a key no route has |
| `BoundedMap` | a JavaScript `Map` or `Set` with a size check: the sequence of its keys, oldest first |
| `CircuitBreaker` | the per-route breaker over a sliding window of failures (`engine.ts` `class CircuitBreaker`) |
| `OutcomeCircuitBreaker` | the outcome breaker: consecutive failures, cooldown, probe slot, bounded map (`class OutcomeCircuitBreaker`) |
| `RouterCircuits` | the calls that feed both, effort escalation and pacing (`index.ts`) |
| `CircuitLog` | the same calls with a log of the reports, and the breakers read off that log |
| `RouterDispatch` | hosts that call `route()`, register attempts, cross the allowlist and the cost gates, stream, report and fall back |
| `MCHalfOpen` | (in a run of its own) which half-open circuits each dispatch in flight went through |
| `RouteScoring` | `selectRoute`: eight hard gates, cost classes, class statistics with their decay, score and order, free claims, fallback plans, the fast path |
| `OutcomeRouting` | `route()` before and after its awaits, deciding on what the benchmark store holds, and the store going on in between |
| `BenchmarkRuns` | runs and scores, the append chain, replay, history, aggregates and class samples (`supreme-benchmark`) |
| `SelectionStore` | the selection store with its two LRU maps and the prompt section (`supreme-memory-policy`) |
| `LatestSelection` | what it promises a prompt; `SelectionStore` implements it |
| `NoteLedger` | notes from append to prompt, project knowledge, the long-term provider and its disposers |
| `ToolGate` | the `tools/pre-execute` pipeline of supreme-policy as a protocol: the memory of denied shapes and the map of reasoning traces |
| `PolicyRules` | what the same plugin decides: configuration, route policy, capability, taint and CoT gates, audits; what stricter means |
| `TaintScan` | the bounded walks of a call's arguments: the taint scans and the signature a denied call is remembered under |
| `FailOpenLog` | the append-only JSONL store: memory tail, append chain, file, half-written line, reload |
| `Checkpoints` | recovery checkpoints with artifact digests, and a host that resumes by them (`supreme-benchmark`) |
| `WorkflowDecision` | `decideWorkflow`: denials, baseline, orchestration, the ladder |
| `ContactRules` | which tool calls are communication, whom they contact, and the listener that refuses them |
| `Overreach` | the overreach audit of a delegation: globs and path scopes, risk of tool names, approvals |
| `Delegation` | hosts that call `decide()` and start agents |
| `CloseGate` | evidence records and the two gates that read them |
| `EvidenceClose` | validators run on files that others rewrite, replace or relink, records, and tasks that close |
| `ValidatorRegistry` | validators by id, disposers, `runAll()` over the live map |
| `ValidatorRules` | the compile pass and the validation of the schema subset, with their limits; `runValidator()` for the types that read no file |
| `AuditTrail` | event handlers, the field allowlist and the JSONL writer (`supreme-observability`) |
| `CordisKernel` | boot and disposal of plugins |
| `ProfileSetup` | `supreme.mjs setup` and `doctor` |

An action is one uninterrupted segment of a handler. `route()` is two. In
`RouterDispatch` `RouteBegin` reads the clock and `RouteDecide` runs after the
awaits. In `OutcomeRouting` `AskRoute` reads the clock, the list of providers
and the aggregates of the store, and `Decide` the class samples and the
circuits, so that a decision may rest on two states of the store. A handler that fires after `next()` (`agent/request-error`) is the
action that follows the rest of the chain. The service calls of one report are
one action. The append of a record is separate from the call that pushed it,
because it runs later, on the promise chain; a call that goes on after its
append (`recordScore`) has an action for its rest. A read of a file is four
actions, because each of realpath, stat, open and read is awaited. `setup` has
one action per numbered step, and each may be the one it dies in.

A component whose decisions are large is split in two: a protocol module that
leaves the decision open (`RouterDispatch`, `ToolGate`) and a module of rules
that computes it (`RouteScoring`, `PolicyRules`). What is proved of the
protocol then holds whatever the rules decide.

The agent id of a tool call is taken for the session id, as the plugin does
when it looks up one map with the other's key.

What is left to choice: in the protocol modules what the rules compute; what
the rest of a waterfall decides or substitutes; how each append, file
operation, build and apply() ends; when files change, agents end and users edit. Ids are
model values. Session ids are the exception: the service calls trim them and
the prompt section does not, so `SelectionStore` has a function from ids to
their trimmed form, and sessions written with blanks or made of nothing else.
A sort is any listing in which no two neighbours are against the comparator
(`Rankings`, `Sortings`): one order where the comparison is transitive, and
several where a number is NaN. Every insertion or merge leaves such a listing.

Strings that rules look into are what the rules see of them: the tokens of a
tool name, the words of a note, the keywords of a schema, the runs and classes
of an argument's characters.

Mutants: a definition whose comment starts with `Mutant:` is not part of any
specification. It is a plausible slip in the definition that follows it,
and substituting it makes a run fail (see `PROJECT.json`).

## 3. Runs

| run | question | instance |
|---|---|---|
| `circuits` | Do the breakers' counters, lists, cooldowns, probe slots and escalations stay what the reports so far call for? Does a prompt ever show another session's, a released or a superseded selection, and is what is forgotten always the least recently used? | 2 providers, 1 model, 5 reports on a clock of 3, thresholds 2, a map that holds 3 of 4 keys; 3 sessions of 2 tasks, a padded and a blank session id, capacity 2 for both maps; 1.6 million states |
| `dispatch` | Do two hosts, with clocks gone stale, decide through an open circuit, stream a refused route, or exceed a retry budget? | 2 hosts on a task each, 3 providers (one no candidate lists), thresholds 1, a ledger of one task; 1.2 million states |
| `halfopen` | Does "the next dispatch IS the single probe" hold of every half-open circuit? It does not: see section 6 | 2 hosts that take the probe slot as documented, 1 provider, 2 models |
| `checkpoints` | Is a step whose completion was kept ever run again? Is memory the tail of the file while nothing fails? Is every call answered? | 2 steps, 5 records, 2 retained, one failed append, 2 crashes, half-written lines, unreadable files, an artifact that changes once |
| `checkpoint_repeat` | Is a step never repeated once its completion was answered? It may be: see section 6 | the same, 1 crash |
| `known_absence` | Does the CoT gate fail closed for a known absence, whatever other sessions do? It does not: see section 6 | the tool gate of `agents`, one session's trace remembered |
| `close` | Does a task close on bytes nobody verified? Do the two gates agree? Does a sweep miss a validator, a disposer remove another's? Is a schema ever read in part, or a verdict not conformance? | 4 validators of which 2 share an id, 1 host, 3 contents (one too large to read), 2 inodes, 2 writes; and a single validation of each sample against each schema |
| `schema_limits` | Does a limit of the subject ever end in a PASS? It may: see section 6 | the same |
| `agents` | How far do concurrent hosts exceed the limits of agents? Are the rules of delegation, contact, audit and policy monotone, exact and complete? Does the kernel boot and unwind in order? Is READY stable? Does a call repeat a denied shape and pass, or an enforced route pass without reasoning, while the memories suffice? | 2 hosts, 8 agents, two sets of limits; 3 profiles of 3 plugins; 4 setup runs; 3 sessions of which 2 fit either memory of the gate, 3 shapes of which 2 fit a session, a call that waits downstream while others come and go; and a single judgement of each sample; 1.5 million states |
| `evidence` | Is what was written read back, and is what counts as verified verified? Do decisions follow the record, though the store goes on while the host answers? Does an outcome move its score? Is the audit trail in order? Are prompts admissible? | 3 runs of 2 routes, 3 calls on an empty store and 2 on a store of finished runs; for decisions 4 runs, 3 of them of one route, and 1 call, samples of 2 a class; 7 notes, 3 retained, 4 appends; 3 events in each of 2 processes, 2 lines to a file; 2.1 million states |
| `class_samples` | Does the tracker drop its oldest sample first? It does not: see section 6 | an empty store and four calls, a tracker of one sample |
| `durable` | Is the router told of a route after a restart what it was told before, if no line was lost? It is not: see section 6 | an empty store and four calls |

**Scenes.** `agents`, `circuits` and `evidence` (with the runs on the same modules) each check
several components that share no state, and `evidence` one component in two ways. A variable `scene` says which of them a behaviour is about; the others
rest in one of their initial states. Putting them into one run only saves
work, and claims nothing about their interaction. Where a component is a rule
without state (schemas, contacts, overreach, taint, policies, signatures), a
behaviour is a *trial*: an initial state picks one sample from a set of
inputs, and one step puts it to the rule. The properties then compare the outcome with
a definition written another way (`Conforms`, `Understood` in `ValidatorRules`),
or with the outcome of a related sample (more load, a stricter configuration,
other arguments).

**Bounds**, and why they suffice. The windowed breaker needs two failures inside and
one outside a window and a cooldown that ends while the clock still runs: a
clock of 3 with a window of 1 and thresholds of 2 has them, at the boundary
instants too. The outcome breaker needs two episodes of one key with other
keys in between, and an eviction: five reports and three of four keys. Dispatch
needs a host whose clock is older than another's failure, a half-open circuit,
a substituted route and an evicted task: two hosts, three instants, a ledger of
one. The selection store needs more identities than capacity, and a session
that loses its pointer but not its entry: three sessions and capacity 2, with
four identities in the history of uses (`MCUsed`). The
checkpoints need a tie and a difference of timestamps, fewer retained records
than one orderly run of two steps writes, and two crashes so that a reload of
a reload occurs. The tool gate needs one session and one shape more than fit, and a
call whose denial arrives after others were recorded and reset; the rest of the
calls are denied or pass between its two steps. Its history is cut at five of
denials and of sessions that spoke, together (`MCHistory`): enough for a session
with one shape too many beside two more sessions, or for three sessions that
spoke and two that were denied. The code's lower limits of these capacities (16 checkpoints, 8
selections, 256 sessions and 64 shapes) are scaled down with the number of keys.

The close gate needs a write between a verdict and its hash and one between
the hash and the close: two writes, one record. The sweep needs a validator
that goes, one that comes and one that stays: three registrations; the
constraint `Regimes` explores registry and files apart, since neither reads
the other's state within these bounds. The schema limits are scaled to 9 nodes,
2 levels, 4 scans and 3 hops, so that each of them is met by some sample,
within a branch and outside. Delegation needs a host whose counts are old when
it decides, on each side of both limits: two hosts, and totals of 3 and 4. The
kernel needs a chain of dependencies, a service provided twice and a name
listed twice, and calls that overlap: two boots and two disposals, three calls
in all. Setup needs a run killed at each step, a repair, an edit and a repeat:
four runs. The benchmark store needs overlapping finish and score, a torn line
and a restart: three calls. A decision needs a store that changes between the
two halves of the call, and one run more than the tracker keeps: one call on
four runs, with a tracker of two. It is made on runs with any outcome, backed and
unbacked claims and one that is NaN, and the health, the catalogue and the
credentials of each route varied; hosts other than a healthy one are asked only
on the store as it was found. The notes need more of them than are retained and
one that has no priority: four appends and three retained. The trail needs a
full file, a failed check, rename and append, a line of more bytes than
characters, and a reboot.

Every run bounds the number of reports, calls, records or writes and stops when
that is reached, and so none checks for deadlock; the selection store and the
tool gate, which never stop, share a run with others that do. `circuits`,
`dispatch` and `agents` use symmetry, of values that the specification treats
alike; none of them checks liveness.

**Fairness.** Only `checkpoints` needs any: `WF(Settles)` says that the append
chain keeps running and that a file operation ends, with success or not. A
promise chain does that as long as the process lives, and a crash answers the
question by ending the call. Hosts, clocks and failures are never assumed to
make progress.

## 4. Properties

- `CircuitsSound` (breakers): types; maps bounded and without duplicates; a
  forgotten key behaves as one that never failed; open exactly while the streak
  has reached the threshold; a probe slot out only while half-open; nothing
  blocked for more than one cooldown.
- `OutcomeBreakerMatchesLog`, `WindowBreakerMatchesLog`: the incremental state
  of each breaker equals what its definition gives on the log of reports,
  evictions included. `OneProbePerEpisode`, `EscalatedOnFailOnly` relate two
  moments of that log; the second also says that a raised effort is one level
  above its base and stays within the pacing, whatever the cost class.
- `DispatchSound`, `NoDecisionThroughOpenCircuit`, `NoDisallowedStream`,
  `RetryBound` (dispatch): as their names say, at the moment of the decision,
  at every stream, and for every task with one more budget per eviction.
- `StoreInv`, `LeastRecentlyUsedGoesFirst`, `ShowsLatestOrNothing` (selections):
  the last is `LatestSelection` under the refinement mapping that combines the
  two maps into one "latest selection" per session; it fails if an eviction or
  a release ever lets an older selection come back.
- `CompletedNeverAnAction`, `MemoryIsTheTail`, `CallsAreAnswered`
  (checkpoints). The first excepts, by name, the steps whose line the store
  lost, those that a plan did not report because all their records were
  evicted or unreadable, which the host then begins anew, and those whose
  artifact changed after completion, which the plan redoes on purpose.
- `GateSound`, `DeniedStaysDenied`, `NoRetryPasses`, `PassesNeedReasoning`
  (tool gate). Denials are counted where a call ends, not where the guard
  records them, so that a gate that forgot to record one would be noticed. The
  bounds under which a denial is remembered are the honest ones: the guard
  evicts in order of the first denial and does not refresh on a later one, so
  that a shape may be forgotten right after it was denied again.
- `ClosedOnVerifiedBytes`: a close that cites a record is a close on bytes the
  record's validator passes, wherever the identities pin the bytes down. A path
  hashed after the run without a revision does not, and is excepted by name
  (`Pinned`). `GatesAgree`: the verifier's and the close gate's copies of the
  check decide alike on every record `recordEvidence` can build, on every such
  record damaged on the way, and for every identity, unless the damage is in one
  of the three fields that the two do not judge alike (section 6).
- `DisposersAreOwn`, `SweepCoversStable` (registry): over registrations,
  disposals and a sweep that awaits at every entry.
- `VerdictIsConformance`, `NothingIgnored` (schemas): see the comments in
  `MCClose`. Conformance is defined recursively over schema and instance,
  without counters, order of keywords or limits. Of a validation that a limit
  ended it says that the verdict is `invalid`, for schemas without `anyOf`,
  `oneOf` and `not`.
- `AdmissionsBounded`: `decide()` compares a caller's counts with the limits
  and keeps none of its own, so two callers with the same counts both get in.
  The property is what remains true: the concurrent agents exceed their limit
  by no more than the *other* hosts may start on one decision, the total by no
  more than all may.
- `LoadNeverRaisesFanOut`, `StricterNeverPermits`: monotonicity of the workflow
  decision in every input that means more load, and of the policy plugin in
  every field that means stricter, for tool calls and routes; the second also
  checks that the summary put in the system prompt is true of the decisions.
- `OnlyDeclaredContactsPass`, `AuditsAreComplete`: what passes the contact gate
  and what the audits record of a call that comes to them, against a definition
  over the whole input. A contact that is refused is not audited, a call that
  an earlier gate refused is not scanned, and a scan goes as far as its bounds.
- `BootReachesAll`, `DisposalUnwinds` (kernel), `ReadyIsStable` (setup): see
  the comments in their modules. They quote the line that promises them.
- `ReplayKeepsMemory`, `EvidenceIsCurrent` (benchmark store). The first is about
  the file: the outcome of a run is read back from it, and so is a claim, with
  the run or as a score line, unless the line was lost. That a score line is the
  run's claim, and backed, is not read back, which is the finding `durable`. The
  second excepts a finish that overtakes the score it should have been backed by.
- `DecisionsAreJustified`, `OutcomesMoveScores` (routing): the first compares
  the choice with the record itself (successes per route and class), not with
  the formula: what was backed when the call came, and the samples when it
  decides. Its last clause needs that every candidate has a score: a claim of
  NaN takes it from one, and the order is then the sort's. The second is an
  action property over store and score together, for routes with no more runs
  of the class than the tracker keeps; beyond, `class_samples` refutes it.
- `TrailKeepsOrder` (audit trail): a gap is always counted; the two files are
  the end of what was ever appended, in order, and `recent()` shows the newest
  of it that can be read. Unless a check or a rename failed, the bound is
  exceeded at most by what the last line has of bytes beyond its characters.
- `PromptsAreAdmissible` (notes): see its comment. It holds for every result
  the sorts may have; that the notes are in order, only if all have a priority.

## 5. Proofs

Checked by TLAPS for every value of the constants, under the assumptions named
in the modules: positive bounds and thresholds; `AnyModel` not a model; finite
`Hosts`; `Null` not a run id and not a run; the verdicts a validator can give
(`VerdictAssumption`); the samples a profile and a setup request are made of
(`KernelAssumption`, `SetupAssumption`); notes and items with a number of
tokens, and times and ids that have an order (`ItemAssumption`); finitely many
configured routes, each with a place of its own in the order of keys and a
quota between 0 and 1 (`RoutingAssumption`). Of 40 properties of the passing
runs, 32 are theorems.

- `BoundedMapProofs`: `InsertKeys`, `DeleteKeys` and `DeleteAll`, what
  inserting and deleting do to the keys, the bound, the injectivity and the
  order of a bounded map. Every other proof uses a map only through them.
- `RouterProofs`, breakers: `CircuitsInvariant`, that `CircuitsSound` always
  holds; it is inductive. The parts need each other: that a probe slot is out
  only while half-open needs that an absent key is fresh, because eviction and
  re-insertion would otherwise bring back a slot. `LogInv` then relates every
  entry to the log of all reports (`OutcomeBreakerIsItsLog`,
  `WindowBreakerIsItsLog`, `ProbesAreSeparated`, `EffortIsRaisedOnFailOnly`):
  the streak of a key is counted back to its last success or eviction, and the
  failure list is what the window leaves of the log (`WindowKept` says which
  part of it may have been dropped and why no later window asks for it).
- `RouterProofs`, dispatch: `DispatchInvariant` (`DispatchSound` is
  inductive: to `CircuitInv` it adds that a host's clock is never ahead, that a
  host past its decision has a route, and `LedgerInv`, which bounds what a task
  dispatched by what the ledger counted since it last forgot the task);
  `NoDisallowedStreamEver`; `RetriesBounded`, arithmetic from `LedgerInv`;
  `DecisionsRespectCircuits`. The last rests on `HealthLasts`: a circuit that
  passes the gate at an earlier instant passes it now, because a cooldown only
  ends as time goes on, and the breakers' state is read after the awaits.
- `SelectionStoreProofs`: `StoreIsConsistent`, `StoreForgetsInOrderOfUse` and
  the refinement, `StoreKeepsItsPromise`: every step of `SelectionStore` is a
  step of `LatestSelection` or a stutter under the mapping. The invariant sets
  each map beside the history of its uses (`Lru`); the refinement then only
  needs which entry each operation touches or forgets.
- `CheckpointsProofs`: `CheckpointsTypeCorrect`; `RestartLosesNothing`, that
  `MemoryIsTheTail` always holds; its one real step is `RetainedAppend`:
  trimming memory after every record leaves what trimming once at the end
  would, so memory and a reload agree however many records went by.
  `CompletedStaysCompleted`, that `CompletedNeverAnAction` holds: the
  invariant says that no record is newer than the clock (`ClockInv`), that of
  every step whose completion was kept the last record in memory and in the
  file vouches for it (`KeptInv`), as the one in memory does while the line is
  on its way (`FinishingInv`), and that all hosts resume together
  (`ResumingInv`). The plan picks the newest record by time and then by place,
  and so finds that one.
- `PolicyProofs`, tool gate: `GateMemoryBounded` (`GateSound`), `DenialsStay`,
  `DenialsHold`, `ReasoningHolds`. The inductive invariant adds that what a
  memory holds is among what was ever denied or heard, and that the latter is
  finite; then a memory that evicts is full of other keys (`RoomLasts`, a
  counting argument), and more was denied than fits.
- `PolicyProofs`, delegation: `AdmissionsAlwaysBounded`, for any number of hosts
  and any limits the plugin accepts. `AdmissionsBounded` says nothing of the hosts
  that have decided but not yet started their agents, so it is not inductive.
  `DelegationInv` counts the *seats* promised: the decision on a question is
  fixed once a host has read its counts (`Promised`), a host's seats are at
  most `Most`, and agents plus seats stay within the bound. A host that reads
  its counts either is promised nothing or finds room for its own seats next to
  the at most `Most` of every other (`DecisionFits`, `SeatsPromised`); one that
  starts an agent trades a seat for it (`SeatTaken`). `LoadSpreadsNothing` is
  what `LoadNeverRaisesFanOut` samples: for any limits and tasks, more load in
  any respects never spreads a task further.
- `PolicyProofs`, rules: what `StricterNeverPermits` samples, for any two
  accepted configurations of which one is as strict as the other in every
  setting (`AsStrict`; `StricterIsAsStrict` shows that the run's one-setting
  changes are among them). `StricterTreatsNoMilder` goes gate by gate
  (`CapabilityTightens`, `ReasoningTightens`, `ScansTighten`), for any scan that
  finds no less when asked for more (`ScanSeesMore`; a scan is the union of what
  it finds per kind of taint asked for, `ScanToolArguments`, so it is one);
  `LabelingNeverGrants` compares a call with the same call naming a class;
  `StricterAdmitsNoMore` does routes, and that the prompt tells the truth of
  them. `PolicyRules` is instantiated for it with an arbitrary scan and
  arbitrary risks of tools.
- `EvidenceCloseProofs`: `DisposersTakeTheirOwn` and `SweepsCoverStable` from
  `RInv` (registrations keep their order, and no two that are live share an id); `ClosesOnVerifiedBytes` and `TheGatesAgree` from `EInv`, which adds
  what a validation in progress has read of which file (`JobInv`) and what a
  record says of the bytes it was made for (`RecordSound`).
- `StoresProofs`, benchmark store: `RestartKeepsRuns` and `ClaimsAreJudged`.
  Neither property is inductive: both speak of the moment when no append is
  left. `BenchInv` follows every run from its object in memory to the last of
  its chained lines, and from there to the last of its readable lines in the
  file (`ShownInv`); and every claim from its chained score to the rest of
  `recordScore()` that will write it into the run (`RestInv`, `JudgedInv`),
  which finds the score line in the file or the claim counted as lost.
- `StoresProofs`, audit trail: `TrailIsInOrder`. `TrailInv` adds to the
  property that what is on the chain is newer than all that was appended and in
  order, that written, dropped and waiting records are all there are
  (`CountInv`), and that a size that was checked leaves room for the characters
  of the line that follows (`BoundInv`).
- `StoresProofs`, notes: `PromptsStayAdmissible`. The ledger holds notes that
  the validation accepts through every append, failure and reload
  (`LedgerHoldsNotes`); the rest is about one selection. A sort is only known
  by its neighbours; where the relation is transitive, all are in order
  (`Neighbours`), which it is among notes with a priority
  (`NoteOrderIsStrict`). Filling the budget keeps an invariant over how many
  items it has come to, in any order of them: the shown ones fit, and one that
  was passed by did not fit then and fits less now.
- `StoresProofs`, decisions: `DecisionsFollowTheRecord`, for any catalogues,
  hosts, requests and configurations and any store. The record of a route is
  the list of its finished runs, newest first, which needs that no two runs have
  a finishing time in common, in memory, on the chain or in the file
  (`TimesInv`); from there the samples are samples and their score is a number
  (`TrackedIsRecord`, `ScoreIsNumber`, down to `RootIsNumber` and
  `PowersOfTwo`). Where every candidate has a score the order is transitive, and
  no candidate is ahead of the first (`FirstIsAhead`); two that are alike have
  scores that differ by their quality alone (`ScoreOfQuality`), and the weight
  of an unbacked record can only lower one (`BetterQualityIsAhead`). The plan is
  one whatever the order (`PlanKeeps`). `RoutingInv` says that a decision is one
  `selectRoute` may give for what the call read first and the store it was made
  on.
- `ProfileProofs`, kernel: `BootIsComplete` and `DisposalsUnwind`, for any
  profiles and any number of calls. Without overlap one boot has an effect
  (`SerialInv`); it sorts the plugins into waiting, tried, loaded and failed
  and keeps their services (`ReportsInv`), which is all `BootReachesAll` asks.
  For the disposals the invariant is over what is *owed*: the callbacks that
  ran and, behind them, those still to run. A boot only puts something first
  to it and a disposal leaves it as it is (`OwedStep`); what is put first
  belongs to the plugin tried last, which has given nothing yet (`OwnersInv`);
  and what came up is among the callbacks (`CleanupInv`), so nothing is left
  to be disposed of by name. When calls overlap none of that holds, and the
  part of the property that is about overlapping calls has an argument of its
  own: every cleanup that ran, is registered or is left to some disposal has a
  call of `apply()` of its own, an injection that each step carries along
  (`HooksInv`).
- `ProfileProofs`, setup: `SetupIsIdempotent`, `ReadyIsStable` for any bundle
  and command lines. `SetupInv` says what the steps behind a run have left for
  those before it (`ProgressInv`), and that a profile that was READY is
  (`ReadyInv`).

Where a proof needs the first or the last of a set of places, it takes it from
the well-foundedness of `<` on the naturals (`WFMin`), since induction itself is
not available. That a property passes from each number to the next and so holds
of all up to a bound is such a least place turned round (`UpTo`), for a set of
numbers in place of a predicate; and a function defined by going along the
numbers exists by it (`RecursionExists`).

Only model-checked:

- `CallsAreAnswered` is liveness, which the prover does not support.
- `VerdictIsConformance`, `NothingIgnored`, `OnlyDeclaredContactsPass` and
  `AuditsAreComplete` compare recursive definitions over nested data (schemas,
  arguments, globs) with other recursive definitions. What a recursive
  definition computes for every input takes an induction over the data.
- `LoadNeverRaisesFanOut` and `StricterNeverPermits` are properties of sampled
  trials; the theorems for all inputs are `LoadSpreadsNothing`,
  `StricterTreatsNoMilder`, `LabelingNeverGrants` and `StricterAdmitsNoMore`.
- `OutcomesMoveScores` compares the scores of two lists that differ in a sample,
  through a rounded square root and two rounded quotients. It asks for a score
  that differs, which needs few samples: of the more than a hundred a tracker
  may keep, one moves the score by less than the thousandth it is counted in.

## 6. Findings

- `engine.ts:423-424` of the router says of a half-open circuit that "the next
  dispatch IS the single probe (enforced by acquireProbe())". For a provider
  bucket nothing enforces it: the gate passes every candidate of the provider,
  the documented call asks for the slot of the chosen route, and no call asks
  for the bucket's (`halfopen`).
- `engine.ts:785-786` of the benchmark plugin says "resume must NEVER
  auto-repeat an already-executed side effect". `checkpoint()` answers
  as if a record were kept when its append was dropped; after a restart the
  step is an action of the plan again (`checkpoint_repeat`).
- `engine.ts:456-457` of supreme-policy says that the CoT gate reads undefined
  when no assistant message was observed yet, and is "fail-closed for known
  absence". The trace map evicts the session that spoke first, so that a
  session known to lack reasoning becomes unknown (`known_absence`).
- `engine.ts:922` of the router drops the first sample of a full list,
  "bounded: drop oldest". Its only caller feeds it the benchmark store's rows
  newest first, so the newest samples are the ones dropped (`class_samples`).
- `engine.ts:54-55` of the verifier says that exceeding a subject bound is
  "FAIL (conservative, never PASS)". In the branch after the one that met the
  limit nothing is looked at, so that it counts as a match: `anyOf` is then
  valid (`schema_limits`).
- `docs/decisions/ADR-0003-benchmark-storage.md:8` requires the aggregates the
  router consumes to be "durable across restarts". `recordScore()` writes the
  score line and then changes the run in memory only; replay collects scores and
  puts none into its run. A run that is scored after it finished loses its
  quality and its evidence with the process, though every line was written
  (`durable`).

Observed while modelling, in the models as the code has it, and not counted as
findings:

*Recovery and memory.* `planResumeFromRecords` is documented to report steps
that were never recorded and does not (it cannot know them), so that a host
cannot tell a fresh step from one whose records were evicted. A session may
keep a stored selection that `lookup` returns while its prompt shows nothing,
after the pointer map evicted it. A session id with blanks around it stores
under the trimmed id and renders under the raw one, that is, nothing. The
disposer of an older long-term provider resets a newer one. `selectMemory`
excludes by id alone, so two items of one id go together. `engine.ts:311` ranks
notes by "priority desc", but a priority of NaN passes the validation and the
comparator is then not transitive: of notes with the priorities 10, NaN and 90,
newest first, a cap of one lets in the first.

*Benchmark and routing.* A finish during `recordScore`'s await leaves
`evidenceBacked` as the older state of the run had it, although
`supreme-benchmark/engine.ts:77-82` defines it by the run. Task and finished
run records are not validated when written. A quality claim of NaN passes
`recordScore()`, is counted, and makes the average NaN, and with it the score of
a candidate without samples of the class: the comparator then falls back to the
keys. A decision weighs a record by the aggregates of one moment and the samples
of a later one. The first success of a route in a
class lowers its quality from the neutral 0.5 to about 0.206, the Wilson bound
of one success.

*Verifier and close gate.* `engine.ts:430-431` of the workflow policy calls its
check of a record the "mirror of the verifier engine's evaluateEvidenceForClose
binding check". It never looks at `recordedAt`, takes any validator type, and
refuses an empty `reasonCode`, which the verifier takes: `GatesAgree` excepts
these three fields (`timed`, `known`, `reasoned`). With a PASS label and no hash a task
closes on the status alone. Between the run of a validator and the hash bound
to its verdict the file may change. `engine.ts:990-992` says no record without
a hash, and non-PASS results are recorded without one.

*Workflow policy.* A recipient that cannot be resolved is refused under DENY
even with an empty contact graph, which the comments call inert. None of the
ladder's conditions depends on the rung, so a degraded task always ends at
DIRECT. Calls without an agent id pass the contact gate. The verification
asked of a route does not grow with its risk: paid LOW is STRICT, paid MEDIUM
BASIC.

*Tool gate.* `index.ts:221-223` of supreme-policy says of a denial "Other
tools/shapes unaffected". The signature joins names and types with ":" and ",",
and escapes neither in a name, so that arguments of different shapes may share
one; `AuditsAreComplete` excepts such names.

*Audit trail.* The allowlist of record fields drops fields that audits send.
A line over the limit is cut and no longer JSON, and `recent()` skips it.
Rotation adds the UTF-16 length of a line to a size in bytes, so that a file of
other than ASCII text passes its bound, by what the last line has of bytes
beyond its characters.

*Kernel.* The branch that reports a circular dependency cannot be reached;
cycles are reported as unsatisfied. Overlapping `dispose()` calls dispose of a
plugin twice; a plugin that boots during `dispose()` escapes it; the `disposed`
flag is never consulted; a failed `apply()` leaves its services registered.

*Setup* never looks at the pin: after a clone that succeeded and a checkout
that failed, the next run says READY on whatever the clone left, though
doctor's hint says that setup fixes everything it lists. A killed clone leaves
a directory on which every later clone fails; an interrupted install leaves
`node_modules` that is taken for installed; a build that left the CLI and no
boot library is not resumed; a patch layer torn by a kill is then kept as the
user's own.

## 7. What is left

In this order:

1. Kernel: the event bus, with listeners that are removed while it emits.
2. Benchmark: `recordTask` and the latency part of the aggregate.
3. Setup: the `verify` ladder and the start of a profile.

## 8. Not modelled, and why

- The latency ordering and the tracker's bounds of 1024 routes and 32 classes
  (they need more keys than an instance can have, and evict as the modelled
  list does); the label given to an outcome's class.
- `recordTask` (tasks are only counted); the wall-clock budget of the router, one comparison handed to hosts.
- Parsing and wording: prompt sections, log lines, error texts, YAML, the
  regular expressions themselves (a pattern is the set of samples it matches).
- What a spawned command does; a command validator is its exit, output and
  timeout as the plugin sees them.
- The event bus of the kernel and the renaming of events in the telemetry plugin's
  event map beyond which events are recorded.
- Links below `node_modules`, which `setup` repairs and nothing needs, with the
  warning `doctor` gives of them (`boot-import`); `verify`,
  and the launch of the upstream's own CLI.
- Test fixtures, the repository's own suite and its real-host drivers: they say
  what the code promises and are read for that. Bundles are generated from the
  same source; configuration and recorded data are inputs.
