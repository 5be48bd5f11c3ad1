------------------------------ MODULE CordisKernel ------------------------------
(***************************************************************************)
(* cordis-mini, the loader the repository keeps for lifecycle checks: it   *)
(* boots the plugins of a profile as their dependencies come up, and       *)
(* disposes of them in reverse order.                                      *)
(*                                                                         *)
(* boot() awaits every apply(), dispose() every callback, and the kernel   *)
(* guards neither against a second call, so calls of both may overlap.  A  *)
(* plugin is its place in the profile.  What apply() does is the plugin's: *)
(* here it may register a cleanup, provides its services one by one, and   *)
(* may throw at any moment.  Errors of callbacks are isolated and change   *)
(* nothing, so callbacks just run.                                         *)
(***************************************************************************)
EXTENDS Integers, SequencesExt

CONSTANTS
  Service,      \* services plugins provide and inject
  Profiles,     \* profiles a kernel may be booted with
  BootCall,     \* calls of boot(), numbered as they are made
  DisposeCall,  \* calls of dispose(), likewise
  MaxKernelCalls \* bound on the calls of a behaviour

(* An entry of a profile with the definition the module registry has for it *)
(* (known says whether it has one).  hook: apply() calls onDispose();       *)
(* throws: it may throw of its own.                                         *)
ProfileSpec ==
  [name : STRING, enabled : BOOLEAN, known : BOOLEAN, inject : SUBSET Service,
   provides : Seq(Service), hook : BOOLEAN, dispose : BOOLEAN, throws : BOOLEAN]

ASSUME KernelAssumption ==
  /\ MaxKernelCalls \in Nat /\ BootCall \cup DisposeCall \subseteq Nat
  /\ Profiles \subseteq Seq(ProfileSpec)

VARIABLES
  profile,         \* the profile in use
  registry,        \* service -> the plugin that owns it
  callbacks,       \* disposalCallbacks: whose, and whether it is the plugin's dispose()
  bootedPlugins,   \* plugins whose apply() returned, in order
  booted,          \* the flag boot() looks at
  boots,           \* boot call -> where it stands
  disposals,       \* dispose call -> where it stands
  ran,             \* history: callbacks run, in order
  attempted,       \* history: apply() calls, each with the owners of what it injects
  overlap          \* history: a call began while another was under way

kernel == <<profile, registry, callbacks, bootedPlugins, booted, boots, disposals,
            ran, attempted, overlap>>

Resting == [stage |-> "rest"]

KernelInit ==
  /\ profile \in Profiles
  /\ registry = << >> /\ callbacks = << >> /\ bootedPlugins = << >> /\ booted = FALSE
  /\ boots = [b \in BootCall |-> Resting]
  /\ disposals = [d \in DisposeCall |-> Resting]
  /\ ran = << >> /\ attempted = << >> /\ overlap = FALSE

(* The registry has the entry, and what it exports is a plugin. *)
ExtractPlugin(i) == profile[i].known

Callback(plugin, kind) == [plugin |-> plugin, kind |-> kind]

Underway ==
  \/ \E b \in BootCall : boots[b].stage \in {"scanning", "applying"}
  \/ \E d \in DisposeCall : disposals[d].stage \in {"callbacks", "plugins"}

MayCall ==
  Cardinality({b \in BootCall : boots[b] # Resting})
    + Cardinality({d \in DisposeCall : disposals[d] # Resting}) < MaxKernelCalls

-------------------------------------------------------------------------------
(* boot().                                                                  *)

(* Specs become definitions; one that does not is an error of the result.   *)
(* The guard against a second boot is set only when the first one ends.     *)
BeginBoot(b) ==
  /\ boots[b] = Resting /\ MayCall
  /\ \A x \in BootCall : x < b => boots[x] # Resting
  /\ boots' = [boots EXCEPT ![b] =
       IF booted THEN [stage |-> "refused"]
       ELSE [stage |-> "scanning", at |-> 0, given |-> 0,
             pending |-> {i \in DOMAIN profile : profile[i].enabled /\ ExtractPlugin(i)},
             errors |-> {<<i, "resolve">> : i \in {x \in DOMAIN profile :
                                                   profile[x].enabled /\ ~ExtractPlugin(x)}}]]
  /\ overlap' = (overlap \/ Underway)
  /\ UNCHANGED <<profile, registry, callbacks, bootedPlugins, booted, disposals, ran, attempted>>

(* Mutant: the scan goes on after a plugin instead of starting again. *)
ReadyAfterLast(b) ==
  {i \in boots[b].pending : profile[i].inject \subseteq DOMAIN registry /\ i > boots[b].at}

(* The waiting plugins whose services are all there.  The list of those that *)
(* wait stays in the order of the profile, so it is the set of its members.  *)
Ready(b) == {i \in boots[b].pending : profile[i].inject \subseteq DOMAIN registry}

(* The first one that is ready; the scan starts anew after it. *)
StartApply(b) ==
  /\ boots[b].stage = "scanning" /\ Ready(b) # {}
  /\ LET plugin == Min(Ready(b))
     IN  /\ boots' = [boots EXCEPT ![b].stage = "applying", ![b].at = plugin, ![b].given = 0,
                                   ![b].pending = @ \ {plugin}]
         /\ callbacks' = IF profile[plugin].hook THEN Append(callbacks, Callback(plugin, "hook"))
                         ELSE callbacks
         /\ attempted' = Append(attempted, [plugin |-> plugin,
                                           givers |-> {registry[s] : s \in profile[plugin].inject}])
  /\ UNCHANGED <<profile, registry, bootedPlugins, booted, disposals, ran, overlap>>

Throws(b) == boots' = [boots EXCEPT ![b].stage = "scanning",
                                    ![b].errors = @ \cup {<<boots[b].at, "apply">>}]

(* ctx.provide(): a name already registered throws. *)
Provide(b) ==
  LET list == profile[boots[b].at].provides
      service == list[boots[b].given + 1]
  IN  /\ boots[b].stage = "applying" /\ boots[b].given < Len(list)
      /\ IF service \in DOMAIN registry THEN Throws(b) /\ UNCHANGED registry
         ELSE /\ registry' = [s \in DOMAIN registry \cup {service} |->
                               IF s = service THEN boots[b].at ELSE registry[s]]
              /\ boots' = [boots EXCEPT ![b].given = @ + 1]
      /\ UNCHANGED <<profile, callbacks, bootedPlugins, booted, disposals, ran, attempted, overlap>>

(* apply() throws; what it has provided and registered stays. *)
ApplyFails(b) ==
  /\ boots[b].stage = "applying" /\ profile[boots[b].at].throws
  /\ Throws(b)
  /\ UNCHANGED <<profile, registry, callbacks, bootedPlugins, booted, disposals, ran, attempted, overlap>>

ApplyEnds(b) ==
  LET plugin == boots[b].at IN
  /\ boots[b].stage = "applying" /\ boots[b].given = Len(profile[plugin].provides)
  /\ boots' = [boots EXCEPT ![b].stage = "scanning"]
  /\ bootedPlugins' = Append(bootedPlugins, plugin)
  /\ callbacks' = IF profile[plugin].dispose THEN Append(callbacks, Callback(plugin, "dispose"))
                  ELSE callbacks
  /\ UNCHANGED <<profile, registry, booted, disposals, ran, attempted, overlap>>

(* A whole scan finds nothing: what is left cannot be resolved. *)
BootEnds(b) ==
  /\ boots[b].stage = "scanning" /\ Ready(b) = {}
  /\ boots' = [boots EXCEPT ![b].stage = "done",
                            ![b].errors = @ \cup {<<i, "resolve">> : i \in boots[b].pending}]
  /\ booted' = TRUE
  /\ UNCHANGED <<profile, registry, callbacks, bootedPlugins, disposals, ran, attempted, overlap>>

-------------------------------------------------------------------------------
(* dispose().                                                               *)

BeginDispose(d) ==
  /\ disposals[d] = Resting /\ MayCall
  /\ \A x \in DisposeCall : x < d => disposals[x] # Resting
  /\ disposals' = [disposals EXCEPT ![d] =
       [stage |-> "callbacks", fns |-> Reverse(callbacks), left |-> Reverse(callbacks),
        plugins |-> << >>, due |-> {}]]
  /\ callbacks' = << >>
  /\ overlap' = (overlap \/ Underway)
  /\ UNCHANGED <<profile, registry, bootedPlugins, booted, boots, ran, attempted>>

RunCallback(d) ==
  /\ disposals[d].stage = "callbacks" /\ disposals[d].left # << >>
  /\ ran' = Append(ran, Head(disposals[d].left))
  /\ disposals' = [disposals EXCEPT ![d].left = Tail(@)]
  /\ UNCHANGED <<profile, registry, callbacks, bootedPlugins, booted, boots, attempted, overlap>>

(* Mutant: every booted plugin that can be disposed of is, again. *)
EveryBooted(fns) == {i \in DOMAIN bootedPlugins : profile[bootedPlugins[i]].dispose}

(* The places of booted plugins whose name is on none of the callbacks run. *)
NotYetDisposed(fns) ==
  {i \in DOMAIN bootedPlugins :
     /\ profile[bootedPlugins[i]].dispose
     /\ \A k \in DOMAIN fns : profile[fns[k].plugin].name # profile[bootedPlugins[i]].name}

(* With nothing due any more the kernel forgets what it booted. *)
ClearWhenDone(due) ==
  IF due = {} THEN bootedPlugins' = << >> /\ registry' = << >>
  ELSE UNCHANGED <<bootedPlugins, registry>>

CallbacksDone(d) ==
  LET due == NotYetDisposed(disposals[d].fns) IN
  /\ disposals[d].stage = "callbacks" /\ disposals[d].left = << >>
  /\ disposals' = [disposals EXCEPT ![d].stage = IF due = {} THEN "done" ELSE "plugins",
                                    ![d].plugins = bootedPlugins, ![d].due = due]
  /\ ClearWhenDone(due)
  /\ UNCHANGED <<profile, callbacks, booted, boots, ran, attempted, overlap>>

(* The last one that is due. *)
RunDispose(d) ==
  LET place == Max(disposals[d].due)
      due == disposals[d].due \ {place}
  IN  /\ disposals[d].stage = "plugins"
      /\ ran' = Append(ran, Callback(disposals[d].plugins[place], "dispose"))
      /\ disposals' = [disposals EXCEPT ![d].stage = IF due = {} THEN "done" ELSE "plugins",
                                        ![d].due = due]
      /\ ClearWhenDone(due)
      /\ UNCHANGED <<profile, callbacks, booted, boots, attempted, overlap>>

-------------------------------------------------------------------------------

KernelNext ==
  \/ \E b \in BootCall :
       \/ BeginBoot(b) \/ StartApply(b) \/ Provide(b) \/ ApplyFails(b) \/ ApplyEnds(b)
       \/ BootEnds(b)
  \/ \E d \in DisposeCall :
       BeginDispose(d) \/ RunCallback(d) \/ CallbacksDone(d) \/ RunDispose(d)

KernelSpec == KernelInit /\ [][KernelNext]_kernel

-------------------------------------------------------------------------------
(* Properties.                                                              *)

Tried == {attempted[i].plugin : i \in DOMAIN attempted}

Failed == UNION {{i \in Tried : <<i, "apply">> \in boots[b].errors} :
                   b \in {x \in BootCall : boots[x].stage \in {"scanning", "applying", "done"}}}

(* q owned a service that p was applied with. *)
Gave(q, p) == \E i \in DOMAIN attempted : attempted[i].plugin = p /\ q \in attempted[i].givers

HooksRun(p) == {i \in DOMAIN ran : ran[i] = Callback(p, "hook")}
Attempts(p) == {i \in DOMAIN attempted : attempted[i].plugin = p}

(* "topological dependency resolution" (index.ts:9): a boot nothing         *)
(* overlapped tried exactly the plugins whose services came up, whatever    *)
(* order the profile lists them in and whichever of them threw half-way,    *)
(* and it reports all the others.  Without a failure it is complete: the    *)
(* plugins left out need a service that none of those tried provides.       *)
BootReachesAll ==
  \A b \in BootCall :
    (boots[b].stage = "done" /\ ~overlap /\ \A d \in DisposeCall : disposals[d].stage = "rest")
      => LET enabled == {i \in DOMAIN profile : profile[i].enabled}
             offers(i) == ToSet(profile[i].provides)
         IN  /\ Tried = {i \in enabled : profile[i].known /\ profile[i].inject \subseteq DOMAIN registry}
             /\ enabled \ ToSet(bootedPlugins) = {e[1] : e \in boots[b].errors}
             /\ (\A i \in Tried : <<i, "apply">> \notin boots[b].errors)
                  => DOMAIN registry = UNION {offers(i) : i \in Tried}

(* "Reverse-order disposal ... every plugin still disposed" (index.ts:363): *)
(* when no calls overlap, no callback runs twice, a plugin goes before the   *)
(* owners of the services it was given, those whose apply() threw included, *)
(* and a dispose() leaves none that booted.  Even overlapping calls never    *)
(* run a cleanup of onDispose() more often than it was registered.           *)
DisposalUnwinds ==
  /\ ~overlap =>
       /\ \A i, j \in DOMAIN ran : ran[i] = ran[j] => i = j
       /\ \A i, j \in DOMAIN ran :
            Gave(ran[j].plugin, ran[i].plugin) => i < j
       /\ (bootedPlugins = << >> /\ \E b \in BootCall : boots[b].stage = "done")
            => \A p \in Tried \ Failed :
                 profile[p].dispose => Callback(p, "dispose") \in ToSet(ran)
  /\ \A p \in Tried : Cardinality(HooksRun(p)) <= Cardinality(Attempts(p))
===============================================================================
