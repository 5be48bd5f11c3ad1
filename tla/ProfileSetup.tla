------------------------------ MODULE ProfileSetup ------------------------------
(***************************************************************************)
(* `supreme.mjs setup`: it fetches and builds the upstream, bundles the    *)
(* plugins, installs the bundle into a profile, applies a composition as   *)
(* the profile's patch layer, seeds the root configuration, and boots the  *)
(* result once.  Each step looks at the disk for what is there already; a  *)
(* run may fail or be killed at any step, and the user edits the patch     *)
(* layer, repairs what doctor names, and runs setup again.                 *)
(*                                                                         *)
(* git, pnpm, the builds, `dsh plugin add` and the boot are external: each *)
(* may fail, and a killed one may leave half of its work.  The links under *)
(* node_modules are left out: nothing fails without them.                  *)
(***************************************************************************)
EXTENDS Integers, FiniteSets

CONSTANTS
  Bundled,          \* the plugins of dist/
  Requests,         \* command lines: composition, force, build
  MaxSetups         \* bound on the runs of a behaviour

Compositions == {"core", "standard", "supreme", "lab"}

ASSUME SetupAssumption ==
  /\ Requests \subseteq [composition : Compositions, force : BOOLEAN, build : BOOLEAN]
  /\ MaxSetups \in Nat

VARIABLES
  upstream,         \* the checkout: absent, partial, unpinned, pinned
  modules,          \* its node_modules: absent, partial, installed
  built,            \* what is built of it: its CLI, its boot library
  dist,             \* the plugins bundled
  added,            \* whether the profile has the bundle
  patch,            \* the profile's patch layer: absent, a composition, torn, edited
  seeded,           \* whether the profile has a root configuration
  step,             \* the step setup is at, or idle
  request,          \* what the run was asked for
  kept,             \* the run found a patch layer it did not write
  verdict,          \* what the last run ended with
  setups            \* runs so far

disk == <<upstream, modules, built, dist, added, patch, seeded>>
session == <<request, setups>>
setup == <<disk, step, session, kept, verdict>>

NoVerdict == [ready |-> FALSE]

SetupInit ==
  /\ upstream = "absent" /\ modules = "absent" /\ built = {}
  /\ dist \in {{}, Bundled} /\ added = FALSE /\ patch = "absent" /\ seeded = FALSE
  /\ step = "idle" /\ request \in Requests /\ kept = FALSE /\ verdict = NoVerdict
  /\ setups = 0

-------------------------------------------------------------------------------
(* The user.                                                                *)

Start(r) ==
  /\ step = "idle" /\ setups < MaxSetups
  /\ step' = "upstream" /\ request' = r /\ setups' = setups + 1
  /\ kept' = FALSE
  /\ verdict' = IF r.composition = request.composition THEN verdict ELSE NoVerdict
  /\ UNCHANGED disk

(* The patch layer is the user's to edit, while no setup is under way. *)
EditPatch ==
  /\ step = "idle" /\ added
  /\ patch' = "edited" /\ patch # "edited"
  /\ verdict' = NoVerdict
  /\ UNCHANGED <<upstream, modules, built, dist, added, seeded, step, session, kept>>

(* git checkout of the pin, as doctor advises, or the remains removed. *)
RepairUpstream ==
  /\ step = "idle"
  /\ \/ upstream = "unpinned" /\ upstream' = "pinned" /\ UNCHANGED <<modules, built>>
     \/ upstream = "partial" /\ upstream' = "absent" /\ UNCHANGED <<modules, built>>
     \/ modules = "partial" /\ modules' = "absent" /\ UNCHANGED <<upstream, built>>
     \/ built \notin {{}, {"cli", "lib"}} /\ built' = {} /\ UNCHANGED <<upstream, modules>>
  /\ verdict' = NoVerdict
  /\ UNCHANGED <<dist, added, patch, seeded, step, session, kept>>

-------------------------------------------------------------------------------
(* The steps.                                                               *)

(* finishSetup(false), an exception, or the process killed. *)
Stops == step' = "idle" /\ verdict' = NoVerdict

Goes(next) == step' = next /\ UNCHANGED verdict

(* A checkout counts from its package.json on, pinned or not. *)
Resolved == upstream \in {"unpinned", "pinned"}

(* A clone, then a checkout of the pin.  A clone that fails cleans up; one   *)
(* that is killed does not, and stands in the way of the next.              *)
CloneUpstream ==
  \/ Stops /\ UNCHANGED upstream
  \/ /\ upstream = "absent"
     /\ \/ upstream' = "pinned" /\ Goes("build")
        \/ upstream' \in {"partial", "unpinned"} /\ Stops

UpstreamStep ==
  /\ step = "upstream"
  /\ \/ Resolved /\ Goes("build") /\ UNCHANGED upstream
     \/ ~Resolved /\ request.build /\ CloneUpstream
     \/ ~Resolved /\ ~request.build /\ Stops /\ UNCHANGED upstream
  /\ UNCHANGED <<modules, built, dist, added, patch, seeded, session, kept>>

(* Installs unless there is a node_modules, whole or not, then builds.      *)
BuildUpstream ==
  \/ Stops /\ UNCHANGED <<modules, built>>
  \/ modules = "absent" /\ modules' = "partial" /\ Stops /\ UNCHANGED built
  \/ /\ modules # "partial" /\ modules' = "installed"
     /\ \/ built' = {"cli", "lib"} /\ Goes("dist")
        \/ built' \in {x \in SUBSET {"cli", "lib"} : built \subseteq x} /\ Stops

(* Left out once there is a CLI, however the build that made it ended. *)
BuildStep ==
  /\ step = "build"
  /\ \/ "cli" \in built /\ Goes("dist") /\ UNCHANGED <<modules, built>>
     \/ "cli" \notin built /\ request.build /\ BuildUpstream
     \/ "cli" \notin built /\ ~request.build /\ Stops /\ UNCHANGED <<modules, built>>
  /\ UNCHANGED <<upstream, dist, added, patch, seeded, session, kept>>

(* Every plugin anew; the first that fails ends the run. *)
RebuildDist ==
  \/ dist' = Bundled /\ Goes("add")
  \/ dist' \in {d \in SUBSET Bundled : dist \subseteq d} /\ Stops

DistStep ==
  /\ step = "dist"
  /\ \/ dist = Bundled /\ Goes("add") /\ UNCHANGED dist
     \/ dist # Bundled /\ RebuildDist
  /\ UNCHANGED <<upstream, modules, built, added, patch, seeded, session, kept>>

(* `dsh plugin add`, each time. *)
AddStep ==
  /\ step = "add"
  /\ \/ added' = TRUE /\ Goes("composition")
     \/ added' \in {added, TRUE} /\ Stops
  /\ UNCHANGED <<upstream, modules, built, dist, patch, seeded, session, kept>>

(* Mutant: any layer but the requested composition is replaced. *)
KeepsOnlyOwn == patch = request.composition

(* An existing layer stays, unless forced; only one that is the requested   *)
(* composition word for word is no conflict.                                *)
KeepsPatch == patch # "absent" /\ ~request.force

(* The name of the layer's file comes from the boot library: without one    *)
(* the run ends here.                                                       *)
CompositionStep ==
  /\ step = "composition"
  /\ \/ /\ KeepsPatch /\ "lib" \in built
        /\ kept' = (patch # request.composition)
        /\ Goes("seed") /\ UNCHANGED patch
     \/ /\ ~KeepsPatch /\ "lib" \in built
        /\ \/ patch' = request.composition /\ Goes("seed")
           \/ patch' = "torn" /\ Stops
        /\ UNCHANGED kept
     \/ Stops /\ UNCHANGED <<patch, kept>>
  /\ UNCHANGED <<upstream, modules, built, dist, added, seeded, session>>

SeedStep ==
  /\ step = "seed"
  /\ seeded' = TRUE
  /\ Goes("probe")
  /\ UNCHANGED <<upstream, modules, built, dist, added, patch, session, kept>>

(* How many of the seven services a patch layer leaves mounted. *)
Mounts == CASE patch = "core" -> {1} [] patch = "standard" -> {4}
            [] patch \in {"supreme", "lab"} -> {7} [] OTHER -> 0..7

EffectiveComposition(mounted) ==
  CASE mounted >= 7 -> "supreme" [] mounted >= 4 -> "standard"
    [] mounted >= 1 -> "core" [] OTHER -> "none"

(* The services a boot of the profile mounts, 0 when it or the record it     *)
(* must leave fails.                                                        *)
BootProbe == Mounts \cup {0}

(* finishSetup(true).  A kept layer that mounts as many services as another  *)
(* composition is reported.                                                 *)
SupremeReady(mounted) ==
  verdict' = [ready |-> TRUE, composition |-> request.composition, kept |-> kept,
              warned |-> kept /\ EffectiveComposition(mounted) # request.composition,
              mounted |-> mounted]

ProbeStep ==
  /\ step = "probe" /\ step' = "idle"
  /\ \E mounted \in BootProbe : IF mounted > 0 THEN SupremeReady(mounted) ELSE verdict' = NoVerdict
  /\ UNCHANGED <<disk, session, kept>>

Killed ==
  /\ step # "idle"
  /\ Stops
  /\ UNCHANGED <<disk, session, kept>>

SetupNext ==
  \/ \E r \in Requests : Start(r)
  \/ EditPatch
  \/ RepairUpstream
  \/ UpstreamStep \/ BuildStep \/ DistStep \/ AddStep \/ CompositionStep \/ SeedStep
  \/ ProbeStep
  \/ Killed

SetupSpec == SetupInit /\ [][SetupNext]_setup

-------------------------------------------------------------------------------
(* doctor().                                                                *)

(* tools: what the machine has of node 24, bun, pnpm and a writable home.   *)
Tools == {"node", "bun", "pnpm", "home-writable"}

FailedChecks(tools) ==
  ({"pnpm", "home-writable"} \ tools)
  \cup (IF ~Resolved THEN {"upstream"}
        ELSE (IF upstream # "pinned" THEN {"upstream-pin"} ELSE {})
               \cup ({"cli", "lib"} \ built))
  \cup (IF dist # Bundled THEN {"dist"} ELSE {})

(* A warning changes no verdict. *)
WarnedChecks(tools) ==
  ({"node", "bun"} \ tools) \cup (IF added THEN {} ELSE {"profiles"})

DoctorReady(tools) == FailedChecks(tools) = {}

-------------------------------------------------------------------------------
(* Properties.                                                              *)

(* "setup is idempotent" and "never clobbers your patch layer without       *)
(* --force" (README.md:116, CHANGELOG.md:100), for runs that fail, are       *)
(* killed and are repeated in any order.  READY is said only of a profile   *)
(* that has the bundle, everything it is built from, a root configuration   *)
(* and the composition asked for, or of one whose other layer was reported; *)
(* doctor on a machine with all tools then agrees, and of what is modelled  *)
(* here warns of nothing, but for the pin, which setup never looks at.  (Its *)
(* warning of links below node_modules is left out with the links.)         *)
(* A run repeated after READY changes nothing on the disk, and only --force *)
(* touches a layer that is there.                                           *)
ReadyIsStable ==
  [][/\ (verdict' # verdict /\ verdict'.ready)
          => /\ seeded /\ WarnedChecks(Tools) = {}
             /\ upstream # "unpinned" => DoctorReady(Tools)
             /\ FailedChecks(Tools) \subseteq {"upstream-pin"}
             /\ patch = request.composition \/ verdict'.kept
             /\ verdict'.kept =>
                  \/ verdict'.warned
                  \/ EffectiveComposition(verdict'.mounted) = request.composition
     /\ (verdict.ready /\ verdict'.ready /\ ~request.force) => disk' = disk
     /\ (step # "idle" /\ patch' \notin {patch, "edited"}) => patch = "absent" \/ request.force]_setup
===============================================================================
