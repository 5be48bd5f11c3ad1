----------------------------- MODULE ProfileProofs -----------------------------
(***************************************************************************)
(* A profile set up, booted and disposed of: ProfileSetup, CordisKernel.   *)
(*                                                                         *)
(* The kernel for any profiles and any number of calls.  Without overlap   *)
(* one boot has an effect (SerialInv).  It sorts the plugins and supplies  *)
(* their services (ReportsInv), which is all BootReachesAll asks.  For the *)
(* disposals the invariant is over what is owed: the callbacks that ran    *)
(* and, behind them, those still to run, which a boot only puts something  *)
(* first to and a disposal leaves as it is.  What is put first belongs to  *)
(* the last plugin tried, and that one has given nothing yet (OwnersInv).  *)
(* What came up is among the callbacks (CleanupInv), so that nothing is    *)
(* disposed of twice.  When calls overlap none of that holds; then every   *)
(* cleanup run, registered or left to a disposal has a call of apply() of  *)
(* its own (HooksInv), and so none runs more often than it should.         *)
(*                                                                         *)
(* ReadyIsStable for any bundle and any command lines.  Each step of a run *)
(* finds what the steps behind it left, because a step that did not leave  *)
(* it ended the run; and READY outlives only what changes nothing.         *)
(***************************************************************************)
EXTENDS CordisKernel, ProfileSetup, FiniteSetTheorems, SequenceTheorems,
        WellFoundedInduction, TLAPS

(* What the state holds.  A plugin is its place in the profile. *)
Entries == DOMAIN profile
Registered == [plugin : Entries, kind : {"hook", "dispose"}]
Loading ==
  [stage : {"scanning", "applying", "done"}, at : Nat, given : Nat, pending : SUBSET Entries,
   errors : SUBSET (Entries \X {"resolve", "apply"})]
Unwinding ==
  [stage : {"callbacks", "plugins", "done"}, fns : Seq(Registered), left : Seq(Registered),
   plugins : Seq(Entries), due : SUBSET Nat]

KernelTypes ==
  /\ profile \in Seq(ProfileSpec)
  /\ registry \in [DOMAIN registry -> Entries]
  /\ callbacks \in Seq(Registered) /\ ran \in Seq(Registered)
  /\ bootedPlugins \in Seq(Entries)
  /\ attempted \in Seq([plugin : Entries, givers : SUBSET Entries])
  /\ boots \in [BootCall -> {Resting, [stage |-> "refused"]} \cup Loading]
  /\ disposals \in [DisposeCall -> {Resting} \cup Unwinding]
  /\ booted \in BOOLEAN /\ overlap \in BOOLEAN

(* Where the calls stand. *)
Busy(b) == boots[b].stage \in {"scanning", "applying"}
Done(b) == boots[b].stage = "done"
Disposing(d) == disposals[d].stage \in {"callbacks", "plugins"}

(* What a stage of a call says of the rest of its record. *)
PlacesInv ==
  /\ \A b \in BootCall : Done(b) => booted
  /\ \A b \in BootCall : boots[b].stage = "applying" =>
       boots[b].at \in Entries /\ boots[b].given <= Len(profile[boots[b].at].provides)
  /\ \A d \in DisposeCall :
       /\ disposals[d].stage = "plugins" => disposals[d].due # {}
       /\ disposals[d] # Resting => disposals[d].due \subseteq DOMAIN disposals[d].plugins

(* What no boot has come to yet. *)
Untouched ==
  /\ attempted = << >> /\ callbacks = << >> /\ bootedPlugins = << >> /\ ran = << >> /\ DOMAIN registry = {}

(* A disposal with nothing to do. *)
Idle(d) == disposals[d].stage = "callbacks" /\ disposals[d].fns = << >> /\ disposals[d].left = << >>

(* Calls that do not overlap: one boot at most has an effect, it runs before *)
(* any disposal that has something to do, and one disposal runs at a time.   *)
SerialInv ==
  ~overlap =>
    /\ \A b, c \in BootCall : (Busy(b) \/ Done(b)) /\ (Busy(c) \/ Done(c)) => b = c
    /\ \A d, e \in DisposeCall : Disposing(d) /\ Disposing(e) => d = e
    /\ \A b \in BootCall : Busy(b) => ~booted /\ ran = << >> /\ \A d \in DisposeCall : ~Disposing(d)
    /\ (\A b \in BootCall : ~Busy(b) /\ ~Done(b)) => Untouched /\ \A d \in DisposeCall : Disposing(d) => Idle(d)

(* The plugins a boot can try, the one it tries, and those that came up. *)
Loadable == {i \in Entries : profile[i].enabled /\ profile[i].known}
Current(b) == IF boots[b].stage = "applying" THEN {boots[b].at} ELSE {}
Came == ToSet(bootedPlugins)
----
(* A set of numbers has a least member; one of places also a greatest. *)
LEMMA LeastOf ==
  ASSUME NEW S \in SUBSET Nat, S # {}
  PROVE  \E x \in S : \A y \in S : x <= y
<1> DEFINE R == OpToRel(<, Nat)
<1>1. IsWellFoundedOn(R, Nat)
  BY NatLessThanWellFounded
<1>2. \A x, y \in Nat : x < y => <<x, y>> \in R
  BY DEF OpToRel
<1> HIDE DEF R
<1>3. PICK x \in S : \A y \in S : ~(<<y, x>> \in R)
  BY <1>1, WFMin
<1>4. \A y \in S : ~(y < x)
  BY <1>2, <1>3
<1>5. \A y \in S : x <= y
  BY <1>4
<1> QED BY <1>5

LEMMA LeastIn ==
  ASSUME NEW S \in SUBSET Nat, S # {}
  PROVE  Min(S) \in S
BY LeastOf DEF Min

LEMMA GreatestIn ==
  ASSUME NEW n \in Nat, NEW S \in SUBSET (1 .. n), S # {}
  PROVE  Max(S) \in S
<1> DEFINE T == {n - x : x \in S}
<1>1. T \in SUBSET Nat
  <2>1. \A x \in S : x \in Nat /\ x <= n /\ n - x \in Nat
    OBVIOUS
  <2> QED BY <2>1
<1>2. T # {}
  OBVIOUS
<1>3. \E y \in T : \A z \in T : y <= z
  <2> HIDE DEF T
  <2> QED BY <1>1, <1>2, LeastOf
<1>4. PICK x \in S : \A z \in T : n - x <= z
  BY <1>3
<1>5. \A z \in S : z <= x
  <2>1. \A z \in S : n - x <= n - z
    BY <1>4
  <2> QED BY <2>1
<1> QED BY <1>5 DEF Max

(* The record of a call that has begun. *)

LEMMA LoadingBoot ==
  ASSUME KernelTypes, NEW b \in BootCall, Busy(b) \/ Done(b)
  PROVE  boots[b] \in Loading
BY DEF KernelTypes, Busy, Done, Resting

LEMMA UnwindingCall ==
  ASSUME KernelTypes, NEW d \in DisposeCall, disposals[d].stage # "rest"
  PROVE  disposals[d] \in Unwinding
BY DEF KernelTypes, Resting

(* Before the first call. *)

LEMMA TypesInit == KernelInit => KernelTypes /\ PlacesInv /\ SerialInv
<1> SUFFICES ASSUME KernelInit PROVE KernelTypes /\ PlacesInv /\ SerialInv
  OBVIOUS
<1> USE DEF KernelInit
<1>1. profile \in Seq(ProfileSpec)
  BY KernelAssumption
<1>2. DOMAIN registry = {} /\ registry \in [DOMAIN registry -> Entries]
  OBVIOUS
<1>3. \A b \in BootCall : boots[b] = Resting /\ ~Busy(b) /\ ~Done(b) /\ boots[b].stage # "applying"
  BY DEF Resting, Busy, Done
<1>4. \A d \in DisposeCall : disposals[d] = Resting /\ ~Disposing(d) /\ disposals[d].stage # "plugins"
  BY DEF Resting, Disposing
<1>5. KernelTypes
  <2>1. boots \in [BootCall -> {Resting, [stage |-> "refused"]} \cup Loading]
        /\ disposals \in [DisposeCall -> {Resting} \cup Unwinding]
    OBVIOUS
  <2>2. booted \in BOOLEAN /\ overlap \in BOOLEAN
    OBVIOUS
  <2>3. callbacks \in Seq(Registered) /\ ran \in Seq(Registered) /\ bootedPlugins \in Seq(Entries)
        /\ attempted \in Seq([plugin : Entries, givers : SUBSET Entries])
    OBVIOUS
  <2> QED BY <1>1, <1>2, <2>1, <2>2, <2>3 DEF KernelTypes
<1>6. PlacesInv
  BY <1>3, <1>4 DEF PlacesInv
<1>7. SerialInv
  BY <1>2, <1>3, <1>4 DEF SerialInv, Untouched
<1> QED BY <1>5, <1>6, <1>7

(* A record of a boot with a stage and errors of its own. *)

LEMMA NotedErrors ==
  ASSUME NEW r \in Loading, NEW st \in {"scanning", "applying", "done"},
         NEW more \in SUBSET (Entries \X {"resolve", "apply"})
  PROVE  [r EXCEPT !.stage = st, !.errors = r.errors \cup more] \in Loading
<1>1. r.errors \cup more \in SUBSET (Entries \X {"resolve", "apply"})
  BY DEF Loading
<1> DEFINE e == r.errors \cup more
<1> HIDE DEF e
<1>2. [r EXCEPT !.stage = st, !.errors = e] \in Loading
  BY <1>1 DEF Loading, e
<1> QED BY <1>2 DEF e

(* The actions of a boot keep the types. *)

LEMMA BootStepTypes ==
  ASSUME KernelTypes, PlacesInv, NEW b \in BootCall,
         \/ BeginBoot(b) \/ StartApply(b) \/ Provide(b) \/ ApplyFails(b) \/ ApplyEnds(b) \/ BootEnds(b)
  PROVE  KernelTypes'
<1> USE DEF KernelTypes
<1>1. Entries' = Entries /\ profile' = profile /\ Entries \subseteq Nat
  BY DEF BeginBoot, StartApply, Provide, ApplyFails, ApplyEnds, BootEnds, Entries
<1>2. Loading' = Loading /\ Unwinding' = Unwinding /\ Registered' = Registered
  BY <1>1 DEF Loading, Unwinding, Registered
<1>3. \A i \in Entries : profile[i] \in ProfileSpec
  BY DEF Entries
<1>4. CASE BeginBoot(b)
  <2> DEFINE fresh == [stage |-> "scanning", at |-> 0, given |-> 0,
                       pending |-> {i \in DOMAIN profile : profile[i].enabled /\ ExtractPlugin(i)},
                       errors |-> {<<i, "resolve">> : i \in {x \in DOMAIN profile :
                                                   profile[x].enabled /\ ~ExtractPlugin(x)}}]
  <2>1. fresh \in Loading
    BY <1>1 DEF Loading, Entries
  <2> HIDE DEF fresh
  <2>2. boots' = [boots EXCEPT ![b] = IF booted THEN [stage |-> "refused"] ELSE fresh]
    BY <1>4 DEF BeginBoot, fresh
  <2>3. boots' \in [BootCall -> {Resting, [stage |-> "refused"]} \cup Loading]
    BY <2>1, <2>2
  <2>4. overlap' \in BOOLEAN
    BY <1>4 DEF BeginBoot, Underway
  <2> QED BY <1>1, <1>2, <1>4, <2>3, <2>4 DEF BeginBoot
<1>5. CASE StartApply(b)
  <2> DEFINE p == Min(Ready(b))
  <2>1. boots[b] \in Loading
    BY <1>5, LoadingBoot DEF StartApply, Busy
  <2>2. p \in boots[b].pending /\ p \in Entries
    <3>1. Ready(b) \subseteq boots[b].pending /\ boots[b].pending \subseteq Entries /\ Ready(b) # {}
      BY <1>5, <2>1 DEF StartApply, Ready, Loading
    <3> QED BY <1>1, <3>1, LeastIn
  <2>3. profile[p].inject \subseteq DOMAIN registry
    <3>1. Ready(b) \subseteq Nat /\ Ready(b) # {}
      BY <1>1, <1>5, <2>1 DEF StartApply, Ready, Loading
    <3> QED BY <3>1, LeastIn DEF Ready
  <2> HIDE DEF p
  <2>4. boots' \in [BootCall -> {Resting, [stage |-> "refused"]} \cup Loading]
    <3>1. boots' = [boots EXCEPT ![b].stage = "applying", ![b].at = p, ![b].given = 0,
                                 ![b].pending = @ \ {p}]
      BY <1>5 DEF StartApply, p
    <3>2. [boots[b] EXCEPT !.stage = "applying", !.at = p, !.given = 0, !.pending = @ \ {p}] \in Loading
      BY <1>1, <2>1, <2>2 DEF Loading
    <3> QED BY <3>1, <3>2
  <2>5. callbacks' \in Seq(Registered)
    <3>1. callbacks' = IF profile[p].hook THEN Append(callbacks, Callback(p, "hook")) ELSE callbacks
      BY <1>5 DEF StartApply, p
    <3>2. Callback(p, "hook") \in Registered
      BY <2>2 DEF Callback, Registered
    <3> QED BY <3>1, <3>2
  <2>6. attempted' \in Seq([plugin : Entries, givers : SUBSET Entries])
    <3>1. attempted' = Append(attempted, [plugin |-> p, givers |-> {registry[s] : s \in profile[p].inject}])
      BY <1>5 DEF StartApply, p
    <3>2. {registry[s] : s \in profile[p].inject} \subseteq Entries
      BY <2>3
    <3> QED BY <2>2, <3>1, <3>2
  <2> QED BY <1>1, <1>2, <1>5, <2>4, <2>5, <2>6 DEF StartApply
<1>6. CASE Provide(b)
  <2> DEFINE at == boots[b].at
             s == profile[at].provides[boots[b].given + 1]
  <2>1. boots[b] \in Loading /\ at \in Entries
    BY <1>6, LoadingBoot DEF Provide, Busy, PlacesInv
  <2>2. \/ boots' = [boots EXCEPT ![b].stage = "scanning", ![b].errors = @ \cup {<<at, "apply">>}]
           /\ registry' = registry
        \/ boots' = [boots EXCEPT ![b].given = @ + 1] /\ registry' = [x \in DOMAIN registry \cup {s} |-> IF x = s THEN at ELSE registry[x]]
    BY <1>6 DEF Provide, Throws
  <2> HIDE DEF s
  <2>3. [boots[b] EXCEPT !.stage = "scanning", !.errors = @ \cup {<<at, "apply">>}] \in Loading
    <3>1. {<<at, "apply">>} \in SUBSET (Entries \X {"resolve", "apply"})
      BY <2>1
    <3> QED BY <2>1, <3>1, NotedErrors
  <2>4. [boots[b] EXCEPT !.given = @ + 1] \in Loading
    <3>1. boots[b].given + 1 \in Nat
      BY <2>1 DEF Loading
    <3> QED BY <2>1, <3>1 DEF Loading
  <2> HIDE DEF at
  <2>5. boots' \in [BootCall -> {Resting, [stage |-> "refused"]} \cup Loading]
    <3>1. CASE boots' = [boots EXCEPT ![b].stage = "scanning", ![b].errors = @ \cup {<<at, "apply">>}]
      BY <2>3, <3>1
    <3>2. CASE boots' = [boots EXCEPT ![b].given = @ + 1]
      <4>1. boots' = [boots EXCEPT ![b] = [boots[b] EXCEPT !.given = boots[b].given + 1]]
        BY <3>2
      <4> QED BY <2>4, <4>1
    <3> QED BY <2>2, <3>1, <3>2
  <2>6. registry' \in [DOMAIN registry' -> Entries]
    BY <2>1, <2>2
  <2> QED BY <1>1, <1>2, <1>6, <2>5, <2>6 DEF Provide
<1>7. CASE ApplyFails(b)
  <2> DEFINE at == boots[b].at
  <2>1. boots[b] \in Loading /\ at \in Entries
    BY <1>7, LoadingBoot DEF ApplyFails, Busy, PlacesInv
  <2>2. boots' = [boots EXCEPT ![b].stage = "scanning", ![b].errors = @ \cup {<<at, "apply">>}]
    BY <1>7 DEF ApplyFails, Throws
  <2>3. [boots[b] EXCEPT !.stage = "scanning", !.errors = @ \cup {<<at, "apply">>}] \in Loading
    <3>1. {<<at, "apply">>} \in SUBSET (Entries \X {"resolve", "apply"})
      BY <2>1
    <3> QED BY <2>1, <3>1, NotedErrors
  <2> HIDE DEF at
  <2>4. boots' \in [BootCall -> {Resting, [stage |-> "refused"]} \cup Loading]
    BY <2>2, <2>3
  <2> QED BY <1>1, <1>2, <1>7, <2>4 DEF ApplyFails
<1>8. CASE ApplyEnds(b)
  <2> DEFINE at == boots[b].at
  <2>1. boots[b] \in Loading /\ at \in Entries
    BY <1>8, LoadingBoot DEF ApplyEnds, Busy, PlacesInv
  <2>2. boots' = [boots EXCEPT ![b].stage = "scanning"] /\ bootedPlugins' = Append(bootedPlugins, at)
        /\ callbacks' = IF profile[at].dispose THEN Append(callbacks, Callback(at, "dispose")) ELSE callbacks
    BY <1>8 DEF ApplyEnds
  <2> HIDE DEF at
  <2>3. [boots[b] EXCEPT !.stage = "scanning"] \in Loading
    BY <2>1 DEF Loading
  <2>4. boots' \in [BootCall -> {Resting, [stage |-> "refused"]} \cup Loading]
    BY <2>2, <2>3
  <2>5. Callback(at, "dispose") \in Registered
    BY <2>1 DEF Callback, Registered
  <2>6. callbacks' \in Seq(Registered) /\ bootedPlugins' \in Seq(Entries)
    BY <2>1, <2>2, <2>5
  <2> QED BY <1>1, <1>2, <1>8, <2>4, <2>6 DEF ApplyEnds
<1>9. CASE BootEnds(b)
  <2>1. boots[b] \in Loading
    BY <1>9, LoadingBoot DEF BootEnds, Busy
  <2>2. boots' = [boots EXCEPT ![b].stage = "done",
                            ![b].errors = @ \cup {<<i, "resolve">> : i \in boots[b].pending}]
    BY <1>9 DEF BootEnds
  <2>3. [boots[b] EXCEPT !.stage = "done", !.errors = @ \cup {<<i, "resolve">> : i \in boots[b].pending}] \in Loading
    <3>1. {<<i, "resolve">> : i \in boots[b].pending} \in SUBSET (Entries \X {"resolve", "apply"})
      BY <2>1 DEF Loading
    <3> QED BY <2>1, <3>1, NotedErrors
  <2>4. boots' \in [BootCall -> {Resting, [stage |-> "refused"]} \cup Loading]
    BY <2>2, <2>3
  <2> QED BY <1>1, <1>2, <1>9, <2>4 DEF BootEnds
<1> QED BY <1>4, <1>5, <1>6, <1>7, <1>8, <1>9

(* What a boot never touches, and what each of its actions does to its record. *)
LEMMA BootLeaves ==
  ASSUME KernelTypes, NEW b \in BootCall,
         \/ BeginBoot(b) \/ StartApply(b) \/ Provide(b) \/ ApplyFails(b) \/ ApplyEnds(b) \/ BootEnds(b)
  PROVE  /\ \A c \in BootCall \ {b} : boots'[c] = boots[c]
         /\ profile' = profile /\ disposals' = disposals /\ ran' = ran
<1> USE DEF KernelTypes
<1>1. CASE BeginBoot(b)
  BY <1>1 DEF BeginBoot
<1>2. CASE StartApply(b)
  BY <1>2 DEF StartApply
<1>3. CASE Provide(b)
  BY <1>3 DEF Provide, Throws
<1>4. CASE ApplyFails(b)
  BY <1>4 DEF ApplyFails, Throws
<1>5. CASE ApplyEnds(b)
  BY <1>5 DEF ApplyEnds
<1>6. CASE BootEnds(b)
  BY <1>6 DEF BootEnds
<1> QED BY <1>1, <1>2, <1>3, <1>4, <1>5, <1>6

LEMMA Begins ==
  ASSUME KernelTypes, NEW b \in BootCall, BeginBoot(b)
  PROVE  /\ boots[b] = Resting
         /\ booted => boots'[b] = [stage |-> "refused"]
         /\ ~booted => /\ boots'[b].stage = "scanning" /\ boots'[b].pending = Loadable
                       /\ boots'[b].errors = {<<i, "resolve">> : i \in {x \in Entries : profile[x].enabled /\ ~profile[x].known}}
<1> DEFINE fresh == [stage |-> "scanning", at |-> 0, given |-> 0,
                     pending |-> {i \in DOMAIN profile : profile[i].enabled /\ ExtractPlugin(i)},
                     errors |-> {<<i, "resolve">> : i \in {x \in DOMAIN profile :
                                                 profile[x].enabled /\ ~ExtractPlugin(x)}}]
<1>1. fresh.stage = "scanning" /\ fresh.pending = Loadable
      /\ fresh.errors = {<<i, "resolve">> : i \in {x \in Entries : profile[x].enabled /\ ~profile[x].known}}
  BY DEF Loadable, Entries, ExtractPlugin
<1> HIDE DEF fresh
<1>2. boots[b] = Resting /\ boots' = [boots EXCEPT ![b] = IF booted THEN [stage |-> "refused"] ELSE fresh]
  BY DEF BeginBoot, fresh
<1> QED BY <1>1, <1>2 DEF KernelTypes

LEMMA Starts ==
  ASSUME KernelTypes, NEW b \in BootCall, StartApply(b)
  PROVE  \E p \in Entries :
           /\ boots[b].stage = "scanning"
           /\ p \in boots[b].pending /\ profile[p].inject \subseteq DOMAIN registry
           /\ boots'[b].stage = "applying" /\ boots'[b].at = p /\ boots'[b].given = 0
           /\ boots'[b].pending = boots[b].pending \ {p} /\ boots'[b].errors = boots[b].errors
           /\ callbacks' = IF profile[p].hook THEN Append(callbacks, Callback(p, "hook")) ELSE callbacks
           /\ attempted' = Append(attempted, [plugin |-> p, givers |-> {registry[s] : s \in profile[p].inject}])
<1> DEFINE p == Min(Ready(b))
<1>1. boots[b] \in Loading
  BY LoadingBoot DEF StartApply, Busy
<1>2. p \in Ready(b)
  <2>1. Ready(b) \subseteq boots[b].pending /\ Ready(b) # {}
    BY DEF StartApply, Ready
  <2>2. boots[b].pending \subseteq Entries
    BY <1>1 DEF Loading
  <2>3. Entries \subseteq Nat
    BY DEF Entries, KernelTypes
  <2> QED BY <2>1, <2>2, <2>3, LeastIn
<1>3. p \in boots[b].pending /\ p \in Entries /\ profile[p].inject \subseteq DOMAIN registry
  BY <1>1, <1>2 DEF Ready, Loading
<1> HIDE DEF p
<1>4. /\ boots' = [boots EXCEPT ![b].stage = "applying", ![b].at = p, ![b].given = 0,
                                ![b].pending = @ \ {p}]
      /\ callbacks' = IF profile[p].hook THEN Append(callbacks, Callback(p, "hook")) ELSE callbacks
      /\ attempted' = Append(attempted, [plugin |-> p, givers |-> {registry[s] : s \in profile[p].inject}])
      /\ boots[b].stage = "scanning"
  BY DEF StartApply, p
<1>5. /\ boots'[b].stage = "applying" /\ boots'[b].at = p /\ boots'[b].given = 0
      /\ boots'[b].pending = boots[b].pending \ {p} /\ boots'[b].errors = boots[b].errors
  BY <1>1, <1>4 DEF KernelTypes, Loading
<1> QED BY <1>3, <1>4, <1>5

(* A step that ends an apply() by an exception. *)
Thrown(b) ==
  /\ boots[b].stage = "applying" /\ boots'[b].stage = "scanning"
  /\ boots'[b].pending = boots[b].pending
  /\ boots'[b].errors = boots[b].errors \cup {<<boots[b].at, "apply">>}
  /\ registry' = registry

LEMMA Gives ==
  ASSUME KernelTypes, NEW b \in BootCall, Provide(b)
  PROVE  /\ UNCHANGED <<profile, callbacks, bootedPlugins, booted, disposals, ran, attempted, overlap>>
         /\ \/ Thrown(b)
            \/ LET s == profile[boots[b].at].provides[boots[b].given + 1]
               IN  /\ boots[b].stage = "applying" /\ boots'[b].stage = "applying"
                   /\ boots[b].given < Len(profile[boots[b].at].provides)
                   /\ boots'[b].at = boots[b].at /\ boots'[b].given = boots[b].given + 1
                   /\ boots'[b].pending = boots[b].pending /\ boots'[b].errors = boots[b].errors
                   /\ registry' = [x \in DOMAIN registry \cup {s} |-> IF x = s THEN boots[b].at ELSE registry[x]]
                   /\ s \notin DOMAIN registry
<1> DEFINE s == profile[boots[b].at].provides[boots[b].given + 1]
<1>1. boots[b] \in Loading
  BY LoadingBoot DEF Provide, Busy
<1>2. CASE s \in DOMAIN registry
  BY <1>1, <1>2 DEF Provide, Throws, Thrown, KernelTypes, Loading
<1>3. CASE s \notin DOMAIN registry
  BY <1>1, <1>3 DEF Provide, KernelTypes, Loading
<1> QED BY <1>2, <1>3

LEMMA Fails ==
  ASSUME KernelTypes, NEW b \in BootCall, ApplyFails(b)
  PROVE  /\ UNCHANGED <<profile, callbacks, bootedPlugins, booted, disposals, ran, attempted, overlap>>
         /\ Thrown(b)
<1>1. boots[b] \in Loading
  BY LoadingBoot DEF ApplyFails, Busy
<1> QED BY <1>1 DEF ApplyFails, Throws, Thrown, KernelTypes, Loading

LEMMA Applies ==
  ASSUME KernelTypes, NEW b \in BootCall, ApplyEnds(b)
  PROVE  /\ boots[b].stage = "applying" /\ boots'[b].stage = "scanning"
         /\ boots[b].given = Len(profile[boots[b].at].provides)
         /\ boots'[b].pending = boots[b].pending /\ boots'[b].errors = boots[b].errors
<1>1. boots[b] \in Loading
  BY LoadingBoot DEF ApplyEnds, Busy
<1> QED BY <1>1 DEF ApplyEnds, KernelTypes, Loading

LEMMA Ends ==
  ASSUME KernelTypes, NEW b \in BootCall, BootEnds(b)
  PROVE  /\ boots[b].stage = "scanning" /\ boots'[b].stage = "done"
         /\ boots'[b].pending = boots[b].pending
         /\ boots'[b].errors = boots[b].errors \cup {<<i, "resolve">> : i \in boots[b].pending}
<1>1. boots[b] \in Loading
  BY LoadingBoot DEF BootEnds, Busy
<1> DEFINE e == boots[b].errors \cup {<<i, "resolve">> : i \in boots[b].pending}
<1>2. boots' = [boots EXCEPT ![b].stage = "done", ![b].errors = e] /\ boots[b].stage = "scanning"
  BY DEF BootEnds
<1> HIDE DEF e
<1>3. boots'[b].stage = "done" /\ boots'[b].pending = boots[b].pending /\ boots'[b].errors = e
  BY <1>1, <1>2 DEF KernelTypes, Loading
<1> QED BY <1>2, <1>3 DEF e

(* A disposal leaves the boots alone. *)
LEMMA DisposalLeaves ==
  ASSUME KernelTypes, NEW d \in DisposeCall,
         BeginDispose(d) \/ RunCallback(d) \/ CallbacksDone(d) \/ RunDispose(d)
  PROVE  /\ \A e \in DisposeCall \ {d} : disposals'[e] = disposals[e]
         /\ profile' = profile /\ boots' = boots /\ attempted' = attempted /\ booted' = booted
<1>1. CASE BeginDispose(d)
  BY <1>1 DEF BeginDispose, KernelTypes
<1>2. CASE RunCallback(d)
  BY <1>2 DEF RunCallback, KernelTypes
<1>3. CASE CallbacksDone(d)
  BY <1>3 DEF CallbacksDone, KernelTypes
<1>4. CASE RunDispose(d)
  BY <1>4 DEF RunDispose, KernelTypes
<1> QED BY <1>1, <1>2, <1>3, <1>4

(* What each of its actions does. *)

LEMMA Unwinds ==
  ASSUME KernelTypes, NEW d \in DisposeCall, BeginDispose(d)
  PROVE  /\ disposals[d] = Resting /\ disposals'[d].stage = "callbacks"
         /\ disposals'[d] = [stage |-> "callbacks", fns |-> Reverse(callbacks), left |-> Reverse(callbacks),
                             plugins |-> << >>, due |-> {}]
         /\ callbacks' = << >> /\ overlap' = (overlap \/ Underway)
         /\ UNCHANGED <<registry, bootedPlugins, ran>>
BY DEF BeginDispose, KernelTypes

LEMMA Calls ==
  ASSUME KernelTypes, NEW d \in DisposeCall, RunCallback(d)
  PROVE  /\ disposals[d].stage = "callbacks" /\ disposals'[d].stage = "callbacks"
         /\ disposals[d].left # << >>
         /\ disposals'[d].left = Tail(disposals[d].left) /\ disposals'[d].fns = disposals[d].fns
         /\ disposals'[d].plugins = disposals[d].plugins /\ disposals'[d].due = disposals[d].due
         /\ ran' = Append(ran, Head(disposals[d].left))
         /\ UNCHANGED <<registry, callbacks, bootedPlugins, overlap>>
<1>1. disposals[d] \in Unwinding
  BY UnwindingCall DEF RunCallback
<1> QED BY <1>1 DEF RunCallback, KernelTypes, Unwinding

LEMMA CallsEnd ==
  ASSUME KernelTypes, NEW d \in DisposeCall, CallbacksDone(d)
  PROVE  LET due == NotYetDisposed(disposals[d].fns)
         IN  /\ disposals[d].stage = "callbacks" /\ disposals[d].left = << >>
             /\ disposals'[d].stage = IF due = {} THEN "done" ELSE "plugins"
             /\ disposals'[d].left = disposals[d].left /\ disposals'[d].fns = disposals[d].fns
             /\ disposals'[d].plugins = bootedPlugins /\ disposals'[d].due = due
             /\ due \subseteq DOMAIN bootedPlugins
             /\ ClearWhenDone(due)
             /\ UNCHANGED <<callbacks, ran, overlap>>
<1> DEFINE due == NotYetDisposed(disposals[d].fns)
<1>1. disposals[d] \in Unwinding
  BY UnwindingCall DEF CallbacksDone
<1>2. due \subseteq DOMAIN bootedPlugins
  BY DEF NotYetDisposed
<1> HIDE DEF due
<1>3. /\ disposals[d].stage = "callbacks" /\ disposals[d].left = << >>
      /\ disposals' = [disposals EXCEPT ![d].stage = IF due = {} THEN "done" ELSE "plugins",
                                        ![d].plugins = bootedPlugins, ![d].due = due]
      /\ ClearWhenDone(due)
      /\ UNCHANGED <<callbacks, ran, overlap>>
  BY DEF CallbacksDone, due
<1> USE DEF KernelTypes, Unwinding
<1>4. disposals'[d].stage = IF due = {} THEN "done" ELSE "plugins"
  BY <1>1, <1>3
<1>5. disposals'[d].left = disposals[d].left /\ disposals'[d].fns = disposals[d].fns
  BY <1>1, <1>3
<1>6. disposals'[d].plugins = bootedPlugins /\ disposals'[d].due = due
  BY <1>1, <1>3
<1> QED BY <1>2, <1>3, <1>4, <1>5, <1>6 DEF due

LEMMA Disposes ==
  ASSUME KernelTypes, PlacesInv, NEW d \in DisposeCall, RunDispose(d)
  PROVE  \E place \in DOMAIN disposals[d].plugins :
           LET due == disposals[d].due \ {place}
           IN  /\ disposals[d].stage = "plugins"
               /\ disposals'[d].stage = IF due = {} THEN "done" ELSE "plugins"
               /\ disposals'[d].left = disposals[d].left /\ disposals'[d].fns = disposals[d].fns
               /\ disposals'[d].plugins = disposals[d].plugins /\ disposals'[d].due = due
               /\ ran' = Append(ran, Callback(disposals[d].plugins[place], "dispose"))
               /\ ClearWhenDone(due)
               /\ UNCHANGED <<callbacks, overlap>>
<1> DEFINE place == Max(disposals[d].due)
           due == disposals[d].due \ {place}
<1>1. disposals[d] \in Unwinding /\ disposals[d].stage = "plugins"
  BY UnwindingCall DEF RunDispose
<1>2. place \in DOMAIN disposals[d].plugins
  <2>1. disposals[d].due # {} /\ disposals[d].due \subseteq 1 .. Len(disposals[d].plugins)
        /\ Len(disposals[d].plugins) \in Nat
    BY <1>1 DEF PlacesInv, Unwinding, Resting
  <2>2. DOMAIN disposals[d].plugins = 1 .. Len(disposals[d].plugins)
    BY <1>1 DEF Unwinding
  <2> QED BY <2>1, <2>2, GreatestIn
<1> HIDE DEF place
<1>3. /\ disposals' = [disposals EXCEPT ![d].stage = IF due = {} THEN "done" ELSE "plugins",
                                        ![d].due = due]
      /\ ran' = Append(ran, Callback(disposals[d].plugins[place], "dispose"))
      /\ ClearWhenDone(due)
      /\ UNCHANGED <<callbacks, overlap>>
  BY DEF RunDispose, place
<1> HIDE DEF due
<1> USE DEF KernelTypes, Unwinding
<1>4. disposals'[d].stage = IF due = {} THEN "done" ELSE "plugins"
  BY <1>1, <1>3
<1>5. disposals'[d].left = disposals[d].left /\ disposals'[d].fns = disposals[d].fns
  BY <1>1, <1>3
<1>6. disposals'[d].plugins = disposals[d].plugins /\ disposals'[d].due = due
  BY <1>1, <1>3
<1> QED BY <1>1, <1>2, <1>3, <1>4, <1>5, <1>6 DEF due

(* The actions of a disposal keep the types. *)
LEMMA DisposalStepTypes ==
  ASSUME KernelTypes, PlacesInv, NEW d \in DisposeCall,
         BeginDispose(d) \/ RunCallback(d) \/ CallbacksDone(d) \/ RunDispose(d)
  PROVE  KernelTypes'
<1> USE DEF KernelTypes
<1>1. Entries' = Entries /\ profile' = profile
  BY DisposalLeaves DEF Entries
<1>2. Loading' = Loading /\ Unwinding' = Unwinding /\ Registered' = Registered
  BY <1>1 DEF Loading, Unwinding, Registered
<1>3. \A due : ClearWhenDone(due) =>
         bootedPlugins' \in Seq(Entries) /\ registry' \in [DOMAIN registry' -> Entries]
  <2>1. ASSUME registry' = << >> PROVE registry' \in [DOMAIN registry' -> Entries]
    BY <2>1
  <2> QED BY <2>1 DEF ClearWhenDone
<1>4. ASSUME disposals'[d] \in Unwinding
      PROVE  disposals' \in [DisposeCall -> {Resting} \cup Unwinding]
  <2>1. \A e \in DisposeCall : disposals'[e] \in {Resting} \cup Unwinding
    BY <1>4, DisposalLeaves
  <2>2. disposals' = [e \in DisposeCall |-> disposals'[e]]
    BY DEF BeginDispose, RunCallback, CallbacksDone, RunDispose
  <2> QED BY <2>1, <2>2
<1>5. CASE BeginDispose(d)
  <2>1. Reverse(callbacks) \in Seq(Registered)
    BY DEF Reverse
  <2>2. disposals'[d] \in Unwinding
    <3> DEFINE fns == Reverse(callbacks)
    <3>1. disposals'[d] = [stage |-> "callbacks", fns |-> fns, left |-> fns, plugins |-> << >>, due |-> {}]
      BY <1>5, Unwinds
    <3>2. fns \in Seq(Registered)
      BY <2>1
    <3> HIDE DEF fns
    <3> QED BY <3>1, <3>2 DEF Unwinding
  <2>3. overlap' \in BOOLEAN
    BY <1>5 DEF BeginDispose, Underway
  <2> QED BY <1>1, <1>2, <1>4, <1>5, <2>2, <2>3 DEF BeginDispose
<1>6. CASE RunCallback(d)
  <2>1. disposals[d] \in Unwinding
    BY <1>6, UnwindingCall DEF RunCallback
  <2>2. Head(disposals[d].left) \in Registered /\ Tail(disposals[d].left) \in Seq(Registered)
    BY <1>6, <2>1 DEF RunCallback, Unwinding
  <2>3. disposals'[d] \in Unwinding
    <3>1. disposals' = [disposals EXCEPT ![d].left = Tail(@)]
      BY <1>6 DEF RunCallback
    <3>2. [disposals[d] EXCEPT !.left = Tail(disposals[d].left)] \in Unwinding
      BY <2>1, <2>2 DEF Unwinding
    <3> QED BY <3>1, <3>2
  <2>4. ran' \in Seq(Registered)
    BY <1>6, <2>2 DEF RunCallback
  <2> QED BY <1>1, <1>2, <1>4, <1>6, <2>3, <2>4 DEF RunCallback
<1>7. CASE CallbacksDone(d)
  <2> DEFINE due == NotYetDisposed(disposals[d].fns)
  <2>1. disposals[d] \in Unwinding
    BY <1>7, UnwindingCall DEF CallbacksDone
  <2>2. due \in SUBSET Nat
    BY DEF NotYetDisposed
  <2>3. /\ disposals' = [disposals EXCEPT ![d].stage = IF due = {} THEN "done" ELSE "plugins",
                                          ![d].plugins = bootedPlugins, ![d].due = due]
        /\ ClearWhenDone(due)
    BY <1>7 DEF CallbacksDone
  <2> HIDE DEF due
  <2>4. disposals'[d] \in Unwinding
    <3> DEFINE st == IF due = {} THEN "done" ELSE "plugins"
    <3>1. st \in {"callbacks", "plugins", "done"}
      OBVIOUS
    <3> HIDE DEF st
    <3>2. [disposals[d] EXCEPT !.stage = st, !.plugins = bootedPlugins, !.due = due] \in Unwinding
      BY <2>1, <2>2, <3>1 DEF Unwinding
    <3> QED BY <2>3, <3>2 DEF st
  <2> QED BY <1>1, <1>2, <1>3, <1>4, <1>7, <2>3, <2>4 DEF CallbacksDone
<1>8. CASE RunDispose(d)
  <2>1. disposals[d] \in Unwinding
    BY <1>8, UnwindingCall DEF RunDispose
  <2>2. PICK place \in DOMAIN disposals[d].plugins :
          LET due == disposals[d].due \ {place}
          IN  /\ ran' = Append(ran, Callback(disposals[d].plugins[place], "dispose"))
              /\ ClearWhenDone(due)
    BY <1>8, Disposes
  <2>3. ran' \in Seq(Registered)
    <3>1. disposals[d].plugins[place] \in Entries
      BY <2>1 DEF Unwinding
    <3>2. Callback(disposals[d].plugins[place], "dispose") \in Registered
      BY <3>1 DEF Callback, Registered
    <3> QED BY <2>2, <3>2
  <2>4. disposals'[d] \in Unwinding
    <3> DEFINE due == disposals[d].due \ {Max(disposals[d].due)}
               st == IF due = {} THEN "done" ELSE "plugins"
    <3>1. st \in {"callbacks", "plugins", "done"} /\ due \in SUBSET Nat
      BY <2>1 DEF Unwinding
    <3>2. disposals' = [disposals EXCEPT ![d].stage = st, ![d].due = due]
      BY <1>8 DEF RunDispose
    <3> HIDE DEF st, due
    <3>3. [disposals[d] EXCEPT !.stage = st, !.due = due] \in Unwinding
      BY <2>1, <3>1 DEF Unwinding
    <3> QED BY <3>2, <3>3
  <2> QED BY <1>1, <1>2, <1>3, <1>4, <1>8, <2>2, <2>3, <2>4 DEF RunDispose
<1> QED BY <1>5, <1>6, <1>7, <1>8

----
(* Which stages a step takes a call from and to. *)
LEMMA PlacesStep ==
  ASSUME KernelTypes, PlacesInv, [KernelNext]_kernel
  PROVE  PlacesInv'
<1>1. ASSUME NEW b \in BootCall,
             \/ BeginBoot(b) \/ StartApply(b) \/ Provide(b) \/ ApplyFails(b) \/ ApplyEnds(b) \/ BootEnds(b)
      PROVE  PlacesInv'
  <2>1. /\ \A c \in BootCall \ {b} : boots'[c] = boots[c]
        /\ profile' = profile /\ disposals' = disposals /\ Entries' = Entries
    BY <1>1, BootLeaves DEF Entries
  <2>2. (booted => booted') /\ (boots'[b].stage = "done" => booted')
    <3>1. CASE BeginBoot(b)
      BY <3>1, Begins DEF BeginBoot
    <3>2. CASE StartApply(b)
      BY <3>2, Starts DEF StartApply
    <3>3. CASE Provide(b)
      BY <3>3, Gives DEF Thrown
    <3>4. CASE ApplyFails(b)
      BY <3>4, Fails DEF Thrown
    <3>5. CASE ApplyEnds(b)
      BY <3>5, Applies DEF ApplyEnds
    <3>6. CASE BootEnds(b)
      BY <3>6, Ends DEF BootEnds
    <3> QED BY <1>1, <3>1, <3>2, <3>3, <3>4, <3>5, <3>6
  <2>3. boots'[b].stage = "applying" =>
          boots'[b].at \in Entries /\ boots'[b].given <= Len(profile[boots'[b].at].provides)
    <3>1. CASE BeginBoot(b)
      BY <3>1, Begins
    <3>2. CASE StartApply(b)
      <4>1. \A i \in Entries : Len(profile[i].provides) \in Nat
        BY DEF KernelTypes, Entries, ProfileSpec
      <4>2. PICK p \in Entries : boots'[b].at = p /\ boots'[b].given = 0
        BY <3>2, Starts
      <4> QED BY <4>1, <4>2
    <3>3. CASE Provide(b)
      <4> DEFINE n == Len(profile[boots[b].at].provides)
      <4>1. boots[b] \in Loading /\ boots[b].stage = "applying"
        BY <3>3, LoadingBoot DEF Provide, Busy
      <4>2. boots[b].at \in Entries
        BY <4>1 DEF PlacesInv
      <4>3. n \in Nat /\ boots[b].given \in Nat
        BY <4>1, <4>2 DEF KernelTypes, Entries, ProfileSpec, Loading
      <4>4. \/ boots'[b].stage = "scanning"
            \/ boots[b].given < n /\ boots'[b].at = boots[b].at /\ boots'[b].given = boots[b].given + 1
        BY <3>3, Gives DEF Thrown
      <4> HIDE DEF n
      <4>5. boots'[b].stage = "applying" => boots'[b].at = boots[b].at /\ boots'[b].given <= n
        BY <4>3, <4>4
      <4> QED BY <4>2, <4>5 DEF n
    <3>4. CASE ApplyFails(b)
      BY <3>4, Fails DEF Thrown
    <3>5. CASE ApplyEnds(b)
      BY <3>5, Applies
    <3>6. CASE BootEnds(b)
      BY <3>6, Ends
    <3> QED BY <1>1, <3>1, <3>2, <3>3, <3>4, <3>5, <3>6
  <2>4. \A c \in BootCall : Done(c)' => booted'
    BY <2>1, <2>2 DEF Done, PlacesInv
  <2>5. \A c \in BootCall : boots'[c].stage = "applying" =>
          boots'[c].at \in Entries /\ boots'[c].given <= Len(profile[boots'[c].at].provides)
    BY <2>1, <2>3 DEF PlacesInv
  <2> QED BY <2>1, <2>4, <2>5 DEF PlacesInv
<1>2. ASSUME NEW d \in DisposeCall,
             BeginDispose(d) \/ RunCallback(d) \/ CallbacksDone(d) \/ RunDispose(d)
      PROVE  PlacesInv'
  <2>1. /\ \A e \in DisposeCall \ {d} : disposals'[e] = disposals[e]
        /\ profile' = profile /\ boots' = boots /\ booted' = booted /\ Entries' = Entries
    BY <1>2, DisposalLeaves DEF Entries
  <2>2. /\ disposals'[d].stage = "plugins" => disposals'[d].due # {}
        /\ disposals'[d].due \subseteq DOMAIN disposals'[d].plugins
    <3>1. CASE BeginDispose(d)
      BY <3>1, Unwinds
    <3>2. CASE RunCallback(d)
      BY <3>2, Calls DEF PlacesInv, Resting
    <3>3. CASE CallbacksDone(d)
      BY <3>3, CallsEnd
    <3>4. CASE RunDispose(d)
      <4>1. PICK place \in DOMAIN disposals[d].plugins :
              LET due == disposals[d].due \ {place}
              IN  /\ disposals[d].stage = "plugins"
                  /\ disposals'[d].stage = IF due = {} THEN "done" ELSE "plugins"
                  /\ disposals'[d].plugins = disposals[d].plugins /\ disposals'[d].due = due
        BY <3>4, Disposes
      <4> QED BY <4>1 DEF PlacesInv, Resting
    <3> QED BY <1>2, <3>1, <3>2, <3>3, <3>4
  <2>3. \A e \in DisposeCall :
          /\ disposals'[e].stage = "plugins" => disposals'[e].due # {}
          /\ disposals'[e] # Resting => disposals'[e].due \subseteq DOMAIN disposals'[e].plugins
    BY <2>1, <2>2 DEF PlacesInv
  <2> QED BY <2>1, <2>3 DEF PlacesInv, Done
<1>3. CASE UNCHANGED kernel
  BY <1>3 DEF kernel, PlacesInv, Done, Entries
<1> QED BY <1>1, <1>2, <1>3 DEF KernelNext

(* A call that begins without an overlap finds no other under way. *)
LEMMA Alone ==
  ASSUME ~overlap', overlap' = (overlap \/ Underway)
  PROVE  /\ ~overlap
         /\ \A c \in BootCall : ~Busy(c)
         /\ \A e \in DisposeCall : ~Disposing(e)
<1>1. ~overlap /\ ~Underway
  BY Zenon
<1> QED BY <1>1 DEF Underway, Busy, Disposing

(* Calls that do not overlap stay one after the other. *)
LEMMA SerialStep ==
  ASSUME KernelTypes, PlacesInv, SerialInv, [KernelNext]_kernel
  PROVE  SerialInv'
<1> SUFFICES ASSUME ~overlap'
             PROVE  /\ \A b, c \in BootCall : (Busy(b) \/ Done(b))' /\ (Busy(c) \/ Done(c))' => b = c
                    /\ \A d, e \in DisposeCall : Disposing(d)' /\ Disposing(e)' => d = e
                    /\ \A b \in BootCall : Busy(b)' => ~booted' /\ ran' = << >> /\ \A d \in DisposeCall : ~Disposing(d)'
                    /\ (\A b \in BootCall : ~Busy(b)' /\ ~Done(b)') =>
                          Untouched' /\ \A d \in DisposeCall : Disposing(d)' => Idle(d)'
  BY DEF SerialInv
<1> DEFINE Live(b) == Busy(b) \/ Done(b)
<1>1. ASSUME NEW b \in BootCall, BeginBoot(b)
      PROVE  /\ \A x, c \in BootCall : Live(x)' /\ Live(c)' => x = c
             /\ \A d, e \in DisposeCall : Disposing(d)' /\ Disposing(e)' => d = e
             /\ \A x \in BootCall : Busy(x)' => ~booted' /\ ran' = << >> /\ \A d \in DisposeCall : ~Disposing(d)'
             /\ (\A x \in BootCall : ~Live(x)') =>
                   Untouched' /\ \A d \in DisposeCall : Disposing(d)' => Idle(d)'
  <2>1. ~overlap /\ (\A c \in BootCall : ~Busy(c)) /\ \A e \in DisposeCall : ~Disposing(e)
    BY <1>1, Alone DEF BeginBoot
  <2>2. /\ \A c \in BootCall \ {b} : boots'[c] = boots[c]
        /\ profile' = profile /\ disposals' = disposals /\ ran' = ran /\ booted' = booted
    BY <1>1, BootLeaves DEF BeginBoot
  <2>3. \A d \in DisposeCall : ~Disposing(d)'
    BY <2>1, <2>2 DEF Disposing
  <2>4. ~Live(b)
    BY <1>1, Begins DEF Resting, Busy, Done
  <2>5. CASE booted
    <3>1. ~Live(b)'
      BY <1>1, <2>5, Begins DEF Busy, Done
    <3>2. \A c \in BootCall : (Live(c)' <=> Live(c)) /\ ~Busy(c)'
      BY <2>1, <2>2, <2>4, <3>1 DEF Busy, Done
    <3>3. Untouched => Untouched'
      BY <1>1 DEF BeginBoot, Untouched
    <3> QED BY <2>1, <2>3, <3>2, <3>3 DEF SerialInv
  <2>6. CASE ~booted
    <3>1. \A c \in BootCall : ~Live(c)
      BY <2>1, <2>6 DEF PlacesInv
    <3>2. Live(b)' /\ \A c \in BootCall \ {b} : ~Live(c)'
      BY <1>1, <2>2, <2>6, <3>1, Begins DEF Busy, Done
    <3>3. ran' = << >> /\ ~booted'
      BY <2>1, <2>2, <2>6, <3>1 DEF SerialInv, Untouched
    <3> QED BY <2>3, <3>2, <3>3
  <2> QED BY <2>5, <2>6
<1>2. ASSUME NEW b \in BootCall,
             StartApply(b) \/ Provide(b) \/ ApplyFails(b) \/ ApplyEnds(b) \/ BootEnds(b)
      PROVE  /\ \A x, c \in BootCall : Live(x)' /\ Live(c)' => x = c
             /\ \A d, e \in DisposeCall : Disposing(d)' /\ Disposing(e)' => d = e
             /\ \A x \in BootCall : Busy(x)' => ~booted' /\ ran' = << >> /\ \A d \in DisposeCall : ~Disposing(d)'
             /\ (\A x \in BootCall : ~Live(x)') =>
                   Untouched' /\ \A d \in DisposeCall : Disposing(d)' => Idle(d)'
  <2>1. /\ \A c \in BootCall \ {b} : boots'[c] = boots[c]
        /\ profile' = profile /\ disposals' = disposals /\ ran' = ran
    BY <1>2, BootLeaves
  <2>2. overlap' = overlap
    BY <1>2 DEF StartApply, Provide, ApplyFails, ApplyEnds, BootEnds
  <2>3. Busy(b)
    BY <1>2 DEF StartApply, Provide, ApplyFails, ApplyEnds, BootEnds, Busy
  <2>4. Live(b)' /\ (Busy(b)' => booted' = booted)
    <3>1. CASE StartApply(b)
      BY <3>1, Starts DEF StartApply, Busy
    <3>2. CASE Provide(b)
      BY <3>2, Gives DEF Thrown, Busy
    <3>3. CASE ApplyFails(b)
      BY <3>3, Fails DEF Thrown, Busy
    <3>4. CASE ApplyEnds(b)
      BY <3>4, Applies DEF ApplyEnds, Busy
    <3>5. CASE BootEnds(b)
      BY <3>5, Ends DEF Busy, Done
    <3> QED BY <1>2, <3>1, <3>2, <3>3, <3>4, <3>5
  <2>5. ~booted /\ ran = << >> /\ (\A d \in DisposeCall : ~Disposing(d)) /\ \A c \in BootCall \ {b} : ~Live(c)
    BY <2>2, <2>3 DEF SerialInv
  <2>6. \A c \in BootCall \ {b} : ~Live(c)'
    BY <2>1, <2>5 DEF Busy, Done
  <2>7. \A d \in DisposeCall : ~Disposing(d)'
    BY <2>1, <2>5 DEF Disposing
  <2>8. Busy(b)' => ~booted' /\ ran' = << >>
    BY <2>1, <2>4, <2>5
  <2> QED BY <2>4, <2>6, <2>7, <2>8
<1>3. ASSUME NEW d \in DisposeCall,
             BeginDispose(d) \/ RunCallback(d) \/ CallbacksDone(d) \/ RunDispose(d)
      PROVE  /\ \A x, c \in BootCall : Live(x)' /\ Live(c)' => x = c
             /\ \A y, e \in DisposeCall : Disposing(y)' /\ Disposing(e)' => y = e
             /\ \A x \in BootCall : Busy(x)' => ~booted' /\ ran' = << >> /\ \A y \in DisposeCall : ~Disposing(y)'
             /\ (\A x \in BootCall : ~Live(x)') =>
                   Untouched' /\ \A y \in DisposeCall : Disposing(y)' => Idle(y)'
  <2>1. /\ \A e \in DisposeCall \ {d} : disposals'[e] = disposals[e]
        /\ profile' = profile /\ boots' = boots /\ attempted' = attempted /\ booted' = booted
    BY <1>3, DisposalLeaves
  <2>2. /\ ~overlap /\ \A c \in BootCall : ~Busy(c)
        /\ \A e \in DisposeCall \ {d} : ~Disposing(e)
    <3>1. CASE BeginDispose(d)
      BY <3>1, Alone DEF BeginDispose
    <3>2. CASE RunCallback(d) \/ CallbacksDone(d) \/ RunDispose(d)
      <4>1. ~overlap
        BY <3>2 DEF RunCallback, CallbacksDone, RunDispose
      <4>2. Disposing(d)
        BY <3>2 DEF RunCallback, CallbacksDone, RunDispose, Disposing
      <4> QED BY <4>1, <4>2 DEF SerialInv
    <3> QED BY <1>3, <3>1, <3>2
  <2>3. /\ \A c \in BootCall : (Live(c)' <=> Live(c)) /\ ~Busy(c)'
        /\ \A e \in DisposeCall \ {d} : ~Disposing(e)'
    BY <2>1, <2>2 DEF Busy, Done, Disposing
  <2>4. ASSUME \A x \in BootCall : ~Live(x)
        PROVE  Untouched' /\ (Disposing(d)' => Idle(d)')
    <3>1. Untouched /\ (Disposing(d) => Idle(d))
      BY <2>2, <2>4 DEF SerialInv
    <3>2. CASE BeginDispose(d)
      <4>1. Reverse(callbacks) = << >>
        BY <3>1 DEF Untouched, Reverse
      <4> QED BY <2>1, <3>1, <3>2, <4>1, Unwinds DEF Untouched, Idle
    <3>3. CASE RunCallback(d)
      <4>1. FALSE
        BY <3>1, <3>3 DEF RunCallback, Disposing, Idle
      <4> QED BY <4>1
    <3>4. CASE CallbacksDone(d)
      <4>1. disposals'[d].stage = "done"
        <5>1. NotYetDisposed(disposals[d].fns) = {}
          BY <3>1 DEF Untouched, NotYetDisposed
        <5> QED BY <3>4, <5>1, CallsEnd
      <4>2. registry' = << >> \/ registry' = registry
        BY <3>4, CallsEnd DEF ClearWhenDone
      <4>3. bootedPlugins' = << >>
        BY <3>1, <3>4, CallsEnd DEF ClearWhenDone, Untouched
      <4> QED BY <2>1, <3>1, <3>4, <4>1, <4>2, <4>3, CallsEnd DEF Untouched, Disposing
    <3>5. CASE RunDispose(d)
      <4>1. FALSE
        BY <3>1, <3>5 DEF RunDispose, Disposing, Idle
      <4> QED BY <4>1
    <3> QED BY <1>3, <3>2, <3>3, <3>4, <3>5
  <2>5. \A x, c \in BootCall : Live(x)' /\ Live(c)' => x = c
    BY <2>2, <2>3 DEF SerialInv
  <2>6. (\A x \in BootCall : ~Live(x)') =>
          Untouched' /\ \A y \in DisposeCall : Disposing(y)' => Idle(y)'
    <3>1. (\A x \in BootCall : ~Live(x)') => \A x \in BootCall : ~Live(x)
      BY <2>3
    <3>2. (\A x \in BootCall : ~Live(x)') => Untouched' /\ (Disposing(d)' => Idle(d)')
      BY <2>4, <3>1
    <3> QED BY <2>3, <3>2
  <2>7. \A x \in BootCall : ~Busy(x)'
    BY <2>3
  <2>8. \A y, e \in DisposeCall : Disposing(y)' /\ Disposing(e)' => y = e
    BY <2>3
  <2> QED BY <2>5, <2>6, <2>7, <2>8
<1>4. CASE UNCHANGED kernel
  <2>1. \A b \in BootCall : (Busy(b)' <=> Busy(b)) /\ (Done(b)' <=> Done(b))
    BY <1>4 DEF kernel, Busy, Done
  <2>2. \A d \in DisposeCall : (Disposing(d)' <=> Disposing(d)) /\ (Idle(d)' <=> Idle(d))
    BY <1>4 DEF kernel, Disposing, Idle
  <2>3. (Untouched' <=> Untouched) /\ overlap' = overlap /\ booted' = booted /\ ran' = ran
    BY <1>4 DEF kernel, Untouched
  <2> QED BY <2>1, <2>2, <2>3 DEF SerialInv
<1> QED BY <1>1, <1>2, <1>3, <1>4 DEF KernelNext

LEMMA EntryTypes ==
  ASSUME KernelTypes, NEW i \in Entries
  PROVE  profile[i].provides \in Seq(Service) /\ profile[i].inject \subseteq Service
<1>1. profile[i] \in ProfileSpec
  BY DEF KernelTypes, Entries
<1> QED BY <1>1 DEF ProfileSpec

LEMMA AppendRange ==
  ASSUME NEW X, NEW list \in Seq(X), NEW x \in X
  PROVE  ToSet(Append(list, x)) = ToSet(list) \cup {x}
<1>1. /\ \A i \in DOMAIN list : i \in DOMAIN Append(list, x) /\ Append(list, x)[i] = list[i]
      /\ Len(list) + 1 \in DOMAIN Append(list, x) /\ Append(list, x)[Len(list) + 1] = x
      /\ \A i \in DOMAIN Append(list, x) : i \in DOMAIN list \/ i = Len(list) + 1
  OBVIOUS
<1> QED BY <1>1 DEF ToSet

(* Who was tried, once a call of apply() begins. *)

LEMMA TriedNext ==
  ASSUME KernelTypes, NEW p \in Entries, NEW givers \in SUBSET Entries,
         attempted' = Append(attempted, [plugin |-> p, givers |-> givers])
  PROVE  Tried' = Tried \cup {p}
<1> DEFINE entry == [plugin |-> p, givers |-> givers]
<1>1. entry \in [plugin : Entries, givers : SUBSET Entries] /\ entry.plugin = p
  OBVIOUS
<1> HIDE DEF entry
<1>2. attempted \in Seq([plugin : Entries, givers : SUBSET Entries]) /\ attempted' = Append(attempted, entry)
  BY DEF KernelTypes, entry
<1>3. /\ \A i \in DOMAIN attempted : i \in DOMAIN attempted' /\ attempted'[i] = attempted[i]
      /\ Len(attempted) + 1 \in DOMAIN attempted' /\ attempted'[Len(attempted) + 1] = entry
      /\ \A i \in DOMAIN attempted' : i \in DOMAIN attempted \/ i = Len(attempted) + 1
  BY <1>1, <1>2
<1> QED BY <1>1, <1>3 DEF Tried

----
(* How a boot has sorted the plugins: those still waiting, those tried, which *)
(* came up or failed, and those it never could try.                           *)
Failures(b) == {i \in Entries : <<i, "apply">> \in boots[b].errors}
Unresolved(b) == {i \in Entries : <<i, "resolve">> \in boots[b].errors}
Unknown == {i \in Entries : profile[i].enabled /\ ~profile[i].known}

Sorted(b) ==
  /\ boots[b].pending \cup Tried = Loadable /\ boots[b].pending \cap Tried = {}
  /\ Tried = Came \cup Failures(b) \cup Current(b)
  /\ Came \cap Failures(b) = {} /\ Current(b) \cap (Came \cup Failures(b)) = {}
  /\ Unresolved(b) = Unknown \cup (IF Done(b) THEN boots[b].pending ELSE {})

(* Where the services are: all that a plugin tried was tried with, and all   *)
(* that one which came up offers; no others, and none at the end that could  *)
(* bring up one of those that wait.                                          *)
Supplied(b) ==
  /\ \A i \in Tried : profile[i].inject \subseteq DOMAIN registry
  /\ Done(b) => Ready(b) = {}
  /\ \A s \in DOMAIN registry : \E i \in Tried : s \in ToSet(profile[i].provides)
  /\ \A i \in Came : ToSet(profile[i].provides) \subseteq DOMAIN registry
  /\ boots[b].stage = "applying" =>
       \A k \in 1 .. boots[b].given : profile[boots[b].at].provides[k] \in DOMAIN registry

Reported == \A d \in DisposeCall : disposals[d].stage = "rest"
ReportsInv ==
  ~overlap => \A b \in BootCall : Busy(b) \/ (Done(b) /\ Reported) => Sorted(b) /\ Supplied(b)

(* A boot keeps its plugins sorted and their services supplied. *)

LEMMA SortedStep ==
  ASSUME KernelTypes, PlacesInv, SerialInv, NEW b \in BootCall, ~overlap',
         \/ BeginBoot(b) /\ ~booted
         \/ (StartApply(b) \/ Provide(b) \/ ApplyFails(b) \/ ApplyEnds(b) \/ BootEnds(b)) /\ Sorted(b) /\ Supplied(b)
  PROVE  Sorted(b)' /\ Supplied(b)'
<1>1. profile' = profile /\ Entries' = Entries /\ Loadable' = Loadable /\ Unknown' = Unknown
  <2>1. profile' = profile
    BY BootLeaves
  <2> QED BY <2>1 DEF Entries, Loadable, Unknown
<1>2. CASE BeginBoot(b) /\ ~booted
  <2>1. \A c \in BootCall : ~Busy(c) /\ ~Done(c)
    BY <1>2, Alone DEF BeginBoot, PlacesInv
  <2>2. Untouched /\ UNCHANGED <<registry, bootedPlugins, attempted>>
    BY <1>2, <2>1, Alone DEF BeginBoot, SerialInv
  <2>3. Tried' = {} /\ Came' = {} /\ DOMAIN registry' = {}
    BY <2>2 DEF Untouched, Tried, Came, ToSet
  <2>4. /\ boots'[b].stage = "scanning" /\ boots'[b].pending = Loadable
        /\ boots'[b].errors = {<<i, "resolve">> : i \in Unknown}
    BY <1>2, Begins DEF Unknown
  <2>5. Failures(b)' = {} /\ Unresolved(b)' = Unknown
    BY <1>1, <2>4 DEF Failures, Unresolved, Unknown
  <2>6. Current(b)' = {} /\ ~Done(b)'
    BY <2>4 DEF Current, Done
  <2> QED BY <1>1, <2>3, <2>4, <2>5, <2>6 DEF Sorted, Supplied
<1>3. CASE StartApply(b) /\ Sorted(b) /\ Supplied(b)
  <2>1. PICK p \in Entries :
          /\ boots[b].stage = "scanning"
          /\ p \in boots[b].pending /\ profile[p].inject \subseteq DOMAIN registry
          /\ boots'[b].stage = "applying" /\ boots'[b].at = p /\ boots'[b].given = 0
          /\ boots'[b].pending = boots[b].pending \ {p} /\ boots'[b].errors = boots[b].errors
          /\ attempted' = Append(attempted, [plugin |-> p, givers |-> {registry[s] : s \in profile[p].inject}])
    BY <1>3, Starts
  <2>2. registry' = registry /\ Came' = Came
    BY <1>3 DEF StartApply, Came
  <2>3. Tried' = Tried \cup {p}
    <3>1. {registry[s] : s \in profile[p].inject} \in SUBSET Entries
      BY <2>1 DEF KernelTypes
    <3> QED BY <2>1, <3>1, TriedNext
  <2>4. Failures(b)' = Failures(b) /\ Unresolved(b)' = Unresolved(b)
    BY <1>1, <2>1 DEF Failures, Unresolved
  <2>5. Current(b) = {} /\ Current(b)' = {p} /\ ~Done(b) /\ ~Done(b)'
    BY <2>1 DEF Current, Done
  <2>6. Sorted(b)'
    BY <1>1, <1>3, <2>1, <2>2, <2>3, <2>4, <2>5 DEF Sorted
  <2>7. Supplied(b)'
    BY <1>1, <1>3, <2>1, <2>2, <2>3, <2>5 DEF Supplied
  <2> QED BY <2>6, <2>7
<1>4. ASSUME Thrown(b), UNCHANGED <<bootedPlugins, attempted>>, Sorted(b), Supplied(b)
      PROVE  Sorted(b)' /\ Supplied(b)'
  <2>1. registry' = registry /\ Came' = Came /\ Tried' = Tried
    BY <1>4 DEF Thrown, Came, Tried
  <2>2. boots[b].at \in Entries
    BY <1>4 DEF Thrown, PlacesInv
  <2>3. Failures(b)' = Failures(b) \cup {boots[b].at} /\ Unresolved(b)' = Unresolved(b)
    BY <1>1, <1>4, <2>2 DEF Failures, Unresolved, Thrown
  <2>4. Current(b) = {boots[b].at} /\ Current(b)' = {} /\ ~Done(b) /\ ~Done(b)'
    BY <1>4 DEF Current, Done, Thrown
  <2>5. boots'[b].pending = boots[b].pending /\ boots'[b].stage = "scanning"
    BY <1>4 DEF Thrown
  <2>6. Sorted(b)'
    BY <1>1, <1>4, <2>1, <2>3, <2>4, <2>5 DEF Sorted
  <2>7. Supplied(b)'
    BY <1>1, <1>4, <2>1, <2>4, <2>5 DEF Supplied
  <2> QED BY <2>6, <2>7
<1>5. CASE Provide(b) /\ Sorted(b) /\ Supplied(b)
  <2>1. CASE Thrown(b)
    BY <1>4, <1>5, <2>1, Gives
  <2>2. CASE ~Thrown(b)
    <3> DEFINE at == boots[b].at
               s == profile[at].provides[boots[b].given + 1]
    <3>1. /\ boots[b].stage = "applying" /\ boots'[b].stage = "applying"
          /\ boots[b].given < Len(profile[at].provides)
          /\ boots'[b].at = at /\ boots'[b].given = boots[b].given + 1
          /\ boots'[b].pending = boots[b].pending /\ boots'[b].errors = boots[b].errors
          /\ registry' = [x \in DOMAIN registry \cup {s} |-> IF x = s THEN at ELSE registry[x]]
          /\ UNCHANGED <<bootedPlugins, attempted>>
      BY <1>5, <2>2, Gives
    <3>2. at \in Entries /\ boots[b].given \in Nat /\ profile[at].provides \in Seq(Service)
      <4>1. at \in Entries
        BY <3>1 DEF PlacesInv
      <4>2. boots[b].given \in Nat
        BY <3>1, LoadingBoot DEF Busy, Loading
      <4> QED BY <4>1, <4>2, EntryTypes
    <3>3. s \in ToSet(profile[at].provides)
      BY <3>1, <3>2 DEF ToSet
    <3>4. DOMAIN registry' = DOMAIN registry \cup {s}
      BY <3>1
    <3>5. Came' = Came /\ Tried' = Tried
      BY <3>1 DEF Came, Tried
    <3>6. Failures(b)' = Failures(b) /\ Unresolved(b)' = Unresolved(b)
      BY <1>1, <3>1 DEF Failures, Unresolved
    <3>7. Current(b)' = Current(b) /\ Current(b) = {at} /\ ~Done(b) /\ ~Done(b)'
      BY <3>1 DEF Current, Done
    <3>8. Sorted(b)'
      BY <1>1, <1>5, <3>1, <3>5, <3>6, <3>7 DEF Sorted
    <3>9. \A k \in 1 .. boots'[b].given : profile[at].provides[k] \in DOMAIN registry'
      <4>1. \A k \in 1 .. boots'[b].given : k \in 1 .. boots[b].given \/ k = boots[b].given + 1
        BY <3>1, <3>2
      <4> QED BY <1>5, <3>1, <3>4, <4>1 DEF Supplied
    <3>10. at \in Tried
      BY <1>5, <3>7 DEF Sorted
    <3> HIDE DEF s
    <3>11. Supplied(b)'
      BY <1>1, <1>5, <3>1, <3>3, <3>4, <3>5, <3>7, <3>9, <3>10 DEF Supplied
    <3> QED BY <3>8, <3>11
  <2> QED BY <2>1, <2>2
<1>6. CASE ApplyFails(b) /\ Sorted(b) /\ Supplied(b)
  BY <1>4, <1>6, Fails
<1>7. CASE ApplyEnds(b) /\ Sorted(b) /\ Supplied(b)
  <2> DEFINE at == boots[b].at
  <2>1. /\ boots[b].stage = "applying" /\ boots'[b].stage = "scanning"
        /\ boots[b].given = Len(profile[at].provides)
        /\ boots'[b].pending = boots[b].pending /\ boots'[b].errors = boots[b].errors
        /\ bootedPlugins' = Append(bootedPlugins, at) /\ UNCHANGED <<registry, attempted>>
    BY <1>7, Applies DEF ApplyEnds
  <2>2. at \in Entries /\ profile[at].provides \in Seq(Service)
    <3>1. at \in Entries
      BY <2>1 DEF PlacesInv
    <3> QED BY <3>1, EntryTypes
  <2>3. Came' = Came \cup {at} /\ Tried' = Tried
    <3>1. Came' = Came \cup {at}
      BY <2>1, <2>2, AppendRange DEF Came, KernelTypes
    <3> QED BY <2>1, <3>1 DEF Tried
  <2>4. Failures(b)' = Failures(b) /\ Unresolved(b)' = Unresolved(b)
    BY <1>1, <2>1 DEF Failures, Unresolved
  <2>5. Current(b) = {at} /\ Current(b)' = {} /\ ~Done(b) /\ ~Done(b)'
    BY <2>1 DEF Current, Done
  <2>6. ToSet(profile[at].provides) \subseteq DOMAIN registry
    BY <1>7, <2>1, <2>2 DEF Supplied, ToSet
  <2> HIDE DEF at
  <2>7. Sorted(b)'
    BY <1>1, <1>7, <2>1, <2>3, <2>4, <2>5 DEF Sorted
  <2>8. Supplied(b)'
    BY <1>1, <1>7, <2>1, <2>3, <2>5, <2>6 DEF Supplied
  <2> QED BY <2>7, <2>8
<1>8. CASE BootEnds(b) /\ Sorted(b) /\ Supplied(b)
  <2>1. /\ boots[b].stage = "scanning" /\ boots'[b].stage = "done"
        /\ boots'[b].pending = boots[b].pending
        /\ boots'[b].errors = boots[b].errors \cup {<<i, "resolve">> : i \in boots[b].pending}
        /\ UNCHANGED <<registry, bootedPlugins, attempted>> /\ Ready(b) = {}
    BY <1>8, Ends DEF BootEnds
  <2>2. Came' = Came /\ Tried' = Tried
    BY <2>1 DEF Came, Tried
  <2>3. boots[b].pending \subseteq Entries
    BY <1>8 DEF Sorted, Loadable
  <2>4. Failures(b)' = Failures(b) /\ Unresolved(b)' = Unresolved(b) \cup boots[b].pending
    BY <1>1, <2>1, <2>3 DEF Failures, Unresolved
  <2>5. Current(b) = {} /\ Current(b)' = {} /\ ~Done(b) /\ Done(b)'
    BY <2>1 DEF Current, Done
  <2>6. Ready(b)' = {}
    BY <1>1, <2>1 DEF Ready
  <2>7. Sorted(b)'
    BY <1>1, <1>8, <2>1, <2>2, <2>4, <2>5 DEF Sorted
  <2>8. Supplied(b)'
    BY <1>1, <1>8, <2>1, <2>2, <2>5, <2>6 DEF Supplied
  <2> QED BY <2>7, <2>8
<1> QED BY <1>2, <1>3, <1>5, <1>6, <1>7, <1>8

(* Every step keeps what a boot has reported. *)
LEMMA ReportsStep ==
  ASSUME KernelTypes, PlacesInv, SerialInv, ReportsInv, [KernelNext]_kernel
  PROVE  ReportsInv'
<1> SUFFICES ASSUME ~overlap', NEW b \in BootCall, Busy(b)' \/ (Done(b)' /\ Reported')
             PROVE  Sorted(b)' /\ Supplied(b)'
  BY DEF ReportsInv
<1>1. ASSUME NEW c \in BootCall,
             \/ BeginBoot(c) \/ StartApply(c) \/ Provide(c) \/ ApplyFails(c) \/ ApplyEnds(c) \/ BootEnds(c)
      PROVE  Sorted(b)' /\ Supplied(b)'
  <2>1. (\A x \in BootCall \ {c} : boots'[x] = boots[x]) /\ disposals' = disposals
    BY <1>1, BootLeaves
  <2>2. ~overlap
    <3>1. CASE BeginBoot(c)
      BY <3>1, Alone DEF BeginBoot
    <3>2. CASE ~BeginBoot(c)
      BY <1>1, <3>2 DEF StartApply, Provide, ApplyFails, ApplyEnds, BootEnds
    <3> QED BY <3>1, <3>2
  <2>3. CASE StartApply(c) \/ Provide(c) \/ ApplyFails(c) \/ ApplyEnds(c) \/ BootEnds(c)
    <3>1. Busy(c)
      BY <2>3 DEF StartApply, Provide, ApplyFails, ApplyEnds, BootEnds, Busy
    <3>2. b = c
      <4>1. CASE b # c
        <5>1. Busy(b) \/ Done(b)
          BY <2>1, <4>1 DEF Busy, Done
        <5> QED BY <2>2, <3>1, <5>1 DEF SerialInv
      <4> QED BY <4>1
    <3>3. Sorted(c) /\ Supplied(c)
      BY <2>2, <3>1 DEF ReportsInv
    <3> QED BY <2>3, <3>2, <3>3, SortedStep
  <2>4. CASE BeginBoot(c) /\ ~booted
    <3>1. \A x \in BootCall : ~Busy(x) /\ ~Done(x)
      BY <2>4, Alone DEF BeginBoot, PlacesInv
    <3>2. b = c
      BY <2>1, <3>1 DEF Busy, Done
    <3> QED BY <2>4, <3>2, SortedStep
  <2>5. CASE BeginBoot(c) /\ booted
    <3>1. b # c
      BY <2>5, Begins DEF Busy, Done
    <3>2. Busy(b) \/ (Done(b) /\ Reported)
      BY <2>1, <3>1 DEF Busy, Done, Reported
    <3>3. Sorted(b) /\ Supplied(b)
      BY <2>2, <3>2 DEF ReportsInv
    <3>4. boots'[b] = boots[b] /\ UNCHANGED <<profile, registry, bootedPlugins, attempted>>
      BY <2>1, <2>5, <3>1 DEF BeginBoot
    <3> QED BY <3>3, <3>4
         DEF Sorted, Supplied, Tried, Came, Failures, Current, Unresolved, Unknown, Done, Ready, Loadable, Entries
  <2> QED BY <1>1, <2>3, <2>4, <2>5
<1>2. ASSUME NEW d \in DisposeCall,
             BeginDispose(d) \/ RunCallback(d) \/ CallbacksDone(d) \/ RunDispose(d)
      PROVE  FALSE
  <2>1. boots' = boots
    BY <1>2, DisposalLeaves
  <2>2. CASE Busy(b)'
    <3>1. Busy(b)
      BY <2>1, <2>2 DEF Busy
    <3>2. CASE BeginDispose(d)
      BY <3>1, <3>2, Alone DEF BeginDispose
    <3>3. CASE RunCallback(d) \/ CallbacksDone(d) \/ RunDispose(d)
      <4>1. ~overlap
        BY <3>3 DEF RunCallback, CallbacksDone, RunDispose
      <4>2. Disposing(d)
        BY <3>3 DEF RunCallback, CallbacksDone, RunDispose, Disposing
      <4> QED BY <3>1, <4>1, <4>2 DEF SerialInv
    <3> QED BY <1>2, <3>2, <3>3
  <2>3. CASE Reported'
    <3>1. disposals'[d].stage = "rest"
      BY <2>3 DEF Reported
    <3>2. CASE BeginDispose(d)
      BY <3>1, <3>2, Unwinds
    <3>3. CASE RunCallback(d)
      BY <3>1, <3>3, Calls
    <3>4. CASE CallbacksDone(d)
      BY <3>1, <3>4, CallsEnd
    <3>5. CASE RunDispose(d)
      BY <3>1, <3>5, Disposes
    <3> QED BY <1>2, <3>2, <3>3, <3>4, <3>5
  <2> QED BY <2>2, <2>3
<1>3. CASE UNCHANGED kernel
  <2>1. Sorted(b) /\ Supplied(b)
    BY <1>3 DEF kernel, ReportsInv, Busy, Done, Reported
  <2> QED BY <1>3, <2>1
       DEF kernel, Sorted, Supplied, Tried, Came, Failures, Current, Unresolved, Unknown, Done, Ready, Loadable, Entries
<1> QED BY <1>1, <1>2, <1>3 DEF KernelNext

(* A boot that ended undisturbed has reached what it could. *)

LEMMA ReportIsComplete ==
  ASSUME KernelTypes, ReportsInv
  PROVE  BootReachesAll
<1> SUFFICES ASSUME NEW b \in BootCall, boots[b].stage = "done", ~overlap,
                    \A d \in DisposeCall : disposals[d].stage = "rest"
             PROVE  LET enabled == {i \in DOMAIN profile : profile[i].enabled}
                        offers(i) == ToSet(profile[i].provides)
                    IN  /\ Tried = {i \in enabled : profile[i].known /\ profile[i].inject \subseteq DOMAIN registry}
                        /\ enabled \ ToSet(bootedPlugins) = {e[1] : e \in boots[b].errors}
                        /\ (\A i \in Tried : <<i, "apply">> \notin boots[b].errors)
                             => DOMAIN registry = UNION {offers(i) : i \in Tried}
  BY DEF BootReachesAll
<1> DEFINE enabled == {i \in DOMAIN profile : profile[i].enabled}
           offers(i) == ToSet(profile[i].provides)
<1>1. Sorted(b) /\ Supplied(b) /\ Done(b)
  BY DEF ReportsInv, Reported, Done
<1>2. Current(b) = {} /\ boots[b] \in Loading
  BY <1>1, LoadingBoot DEF Current
<1>3. Tried = {i \in enabled : profile[i].known /\ profile[i].inject \subseteq DOMAIN registry}
  <2>1. Tried \subseteq Loadable
    BY <1>1 DEF Sorted
  <2>2. \A i \in Loadable : profile[i].inject \subseteq DOMAIN registry => i \in Tried
    BY <1>1 DEF Sorted, Supplied, Ready
  <2> QED BY <1>1, <2>1, <2>2 DEF Supplied, Loadable, Entries
<1>4. enabled \ Came = {e[1] : e \in boots[b].errors}
  <2>1. {e[1] : e \in boots[b].errors} = Failures(b) \cup Unresolved(b)
    <3>1. boots[b].errors \subseteq Entries \X {"resolve", "apply"}
      BY <1>2 DEF Loading
    <3> QED BY <3>1 DEF Failures, Unresolved
  <2>2. enabled = Loadable \cup Unknown /\ Loadable \cap Unknown = {}
    BY DEF Loadable, Unknown, Entries
  <2>3. Unresolved(b) = Unknown \cup boots[b].pending
    BY <1>1 DEF Sorted
  <2> QED BY <1>1, <1>2, <2>1, <2>2, <2>3 DEF Sorted
<1>5. ASSUME \A i \in Tried : <<i, "apply">> \notin boots[b].errors
      PROVE  DOMAIN registry = UNION {offers(i) : i \in Tried}
  <2>1. Tried = Came
    BY <1>1, <1>2, <1>5 DEF Sorted, Failures
  <2> QED BY <1>1, <2>1 DEF Supplied
<1> QED BY <1>3, <1>4, <1>5 DEF Came
----
(* The callbacks that ran and, behind them, those still to run. *)
Owed ==
  IF \E d \in DisposeCall : Disposing(d)
  THEN ran \o disposals[CHOOSE d \in DisposeCall : Disposing(d)].left
  ELSE ran \o Reverse(callbacks)

(* None twice, and each before those whose services it was given. *)
InTurn(list) ==
  /\ \A i, j \in DOMAIN list : list[i] = list[j] => i = j
  /\ \A i, j \in DOMAIN list : Gave(list[j].plugin, list[i].plugin) => i < j
  /\ \A i \in DOMAIN list : list[i].plugin \in Tried

(* The dispose() of p, if it has one, is on the list. *)
Within(p, list) == profile[p].dispose => \E i \in DOMAIN list : list[i] = Callback(p, "dispose")

(* The log of what was tried: each once, after all it was given services by. *)
Once(log) == \A i, j \in DOMAIN log : log[i].plugin = log[j].plugin => i = j
Backwards(log) ==
  \A i \in DOMAIN log : \A q \in log[i].givers : \E k \in DOMAIN log : k < i /\ log[k].plugin = q

(* Whoever owns a service was tried, and the last one tried is in its apply(). *)
OwnersInv ==
  ~overlap =>
    /\ Once(attempted) /\ Backwards(attempted)
    /\ \A s \in DOMAIN registry : registry[s] \in Tried
    /\ \A b \in BootCall : boots[b].stage = "applying" =>
         attempted # << >> /\ attempted[Len(attempted)].plugin = boots[b].at

(* What came up has its dispose() among the callbacks, or among those a       *)
(* disposal took; so that no disposal has plugins left to dispose of by name. *)
CleanupInv ==
  ~overlap =>
    /\ \A b \in BootCall : Busy(b) =>
         \A i \in DOMAIN callbacks : callbacks[i].kind = "dispose" => callbacks[i].plugin \in Came
    /\ (\A d \in DisposeCall : ~Disposing(d)) => \A p \in Came : Within(p, callbacks)
    /\ \A d \in DisposeCall : Disposing(d) =>
         /\ disposals[d].stage = "callbacks" /\ callbacks = << >>
         /\ \A p \in Came : Within(p, disposals[d].fns)

(* No callback is left to run. *)
Drained == callbacks = << >> /\ \A d \in DisposeCall : Disposing(d) => disposals[d].left = << >>
Well(b) == {p \in Tried : <<p, "apply">> \notin boots[b].errors}

(* What is owed is in turn, and nothing that came up is forgotten: while       *)
(* something is left to run, the kernel still knows what it booted.           *)
OrderInv ==
  ~overlap =>
    /\ InTurn(Owed)
    /\ \A b \in BootCall : Done(b) => (\A p \in Well(b) : Within(p, Owed)) /\ (Well(b) = Came \/ Drained)

(* Lists that grow at one end and are taken from at the other. *)

LEMMA PushReverse ==
  ASSUME NEW X, NEW list \in Seq(X), NEW x \in X
  PROVE  Reverse(Append(list, x)) = <<x>> \o Reverse(list)
<1> DEFINE n == Len(list)
           l == Reverse(Append(list, x))
           r == <<x>> \o Reverse(list)
<1>1. Reverse(list) \in Seq(X) /\ Len(Reverse(list)) = n /\ \A i \in 1 .. n : Reverse(list)[i] = list[n - i + 1]
  BY DEF Reverse
<1>2. r \in Seq(X) /\ Len(r) = n + 1 /\ r[1] = x /\ \A i \in 2 .. n + 1 : r[i] = list[n - i + 2]
  <2> HIDE DEF n
  <2>1. n \in Nat
    BY DEF n
  <2>2. r \in Seq(X) /\ Len(r) = n + 1 /\ r[1] = x /\ \A i \in 2 .. n + 1 : r[i] = Reverse(list)[i - 1]
    BY <1>1, <2>1
  <2>3. \A i \in 2 .. n + 1 : i - 1 \in 1 .. n /\ n - (i - 1) + 1 = n - i + 2
    BY <2>1
  <2> QED BY <1>1, <2>2, <2>3
<1>3. l \in Seq(X) /\ Len(l) = n + 1 /\ \A i \in 1 .. n + 1 : l[i] = Append(list, x)[n + 1 - i + 1]
  BY DEF Reverse
<1>4. \A i \in 2 .. n + 1 : n + 1 - i + 1 \in 1 .. n /\ n + 1 - i + 1 = n - i + 2
  OBVIOUS
<1>5. \A i \in 1 .. n + 1 : l[i] = r[i]
  <2>1. l[1] = x
    BY <1>3
  <2>2. \A i \in 2 .. n + 1 : l[i] = list[n - i + 2]
    BY <1>3, <1>4
  <2> QED BY <1>2, <2>1, <2>2
<1> HIDE DEF l, r
<1>6. l = r
  BY <1>2, <1>3, <1>5
<1> QED BY <1>6 DEF l, r

LEMMA MoveHead ==
  ASSUME NEW X, NEW front \in Seq(X), NEW list \in Seq(X), list # << >>
  PROVE  Append(front, Head(list)) \o Tail(list) = front \o list
<1> DEFINE l == Append(front, Head(list)) \o Tail(list)
           r == front \o list
<1>1. Len(list) \in Nat \ {0} /\ Head(list) = list[1] /\ Head(list) \in X /\ Tail(list) \in Seq(X)
      /\ Len(Tail(list)) = Len(list) - 1 /\ \A i \in 1 .. Len(list) - 1 : Tail(list)[i] = list[i + 1]
  OBVIOUS
<1>2. l \in Seq(X) /\ Len(l) = Len(front) + Len(list)
      /\ (\A i \in 1 .. Len(front) : l[i] = front[i]) /\ l[Len(front) + 1] = list[1]
      /\ \A i \in Len(front) + 2 .. Len(front) + Len(list) : l[i] = list[i - Len(front)]
  <2> DEFINE a == Append(front, Head(list))
  <2>1. a \in Seq(X) /\ Len(a) = Len(front) + 1 /\ a[Len(front) + 1] = list[1]
        /\ \A i \in 1 .. Len(front) : a[i] = front[i]
    BY <1>1
  <2> HIDE DEF a
  <2>2. (a \o Tail(list)) \in Seq(X) /\ Len(a \o Tail(list)) = Len(front) + Len(list)
        /\ (\A i \in 1 .. Len(a) : (a \o Tail(list))[i] = a[i])
        /\ \A i \in Len(a) + 1 .. Len(front) + Len(list) : (a \o Tail(list))[i] = Tail(list)[i - Len(a)]
    BY <1>1, <2>1
  <2>3. \A i \in Len(front) + 2 .. Len(front) + Len(list) :
           i - Len(a) \in 1 .. Len(list) - 1 /\ i - Len(a) + 1 = i - Len(front)
    BY <1>1, <2>1
  <2>4. l = a \o Tail(list)
    BY DEF a
  <2> HIDE DEF l
  <2> QED BY <1>1, <2>1, <2>2, <2>3, <2>4
<1>3. r \in Seq(X) /\ Len(r) = Len(front) + Len(list)
      /\ (\A i \in 1 .. Len(front) : r[i] = front[i])
      /\ \A i \in Len(front) + 1 .. Len(front) + Len(list) : r[i] = list[i - Len(front)]
  OBVIOUS
<1> HIDE DEF l, r
<1>4. \A i \in 1 .. Len(front) + Len(list) : l[i] = r[i]
  BY <1>1, <1>2, <1>3
<1>5. l = r
  BY <1>2, <1>3, <1>4
<1> QED BY <1>5 DEF l, r
(* The steps of one call. *)
BootStep(b) ==
  \/ BeginBoot(b) \/ StartApply(b) \/ Provide(b) \/ ApplyFails(b) \/ ApplyEnds(b) \/ BootEnds(b)
DisposalStep(d) == BeginDispose(d) \/ RunCallback(d) \/ CallbacksDone(d) \/ RunDispose(d)

(* An overlap is not forgotten. *)

LEMMA StillSerial ==
  ASSUME [KernelNext]_kernel, ~overlap'
  PROVE  ~overlap
<1>1. ASSUME NEW b \in BootCall, BeginBoot(b) PROVE ~overlap
  BY <1>1, Alone DEF BeginBoot
<1>2. ASSUME NEW d \in DisposeCall, BeginDispose(d) PROVE ~overlap
  BY <1>2, Alone DEF BeginDispose
<1>3. ASSUME NEW b \in BootCall,
             StartApply(b) \/ Provide(b) \/ ApplyFails(b) \/ ApplyEnds(b) \/ BootEnds(b)
      PROVE  ~overlap
  BY <1>3 DEF StartApply, Provide, ApplyFails, ApplyEnds, BootEnds
<1>4. ASSUME NEW d \in DisposeCall, RunCallback(d) \/ CallbacksDone(d) \/ RunDispose(d)
      PROVE  ~overlap
  BY <1>4 DEF RunCallback, CallbacksDone, RunDispose
<1>5. CASE UNCHANGED kernel
  BY <1>5 DEF kernel
<1> QED BY <1>1, <1>2, <1>3, <1>4, <1>5 DEF KernelNext

(* One more plugin is tried, and what it injects was given by earlier ones. *)

LEMMA LogGrows ==
  ASSUME KernelTypes, NEW p \in Entries, NEW givers \in SUBSET Tried, p \notin Tried,
         Once(attempted), Backwards(attempted),
         attempted' = Append(attempted, [plugin |-> p, givers |-> givers])
  PROVE  /\ Once(attempted') /\ Backwards(attempted')
         /\ attempted' # << >> /\ attempted'[Len(attempted')].plugin = p
<1> DEFINE entry == [plugin |-> p, givers |-> givers]
           n == Len(attempted)
<1>1. entry.plugin = p /\ entry.givers = givers
  OBVIOUS
<1>2. Tried \subseteq Entries
  <2> DEFINE R == [plugin : Entries, givers : SUBSET Entries]
  <2>1. attempted \in Seq(R) /\ \A r \in R : r.plugin \in Entries
    BY DEF KernelTypes
  <2> HIDE DEF R
  <2>2. \A i \in DOMAIN attempted : attempted[i] \in R
    BY <2>1
  <2> QED BY <2>1, <2>2 DEF Tried
<1>3. entry \in [plugin : Entries, givers : SUBSET Entries]
  BY <1>2
<1> HIDE DEF entry
<1>4. attempted \in Seq([plugin : Entries, givers : SUBSET Entries]) /\ attempted' = Append(attempted, entry)
  BY DEF KernelTypes, entry
<1>5. /\ n \in Nat /\ DOMAIN attempted = 1 .. n /\ DOMAIN attempted' = 1 .. n + 1 /\ Len(attempted') = n + 1
      /\ \A i \in 1 .. n : attempted'[i] = attempted[i]
      /\ attempted'[n + 1] = entry
  BY <1>3, <1>4
<1> HIDE DEF n
<1>6. \A i \in 1 .. n : attempted[i].plugin # p
  BY <1>5 DEF Tried
<1>7. Once(attempted')
  <2>1. \A i \in 1 .. n + 1 : i \in 1 .. n \/ i = n + 1
    BY <1>5
  <2> QED BY <1>1, <1>5, <1>6, <2>1 DEF Once
<1>8. Backwards(attempted')
  <2>1. SUFFICES ASSUME NEW i \in 1 .. n + 1, NEW q \in attempted'[i].givers
                 PROVE  \E k \in 1 .. n + 1 : k < i /\ attempted'[k].plugin = q
    BY <1>5 DEF Backwards
  <2>2. CASE i \in 1 .. n
    <3>1. PICK k \in 1 .. n : k < i /\ attempted[k].plugin = q
      BY <1>5, <2>2 DEF Backwards
    <3> QED BY <1>5, <3>1
  <2>3. CASE i = n + 1
    <3>1. PICK k \in 1 .. n : attempted[k].plugin = q
      BY <1>1, <1>5, <2>3 DEF Tried
    <3> QED BY <1>5, <2>3, <3>1
  <2> QED BY <1>5, <2>2, <2>3
<1> QED BY <1>1, <1>5, <1>7, <1>8

(* The log and the registry agree after every step. *)

LEMMA OwnersStep ==
  ASSUME KernelTypes, PlacesInv, SerialInv, ReportsInv, OwnersInv, [KernelNext]_kernel
  PROVE  OwnersInv'
<1> SUFFICES ASSUME ~overlap'
             PROVE  /\ Once(attempted)' /\ Backwards(attempted)'
                    /\ \A s \in DOMAIN registry' : registry'[s] \in Tried'
                    /\ \A b \in BootCall : boots'[b].stage = "applying" =>
                         attempted' # << >> /\ attempted'[Len(attempted')].plugin = boots'[b].at
  BY DEF OwnersInv
<1>0. ~overlap
  BY StillSerial
<1>1. /\ Once(attempted) /\ Backwards(attempted)
      /\ \A s \in DOMAIN registry : registry[s] \in Tried
      /\ \A b \in BootCall : boots[b].stage = "applying" =>
           attempted # << >> /\ attempted[Len(attempted)].plugin = boots[b].at
  BY <1>0 DEF OwnersInv
<1>2. ASSUME NEW b \in BootCall, StartApply(b)
      PROVE  /\ Once(attempted)' /\ Backwards(attempted)'
             /\ \A s \in DOMAIN registry' : registry'[s] \in Tried'
             /\ \A c \in BootCall : boots'[c].stage = "applying" =>
                  attempted' # << >> /\ attempted'[Len(attempted')].plugin = boots'[c].at
  <2>1. Busy(b)
    BY <1>2 DEF StartApply, Busy
  <2>2. Sorted(b)
    BY <1>0, <2>1 DEF ReportsInv
  <2>3. PICK p \in Entries :
          /\ p \in boots[b].pending /\ profile[p].inject \subseteq DOMAIN registry
          /\ boots'[b].stage = "applying" /\ boots'[b].at = p
          /\ attempted' = Append(attempted, [plugin |-> p, givers |-> {registry[s] : s \in profile[p].inject}])
    BY <1>2, Starts
  <2>4. {registry[s] : s \in profile[p].inject} \in SUBSET Tried
    BY <1>1, <2>3
  <2>5. p \notin Tried /\ Tried \subseteq Entries
    BY <2>2, <2>3 DEF Sorted, Loadable
  <2> HIDE DEF Tried
  <2>6. /\ Once(attempted') /\ Backwards(attempted')
        /\ attempted' # << >> /\ attempted'[Len(attempted')].plugin = p
    BY <1>1, <2>3, <2>4, <2>5, LogGrows
  <2>7. Tried' = Tried \cup {p}
    BY <2>3, <2>4, <2>5, TriedNext
  <2>8. \A c \in BootCall \ {b} : boots'[c].stage # "applying"
    <3>1. \A c \in BootCall \ {b} : boots'[c] = boots[c]
      BY <1>2, BootLeaves
    <3> QED BY <1>0, <2>1, <3>1 DEF SerialInv, Busy
  <2>9. registry' = registry
    BY <1>2 DEF StartApply
  <2> QED BY <1>1, <2>3, <2>6, <2>7, <2>8, <2>9
<1>3. ASSUME NEW b \in BootCall, Provide(b)
      PROVE  /\ Once(attempted)' /\ Backwards(attempted)'
             /\ \A s \in DOMAIN registry' : registry'[s] \in Tried'
             /\ \A c \in BootCall : boots'[c].stage = "applying" =>
                  attempted' # << >> /\ attempted'[Len(attempted')].plugin = boots'[c].at
  <2>1. attempted' = attempted /\ Tried' = Tried
    BY <1>3 DEF Provide, Tried
  <2>2. \A c \in BootCall \ {b} : boots'[c] = boots[c]
    BY <1>3, BootLeaves
  <2>3. boots[b].stage = "applying" /\ (boots'[b].stage = "applying" => boots'[b].at = boots[b].at)
    BY <1>3, Gives DEF Thrown
  <2>4. boots[b].at \in Tried
    <3>1. attempted # << >> /\ attempted[Len(attempted)].plugin = boots[b].at
      BY <1>1, <2>3
    <3>2. Len(attempted) \in DOMAIN attempted
      BY <3>1 DEF KernelTypes
    <3> QED BY <3>1, <3>2 DEF Tried
  <2>5. \A s \in DOMAIN registry' : registry'[s] = boots[b].at \/ (s \in DOMAIN registry /\ registry'[s] = registry[s])
    <3>1. CASE Thrown(b)
      BY <3>1 DEF Thrown
    <3>2. CASE ~Thrown(b)
      <4> DEFINE given == profile[boots[b].at].provides[boots[b].given + 1]
      <4>1. registry' = [x \in DOMAIN registry \cup {given} |-> IF x = given THEN boots[b].at ELSE registry[x]]
        BY <1>3, <3>2, Gives
      <4> HIDE DEF given
      <4> QED BY <4>1
    <3> QED BY <3>1, <3>2
  <2> QED BY <1>1, <2>1, <2>2, <2>3, <2>4, <2>5
<1>4. ASSUME NEW b \in BootCall, BeginBoot(b) \/ ApplyFails(b) \/ ApplyEnds(b) \/ BootEnds(b)
      PROVE  /\ Once(attempted)' /\ Backwards(attempted)'
             /\ \A s \in DOMAIN registry' : registry'[s] \in Tried'
             /\ \A c \in BootCall : boots'[c].stage = "applying" =>
                  attempted' # << >> /\ attempted'[Len(attempted')].plugin = boots'[c].at
  <2>1. attempted' = attempted /\ registry' = registry
    BY <1>4 DEF BeginBoot, ApplyFails, ApplyEnds, BootEnds
  <2>2. \A c \in BootCall \ {b} : boots'[c] = boots[c]
    BY <1>4, BootLeaves
  <2>3. boots'[b].stage # "applying"
    <3>1. CASE BeginBoot(b)
      BY <3>1, Begins
    <3>2. CASE ApplyFails(b)
      BY <3>2, Fails DEF Thrown
    <3>3. CASE ApplyEnds(b)
      BY <3>3, Applies
    <3>4. CASE BootEnds(b)
      BY <3>4, Ends
    <3> QED BY <1>4, <3>1, <3>2, <3>3, <3>4
  <2> QED BY <1>1, <2>1, <2>2, <2>3 DEF Tried
<1>5. ASSUME NEW d \in DisposeCall, DisposalStep(d)
      PROVE  /\ Once(attempted)' /\ Backwards(attempted)'
             /\ \A s \in DOMAIN registry' : registry'[s] \in Tried'
             /\ \A c \in BootCall : boots'[c].stage = "applying" =>
                  attempted' # << >> /\ attempted'[Len(attempted')].plugin = boots'[c].at
  <2>1. attempted' = attempted /\ boots' = boots
    BY <1>5, DisposalLeaves DEF DisposalStep
  <2>2. registry' = registry \/ registry' = << >>
    BY <1>5 DEF DisposalStep, BeginDispose, RunCallback, CallbacksDone, RunDispose, ClearWhenDone
  <2> QED BY <1>1, <2>1, <2>2 DEF Tried
<1>6. CASE UNCHANGED kernel
  BY <1>1, <1>6 DEF kernel, Tried
<1> QED BY <1>2, <1>3, <1>4, <1>5, <1>6 DEF KernelNext, DisposalStep

LEMMA WithinAppend ==
  ASSUME NEW list \in Seq(Registered), NEW c \in Registered, NEW p
  PROVE  /\ Within(p, list) => Within(p, Append(list, c))
         /\ c = Callback(p, "dispose") => Within(p, Append(list, c))
<1>1. /\ \A i \in DOMAIN list : i \in DOMAIN Append(list, c) /\ Append(list, c)[i] = list[i]
      /\ Len(list) + 1 \in DOMAIN Append(list, c) /\ Append(list, c)[Len(list) + 1] = c
  OBVIOUS
<1> QED BY <1>1 DEF Within

LEMMA WithinReverse ==
  ASSUME NEW list \in Seq(Registered), NEW p, Within(p, list)
  PROVE  Within(p, Reverse(list))
<1>1. \A i \in DOMAIN list : Len(list) - i + 1 \in DOMAIN Reverse(list) /\ Reverse(list)[Len(list) - i + 1] = list[i]
  BY DEF Reverse
<1> QED BY <1>1 DEF Within

(* What came up is told to go, whatever the step. *)

LEMMA CleanupStep ==
  ASSUME KernelTypes, PlacesInv, SerialInv, ReportsInv, CleanupInv, [KernelNext]_kernel
  PROVE  CleanupInv'
<1> DEFINE Known(list) == \A i \in DOMAIN list : list[i].kind = "dispose" => list[i].plugin \in Came
           Goal == /\ \A b \in BootCall : Busy(b)' => Known(callbacks)'
                   /\ (\A d \in DisposeCall : ~Disposing(d)') => \A p \in Came' : Within(p, callbacks)'
                   /\ \A d \in DisposeCall : Disposing(d)' =>
                        /\ disposals'[d].stage = "callbacks" /\ callbacks' = << >>
                        /\ \A p \in Came' : Within(p, disposals[d].fns)'
<1> SUFFICES ASSUME ~overlap' PROVE Goal
  BY DEF CleanupInv
<1>0. ~overlap
  BY StillSerial
<1>1. /\ \A b \in BootCall : Busy(b) => Known(callbacks)
      /\ (\A d \in DisposeCall : ~Disposing(d)) => \A p \in Came : Within(p, callbacks)
      /\ \A d \in DisposeCall : Disposing(d) =>
           /\ disposals[d].stage = "callbacks" /\ callbacks = << >>
           /\ \A p \in Came : Within(p, disposals[d].fns)
  BY <1>0 DEF CleanupInv
<1>2. ASSUME NEW b \in BootCall, BeginBoot(b) PROVE Goal
  <2>1. (\A c \in BootCall : ~Busy(c)) /\ \A d \in DisposeCall : ~Disposing(d)
    BY <1>2, Alone DEF BeginBoot
  <2>2. (\A c \in BootCall \ {b} : boots'[c] = boots[c]) /\ UNCHANGED <<profile, disposals, callbacks, bootedPlugins>>
    BY <1>2, BootLeaves DEF BeginBoot
  <2>3. \A c \in BootCall : Busy(c)' => callbacks = << >>
    <3>1. CASE booted
      BY <1>2, <2>1, <2>2, <3>1, Begins DEF Busy
    <3>2. CASE ~booted
      BY <1>0, <2>1, <3>2 DEF PlacesInv, SerialInv, Untouched
    <3> QED BY <3>1, <3>2
  <2>4. \A d \in DisposeCall : ~Disposing(d)'
    BY <2>1, <2>2 DEF Disposing
  <2>5. \A p \in Came' : Within(p, callbacks)'
    BY <1>1, <2>1, <2>2 DEF Came, Within
  <2> QED BY <2>2, <2>3, <2>4, <2>5
<1>3. ASSUME NEW b \in BootCall, Busy(b), BootStep(b), ~BeginBoot(b),
             Known(callbacks)', \A p \in Came' : Within(p, callbacks)'
      PROVE  Goal
  <2>1. \A d \in DisposeCall : ~Disposing(d)
    BY <1>0, <1>3 DEF SerialInv
  <2>2. disposals' = disposals
    BY <1>3, BootLeaves DEF BootStep
  <2>3. \A d \in DisposeCall : ~Disposing(d)'
    BY <2>1, <2>2 DEF Disposing
  <2> QED BY <1>3, <2>3
<1>4. ASSUME NEW b \in BootCall, StartApply(b) PROVE Goal
  <2>1. Busy(b) /\ (\A d \in DisposeCall : ~Disposing(d)) /\ ~BeginBoot(b)
    BY <1>0, <1>4 DEF StartApply, Busy, SerialInv, BeginBoot, Resting
  <2>2. PICK p \in Entries :
          callbacks' = IF profile[p].hook THEN Append(callbacks, Callback(p, "hook")) ELSE callbacks
    BY <1>4, Starts
  <2>3. Callback(p, "hook") \in Registered /\ Callback(p, "hook").kind = "hook" /\ callbacks \in Seq(Registered)
    BY DEF Callback, Registered, KernelTypes
  <2>4. Came' = Came /\ profile' = profile
    BY <1>4 DEF StartApply, Came
  <2>5. CASE callbacks' = callbacks
    <3>1. Known(callbacks)'
      BY <1>1, <2>1, <2>4, <2>5
    <3>2. \A q \in Came' : Within(q, callbacks)'
      BY <1>1, <2>1, <2>4, <2>5 DEF Within
    <3> QED BY <1>3, <1>4, <2>1, <3>1, <3>2 DEF BootStep
  <2>6. CASE callbacks' = Append(callbacks, Callback(p, "hook"))
    <3>1. Known(callbacks)'
      <4> DEFINE c == Callback(p, "hook")
      <4>1. \A i \in DOMAIN callbacks' : (i \in DOMAIN callbacks /\ callbacks'[i] = callbacks[i]) \/ callbacks'[i] = c
        <5> HIDE DEF c
        <5> QED BY <2>3, <2>6 DEF c
      <4> QED BY <1>1, <2>1, <2>3, <2>4, <4>1
    <3>2. \A q \in Came' : Within(q, callbacks)'
      <4>1. \A q \in Came : Within(q, Append(callbacks, Callback(p, "hook")))
        BY <1>1, <2>1, <2>3, WithinAppend
      <4> QED BY <2>4, <2>6, <4>1 DEF Within
    <3> QED BY <1>3, <1>4, <2>1, <3>1, <3>2 DEF BootStep
  <2> QED BY <2>2, <2>5, <2>6
<1>5. ASSUME NEW b \in BootCall, Provide(b) \/ ApplyFails(b) \/ BootEnds(b) PROVE Goal
  <2>1. Busy(b) /\ \A d \in DisposeCall : ~Disposing(d)
    BY <1>0, <1>5 DEF Provide, ApplyFails, BootEnds, Busy, SerialInv
  <2>2. Came' = Came /\ profile' = profile /\ callbacks' = callbacks
    BY <1>5 DEF Provide, ApplyFails, BootEnds, Came
  <2>3. ~BeginBoot(b)
    BY <2>1 DEF BeginBoot, Resting, Busy
  <2>4. Known(callbacks)'
    BY <1>1, <2>1, <2>2
  <2>5. \A q \in Came' : Within(q, callbacks)'
    BY <1>1, <2>1, <2>2 DEF Within
  <2> QED BY <1>3, <1>5, <2>1, <2>3, <2>4, <2>5 DEF BootStep
<1>6. ASSUME NEW b \in BootCall, ApplyEnds(b) PROVE Goal
  <2> DEFINE at == boots[b].at
             c == Callback(at, "dispose")
  <2>1. Busy(b) /\ (\A d \in DisposeCall : ~Disposing(d)) /\ ~BeginBoot(b)
    BY <1>0, <1>6 DEF ApplyEnds, Busy, SerialInv, BeginBoot, Resting
  <2>2. at \in Entries /\ bootedPlugins' = Append(bootedPlugins, at) /\ profile' = profile
        /\ callbacks' = IF profile[at].dispose THEN Append(callbacks, c) ELSE callbacks
    BY <1>6 DEF ApplyEnds, PlacesInv
  <2>3. c \in Registered /\ callbacks \in Seq(Registered) /\ c.plugin = at
    BY <2>2 DEF Callback, Registered, KernelTypes
  <2>4. Came' = Came \cup {at}
    BY <2>2, AppendRange DEF Came, KernelTypes
  <2> HIDE DEF at
  <2>5. Known(callbacks)'
    <3> HIDE DEF c
    <3>1. \A i \in DOMAIN callbacks' : (i \in DOMAIN callbacks /\ callbacks'[i] = callbacks[i]) \/ callbacks'[i] = c
      BY <2>2, <2>3
    <3> QED BY <1>1, <2>1, <2>3, <2>4, <3>1
  <2>6. \A q \in Came' : Within(q, callbacks)'
    <3>1. \A q \in Came : Within(q, callbacks) /\ Within(q, Append(callbacks, c))
      <4> HIDE DEF c
      <4> QED BY <1>1, <2>1, <2>3, WithinAppend
    <3>2. Within(at, Append(callbacks, c))
      BY <2>3, WithinAppend
    <3>3. CASE profile[at].dispose
      BY <2>2, <2>4, <3>1, <3>2, <3>3 DEF Within
    <3>4. CASE ~profile[at].dispose
      BY <2>2, <2>4, <3>1, <3>4 DEF Within
    <3> QED BY <3>3, <3>4
  <2> QED BY <1>3, <1>6, <2>1, <2>5, <2>6 DEF BootStep
<1>7. ASSUME NEW d \in DisposeCall, DisposalStep(d) PROVE Goal
  <2>1. /\ \A e \in DisposeCall \ {d} : disposals'[e] = disposals[e]
        /\ profile' = profile /\ boots' = boots
    BY <1>7, DisposalLeaves DEF DisposalStep
  <2>2. (\A c \in BootCall : ~Busy(c)) /\ \A e \in DisposeCall \ {d} : ~Disposing(e)
    <3>1. CASE BeginDispose(d)
      BY <3>1, Alone DEF BeginDispose
    <3>2. CASE RunCallback(d) \/ CallbacksDone(d) \/ RunDispose(d)
      <4>1. Disposing(d)
        BY <3>2 DEF RunCallback, CallbacksDone, RunDispose, Disposing
      <4> QED BY <1>0, <4>1 DEF SerialInv
    <3> QED BY <1>7, <3>1, <3>2 DEF DisposalStep
  <2>3. (\A c \in BootCall : ~Busy(c)') /\ \A e \in DisposeCall \ {d} : ~Disposing(e)'
    BY <2>1, <2>2 DEF Busy, Disposing
  <2>4. CASE BeginDispose(d)
    <3>1. disposals'[d].stage = "callbacks" /\ disposals'[d].fns = Reverse(callbacks) /\ callbacks' = << >> /\ Came' = Came
      BY <2>4, Unwinds DEF Came
    <3>2. \A e \in DisposeCall : ~Disposing(e)
      BY <2>4, Alone DEF BeginDispose
    <3>3. \A p \in Came : Within(p, Reverse(callbacks))
      <4>1. callbacks \in Seq(Registered)
        BY DEF KernelTypes
      <4> QED BY <1>1, <3>2, <4>1, WithinReverse
    <3>4. \A p \in Came' : Within(p, disposals[d].fns)'
      BY <2>1, <3>1, <3>3 DEF Within
    <3>5. Disposing(d)'
      BY <3>1 DEF Disposing
    <3> QED BY <2>3, <3>1, <3>4, <3>5
  <2>5. CASE RunCallback(d)
    <3>1. Disposing(d) /\ Disposing(d)' /\ disposals'[d].stage = "callbacks"
      BY <2>5, Calls DEF Disposing
    <3>2. disposals'[d].fns = disposals[d].fns /\ Came' = Came /\ callbacks' = callbacks
      BY <2>5, Calls DEF Came
    <3>3. \A p \in Came' : Within(p, disposals[d].fns)'
      BY <1>1, <2>1, <3>1, <3>2 DEF Within
    <3> QED BY <1>1, <2>3, <3>1, <3>2, <3>3
  <2>6. CASE CallbacksDone(d)
    <3>1. Disposing(d)
      BY <2>6 DEF CallbacksDone, Disposing
    <3>2. NotYetDisposed(disposals[d].fns) = {}
      <4>1. SUFFICES ASSUME NEW i \in DOMAIN bootedPlugins, profile[bootedPlugins[i]].dispose
                     PROVE  \E k \in DOMAIN disposals[d].fns :
                              profile[disposals[d].fns[k].plugin].name = profile[bootedPlugins[i]].name
        BY DEF NotYetDisposed
      <4>2. bootedPlugins[i] \in Came
        BY DEF Came, ToSet
      <4>3. PICK k \in DOMAIN disposals[d].fns : disposals[d].fns[k] = Callback(bootedPlugins[i], "dispose")
        BY <1>1, <3>1, <4>1, <4>2 DEF Within
      <4> QED BY <4>3 DEF Callback
    <3>3. ~Disposing(d)' /\ bootedPlugins' = << >>
      BY <2>6, <3>2, CallsEnd DEF Disposing, ClearWhenDone
    <3>4. Came' = {}
      BY <3>3 DEF Came, ToSet
    <3> QED BY <2>3, <3>3, <3>4
  <2>7. CASE RunDispose(d)
    BY <1>1, <2>7 DEF RunDispose, Disposing
  <2> QED BY <1>7, <2>4, <2>5, <2>6, <2>7 DEF DisposalStep
<1>8. CASE UNCHANGED kernel
  BY <1>1, <1>8 DEF kernel, Busy, Disposing, Came, Within
<1> QED BY <1>2, <1>4, <1>5, <1>6, <1>7, <1>8 DEF KernelNext, DisposalStep

(* Nothing runs before it is due: the last plugin tried has given nothing yet. *)
LEMMA LastGivesNothing ==
  ASSUME NEW X, NEW log \in Seq(X), Once(log), Backwards(log), log # << >>
  PROVE  \A i \in DOMAIN log : log[Len(log)].plugin \notin log[i].givers
<1>1. SUFFICES ASSUME NEW i \in DOMAIN log, log[Len(log)].plugin \in log[i].givers
               PROVE  FALSE
  OBVIOUS
<1>2. PICK k \in DOMAIN log : k < i /\ log[k].plugin = log[Len(log)].plugin
  BY <1>1 DEF Backwards
<1>3. Len(log) \in DOMAIN log /\ i <= Len(log) /\ i \in Nat /\ k \in Nat /\ Len(log) \in Nat
  <2>1. DOMAIN log = 1 .. Len(log) /\ Len(log) \in Nat \ {0}
    OBVIOUS
  <2> QED BY <1>1, <2>1
<1>4. k = Len(log)
  BY <1>2, <1>3 DEF Once
<1> QED BY <1>2, <1>3, <1>4

(* What is owed, by whether a disposal is under way. *)

LEMMA OwedWhile ==
  ASSUME NEW d \in DisposeCall, Disposing(d), \A e \in DisposeCall : Disposing(e) => e = d
  PROVE  Owed = ran \o disposals[d].left
<1>1. (CHOOSE e \in DisposeCall : Disposing(e)) = d
  OBVIOUS
<1> QED BY <1>1 DEF Owed

(* A step leaves what is owed as it is, or an apply() puts something first. *)

LEMMA OwedStep ==
  ASSUME KernelTypes, PlacesInv, SerialInv, CleanupInv, CleanupInv', [KernelNext]_kernel, ~overlap'
  PROVE  \/ Owed' = Owed
         \/ \E b \in BootCall, c \in Registered :
              /\ StartApply(b) \/ ApplyEnds(b)
              /\ callbacks' = Append(callbacks, c) /\ Owed = Reverse(callbacks) /\ Owed' = <<c>> \o Owed
<1>0. ~overlap /\ ran \in Seq(Registered) /\ callbacks \in Seq(Registered)
  BY StillSerial DEF KernelTypes
<1>1. ASSUME NEW b \in BootCall, BeginBoot(b) PROVE Owed' = Owed
  <2>1. UNCHANGED <<disposals, ran, callbacks>>
    BY <1>1 DEF BeginBoot
  <2> QED BY <2>1 DEF Owed, Disposing
<1>2. ASSUME NEW b \in BootCall, Provide(b) \/ ApplyFails(b) \/ BootEnds(b) PROVE Owed' = Owed
  <2>1. UNCHANGED <<disposals, ran, callbacks>>
    BY <1>2 DEF Provide, ApplyFails, BootEnds
  <2> QED BY <2>1 DEF Owed, Disposing
<1>3. ASSUME NEW b \in BootCall, StartApply(b) \/ ApplyEnds(b),
             NEW c \in Registered, callbacks' = callbacks \/ callbacks' = Append(callbacks, c)
      PROVE  \/ Owed' = Owed
             \/ callbacks' = Append(callbacks, c) /\ Owed = Reverse(callbacks) /\ Owed' = <<c>> \o Owed
  <2>1. UNCHANGED <<disposals, ran>>
    BY <1>3 DEF StartApply, ApplyEnds
  <2>2. (\A d \in DisposeCall : ~Disposing(d)) /\ ran = << >>
    BY <1>0, <1>3 DEF SerialInv, StartApply, ApplyEnds, Busy
  <2>3. \A d \in DisposeCall : ~Disposing(d)'
    BY <2>1, <2>2 DEF Disposing
  <2>4. Reverse(callbacks) \in Seq(Registered) /\ Reverse(callbacks)' \in Seq(Registered)
    <3>1. callbacks' \in Seq(Registered)
      BY <1>0, <1>3
    <3> QED BY <1>0, <3>1 DEF Reverse
  <2>5. Owed = Reverse(callbacks) /\ Owed' = Reverse(callbacks')
    <3>1. \A l \in Seq(Registered) : << >> \o l = l
      BY ConcatEmptySeq
    <3>2. Owed = ran \o Reverse(callbacks)
      BY <2>2 DEF Owed
    <3>3. Owed' = ran' \o Reverse(callbacks')
      BY <2>3 DEF Owed
    <3> QED BY <2>1, <2>2, <2>4, <3>1, <3>2, <3>3
  <2>6. CASE callbacks' = callbacks
    BY <2>5, <2>6
  <2>7. CASE callbacks' = Append(callbacks, c)
    BY <1>0, <2>5, <2>7, PushReverse
  <2> QED BY <1>3, <2>6, <2>7
<1>4. ASSUME NEW d \in DisposeCall, DisposalStep(d) PROVE Owed' = Owed
  <2>1. \A e \in DisposeCall \ {d} : disposals'[e] = disposals[e]
    BY <1>4, DisposalLeaves DEF DisposalStep
  <2>2. \A e \in DisposeCall \ {d} : ~Disposing(e)
    <3>1. CASE BeginDispose(d)
      BY <3>1, Alone DEF BeginDispose
    <3>2. CASE RunCallback(d) \/ CallbacksDone(d) \/ RunDispose(d)
      <4>1. Disposing(d)
        BY <3>2 DEF RunCallback, CallbacksDone, RunDispose, Disposing
      <4> QED BY <1>0, <4>1 DEF SerialInv
    <3> QED BY <1>4, <3>1, <3>2 DEF DisposalStep
  <2>3. \A e \in DisposeCall \ {d} : ~Disposing(e)'
    BY <2>1, <2>2 DEF Disposing
  <2>4. Disposing(d)' => Owed' = ran' \o disposals'[d].left
    <3>1. SUFFICES ASSUME Disposing(d)' PROVE Owed' = ran' \o disposals'[d].left
      OBVIOUS
    <3>2. (CHOOSE e \in DisposeCall : Disposing(e)') = d
      BY <2>3, <3>1
    <3> QED BY <3>1, <3>2 DEF Owed
  <2>5. ~Disposing(d)' => Owed' = ran' \o Reverse(callbacks')
    BY <2>3 DEF Owed
  <2>6. CASE BeginDispose(d)
    <3>1. ~Disposing(d) /\ Disposing(d)' /\ disposals'[d].left = Reverse(callbacks) /\ ran' = ran
      BY <2>6, Unwinds DEF Disposing, Resting
    <3> QED BY <2>2, <2>4, <3>1 DEF Owed
  <2>7. ASSUME ~BeginDispose(d) PROVE Disposing(d) /\ Owed = ran \o disposals[d].left /\ disposals[d] \in Unwinding
    <3>1. Disposing(d)
      BY <1>4, <2>7 DEF DisposalStep, RunCallback, CallbacksDone, RunDispose, Disposing
    <3>2. disposals[d] \in Unwinding
      BY <3>1, UnwindingCall DEF Disposing
    <3> QED BY <2>2, <3>1, <3>2, OwedWhile
  <2>8. CASE RunCallback(d)
    <3>1. ~BeginDispose(d) /\ Disposing(d)'
      BY <2>8, Calls DEF BeginDispose, Resting, RunCallback, Disposing
    <3>2. disposals[d].left \in Seq(Registered)
      BY <2>7, <3>1 DEF Unwinding
    <3> QED BY <1>0, <2>4, <2>7, <2>8, <3>1, <3>2, Calls, MoveHead
  <2>9. CASE CallbacksDone(d)
    <3>1. ~BeginDispose(d)
      <4>1. disposals[d].stage = "callbacks"
        BY <2>9, CallsEnd
      <4> QED BY <4>1 DEF BeginDispose, Resting
    <3>2. ~Disposing(d)'
      BY <2>9, CallsEnd DEF Disposing, CleanupInv
    <3>3. callbacks = << >> /\ callbacks' = callbacks /\ disposals[d].left = << >> /\ ran' = ran
      BY <1>0, <2>7, <2>9, <3>1, CallsEnd DEF CleanupInv
    <3>4. Reverse(callbacks) = << >>
      BY <3>3 DEF Reverse
    <3> QED BY <2>5, <2>7, <3>1, <3>2, <3>3, <3>4
  <2>10. CASE RunDispose(d)
    BY <1>0, <2>10 DEF CleanupInv, RunDispose, Disposing
  <2> QED BY <1>4, <2>6, <2>8, <2>9, <2>10 DEF DisposalStep
<1>5. CASE UNCHANGED kernel
  BY <1>5 DEF kernel, Owed, Disposing
<1>6. ASSUME NEW b \in BootCall, StartApply(b)
      PROVE  \E c \in Registered : callbacks' = callbacks \/ callbacks' = Append(callbacks, c)
  <2>1. PICK p \in Entries :
          callbacks' = IF profile[p].hook THEN Append(callbacks, Callback(p, "hook")) ELSE callbacks
    BY <1>6, Starts
  <2> QED BY <2>1 DEF Callback, Registered
<1>7. ASSUME NEW b \in BootCall, ApplyEnds(b)
      PROVE  \E c \in Registered : callbacks' = callbacks \/ callbacks' = Append(callbacks, c)
  <2>1. boots[b].at \in Entries
    BY <1>7 DEF ApplyEnds, PlacesInv
  <2> QED BY <1>7, <2>1 DEF ApplyEnds, Callback, Registered
<1>8. ASSUME NEW b \in BootCall, StartApply(b) \/ ApplyEnds(b)
      PROVE  \/ Owed' = Owed
             \/ \E x \in BootCall, c \in Registered :
                  /\ StartApply(x) \/ ApplyEnds(x)
                  /\ callbacks' = Append(callbacks, c) /\ Owed = Reverse(callbacks) /\ Owed' = <<c>> \o Owed
  <2>1. PICK c \in Registered : callbacks' = callbacks \/ callbacks' = Append(callbacks, c)
    BY <1>6, <1>7, <1>8
  <2> QED BY <1>3, <1>8, <2>1
<1> QED BY <1>1, <1>2, <1>4, <1>5, <1>8 DEF KernelNext, DisposalStep

(* The list stays in turn when nothing is put to it and the log is the same. *)
LEMMA PutFirst ==
  ASSUME NEW list \in Seq(Registered), NEW c \in Registered
  PROVE  LET more == <<c>> \o list
         IN  /\ more[1] = c /\ 1 \in DOMAIN more
             /\ \A i \in DOMAIN list : i + 1 \in DOMAIN more /\ more[i + 1] = list[i]
             /\ \A i \in DOMAIN more : i # 1 => i - 1 \in DOMAIN list /\ more[i] = list[i - 1] /\ i > 1
<1> DEFINE more == <<c>> \o list
           n == Len(list)
<1>1. n \in Nat /\ DOMAIN list = 1 .. n /\ DOMAIN more = 1 .. n + 1 /\ more[1] = c
      /\ \A i \in 2 .. n + 1 : more[i] = list[i - 1]
  OBVIOUS
<1> HIDE DEF more, n
<1>2. \A i \in 1 .. n : i + 1 \in 2 .. n + 1 /\ (i + 1) - 1 = i
  BY <1>1
<1>3. \A i \in 1 .. n + 1 : i # 1 => i \in 2 .. n + 1 /\ i - 1 \in 1 .. n /\ i > 1
  BY <1>1
<1>4. /\ more[1] = c /\ 1 \in DOMAIN more
      /\ \A i \in DOMAIN list : i + 1 \in DOMAIN more /\ more[i + 1] = list[i]
      /\ \A i \in DOMAIN more : i # 1 => i - 1 \in DOMAIN list /\ more[i] = list[i - 1] /\ i > 1
  BY <1>1, <1>2, <1>3
<1> QED BY <1>4 DEF more

LEMMA OwedTypes ==
  ASSUME KernelTypes
  PROVE  Owed \in Seq(Registered)
<1>1. ran \in Seq(Registered) /\ Reverse(callbacks) \in Seq(Registered)
  BY DEF KernelTypes, Reverse
<1>2. ASSUME NEW d \in DisposeCall, Disposing(d) PROVE disposals[d].left \in Seq(Registered)
  BY <1>2, UnwindingCall DEF Disposing, Unwinding
<1>3. CASE \E d \in DisposeCall : Disposing(d)
  <2> DEFINE d == CHOOSE d \in DisposeCall : Disposing(d)
  <2>1. d \in DisposeCall /\ Disposing(d)
    BY <1>3
  <2>2. Owed = ran \o disposals[d].left
    BY <1>3 DEF Owed
  <2> HIDE DEF d
  <2> QED BY <1>1, <1>2, <2>1, <2>2
<1>4. CASE ~\E d \in DisposeCall : Disposing(d)
  BY <1>1, <1>4 DEF Owed
<1> QED BY <1>3, <1>4

(* What an apply() registers is new, and it gave nothing to what is owed. *)

LEMMA NewFirst ==
  ASSUME NEW list \in Seq(Registered), InTurn(list), NEW c \in Registered,
         NEW more, more = <<c>> \o list,
         \A i \in DOMAIN list : list[i] # c,
         c.plugin \in Tried', Tried \subseteq Tried',
         \A p \in Tried : \A q : Gave(q, p)' => Gave(q, p),
         \A p : ~Gave(c.plugin, p)'
  PROVE  InTurn(more)'
<1>2. /\ more[1] = c /\ 1 \in DOMAIN more
      /\ \A i \in DOMAIN more : i # 1 => i - 1 \in DOMAIN list /\ more[i] = list[i - 1] /\ i > 1
  BY PutFirst
<1>3. DOMAIN list \subseteq Nat /\ DOMAIN more \subseteq Nat
  OBVIOUS
<1>4. \A i, j \in DOMAIN more : more[i] = more[j] => i = j
  <2>1. \A i, j \in DOMAIN more : i # 1 /\ j # 1 /\ more[i] = more[j] => i - 1 = j - 1
    BY <1>2 DEF InTurn
  <2>2. \A i \in DOMAIN more : i # 1 => more[i] # c
    BY <1>2
  <2> QED BY <1>2, <1>3, <2>1, <2>2
<1>5. \A i, j \in DOMAIN more : Gave(more[j].plugin, more[i].plugin)' => i < j
  <2>1. SUFFICES ASSUME NEW i \in DOMAIN more, NEW j \in DOMAIN more, Gave(more[j].plugin, more[i].plugin)'
                 PROVE  i < j
    OBVIOUS
  <2>2. j # 1
    BY <1>2, <2>1
  <2>3. CASE i = 1
    BY <1>2, <2>2, <2>3
  <2>4. CASE i # 1
    <3>1. list[i - 1].plugin \in Tried
      BY <1>2, <2>4 DEF InTurn
    <3>2. Gave(list[j - 1].plugin, list[i - 1].plugin)
      BY <1>2, <2>1, <2>2, <2>4, <3>1
    <3>3. i - 1 < j - 1
      BY <1>2, <2>2, <2>4, <3>2 DEF InTurn
    <3> QED BY <1>3, <3>3
  <2> QED BY <2>3, <2>4
<1>6. \A i \in DOMAIN more : more[i].plugin \in Tried'
  BY <1>2 DEF InTurn
<1> QED BY <1>4, <1>5, <1>6 DEF InTurn

(* The same as NewFirst, with the reasons an apply() has. *)

LEMMA TurnStep ==
  ASSUME KernelTypes, PlacesInv, SerialInv, ReportsInv, OwnersInv, OwnersInv', CleanupInv,
         InTurn(Owed), ~overlap, ~overlap', NEW b \in BootCall, NEW c \in Registered,
         StartApply(b) \/ ApplyEnds(b),
         callbacks' = Append(callbacks, c), Owed = Reverse(callbacks), Owed' = <<c>> \o Owed
  PROVE  InTurn(Owed)'
<1>1. Sorted(b)
  BY DEF ReportsInv, StartApply, ApplyEnds, Busy
<1>2. c = callbacks'[Len(callbacks) + 1] /\ callbacks \in Seq(Registered)
  BY DEF KernelTypes
<1>3. ASSUME NEW log, log = attempted', Once(attempted)', Backwards(attempted)', attempted' # << >>,
             attempted'[Len(attempted')].plugin = c.plugin, KernelTypes'
      PROVE  \A p : ~Gave(c.plugin, p)'
  <2>1. log \in Seq([plugin : Entries', givers : SUBSET Entries'])
    BY <1>3 DEF KernelTypes
  <2>2. Once(log) /\ Backwards(log) /\ log # << >> /\ log[Len(log)].plugin = c.plugin
    BY <1>3 DEF Once, Backwards
  <2>3. \A i \in DOMAIN log : c.plugin \notin log[i].givers
    BY <2>1, <2>2, LastGivesNothing
  <2> QED BY <1>3, <2>3 DEF Gave
<1>4. KernelTypes'
  BY BootStepTypes
<1>5. CASE StartApply(b)
  <2>1. PICK p \in Entries :
          /\ p \in boots[b].pending /\ profile[p].inject \subseteq DOMAIN registry
          /\ boots'[b].stage = "applying" /\ boots'[b].at = p
          /\ callbacks' = IF profile[p].hook THEN Append(callbacks, Callback(p, "hook")) ELSE callbacks
          /\ attempted' = Append(attempted, [plugin |-> p, givers |-> {registry[s] : s \in profile[p].inject}])
    BY <1>5, Starts
  <2>2. c = Callback(p, "hook")
    <3>1. Callback(p, "hook") \in Registered
      BY DEF Callback, Registered
    <3>2. callbacks' # callbacks
      BY <1>2
    <3>3. callbacks' = Append(callbacks, Callback(p, "hook"))
      BY <2>1, <3>2
    <3> QED BY <1>2, <3>1, <3>3
  <2>3. p \notin Tried /\ {registry[s] : s \in profile[p].inject} \in SUBSET Entries
    BY <1>1, <2>1 DEF Sorted, KernelTypes
  <2>4. Tried' = Tried \cup {p}
    BY <2>1, <2>3, TriedNext
  <2>5. \A q \in Tried : \A x : Gave(x, q)' => Gave(x, q)
    <3> DEFINE entry == [plugin |-> p, givers |-> {registry[s] : s \in profile[p].inject}]
    <3>1. entry.plugin = p /\ entry \in [plugin : Entries, givers : SUBSET Entries]
      BY <2>3
    <3> HIDE DEF entry
    <3>2. attempted' = Append(attempted, entry) /\ attempted \in Seq([plugin : Entries, givers : SUBSET Entries])
      BY <2>1 DEF entry, KernelTypes
    <3>3. \A i \in DOMAIN attempted' : (i \in DOMAIN attempted /\ attempted'[i] = attempted[i]) \/ attempted'[i] = entry
      BY <3>1, <3>2
    <3> QED BY <2>3, <3>1, <3>3 DEF Gave
  <2>6. \A i \in DOMAIN Owed : Owed[i] # c
    BY <2>2, <2>3 DEF InTurn, Callback
  <2>7. c.plugin = p
    BY <2>2 DEF Callback
  <2>8. \A q : ~Gave(c.plugin, q)'
    <3>1. /\ Once(attempted)' /\ Backwards(attempted)' /\ attempted' # << >>
          /\ attempted'[Len(attempted')].plugin = c.plugin
      BY <2>1, <2>7 DEF OwnersInv
    <3>2. PICK log : log = attempted'
      OBVIOUS
    <3> QED BY <1>3, <1>4, <3>1, <3>2
  <2>9. PICK list \in Seq(Registered) : list = Owed
    BY OwedTypes
  <2>10. PICK more : more = <<c>> \o list
    OBVIOUS
  <2>11. InTurn(more)'
    <3>1. InTurn(list) /\ \A i \in DOMAIN list : list[i] # c
      BY <2>6, <2>9
    <3> QED BY <2>4, <2>5, <2>7, <2>8, <2>10, <3>1, NewFirst
  <2>12. Owed' = more
    BY <2>9, <2>10
  <2> QED BY <2>11, <2>12 DEF InTurn
<1>6. CASE ApplyEnds(b)
  <2> DEFINE at == boots[b].at
  <2>1. /\ boots[b].stage = "applying" /\ at \in Entries
        /\ callbacks' = IF profile[at].dispose THEN Append(callbacks, Callback(at, "dispose")) ELSE callbacks
        /\ attempted' = attempted
    BY <1>6 DEF ApplyEnds, PlacesInv
  <2>2. c = Callback(at, "dispose")
    <3>1. Callback(at, "dispose") \in Registered
      BY <2>1 DEF Callback, Registered
    <3>2. callbacks' # callbacks
      BY <1>2
    <3>3. callbacks' = Append(callbacks, Callback(at, "dispose"))
      BY <2>1, <3>2
    <3> QED BY <1>2, <3>1, <3>3
  <2>3. at \notin Came /\ at \in Tried
    BY <1>1, <2>1 DEF Sorted, Current
  <2>4. Tried' = Tried /\ \A q, x : Gave(x, q)' <=> Gave(x, q)
    BY <2>1 DEF Tried, Gave
  <2>5. c.plugin = at /\ c.kind = "dispose"
    BY <2>2 DEF Callback
  <2>6. \A i \in DOMAIN Owed : Owed[i] # c
    <3>1. \A i \in DOMAIN callbacks : callbacks[i] # c
      BY <1>6, <2>3, <2>5 DEF CleanupInv, ApplyEnds, Busy
    <3>2. \A i \in DOMAIN Reverse(callbacks) : \E k \in DOMAIN callbacks : Reverse(callbacks)[i] = callbacks[k]
      <4>1. \A i \in 1 .. Len(callbacks) : Len(callbacks) - i + 1 \in DOMAIN callbacks
        BY <1>2
      <4> QED BY <4>1 DEF Reverse
    <3> QED BY <3>1, <3>2
  <2>7. \A q : ~Gave(c.plugin, q)'
    <3>1. /\ Once(attempted)' /\ Backwards(attempted)' /\ attempted' # << >>
          /\ attempted'[Len(attempted')].plugin = c.plugin
      BY <2>1, <2>5 DEF OwnersInv
    <3>2. PICK log : log = attempted'
      OBVIOUS
    <3> QED BY <1>3, <1>4, <3>1, <3>2
  <2> HIDE DEF at
  <2>8. PICK list \in Seq(Registered) : list = Owed
    BY OwedTypes
  <2>9. PICK more : more = <<c>> \o list
    OBVIOUS
  <2>10. InTurn(more)'
    <3>1. InTurn(list) /\ \A i \in DOMAIN list : list[i] # c
      BY <2>6, <2>8
    <3> QED BY <2>3, <2>4, <2>5, <2>7, <2>9, <3>1, NewFirst
  <2>11. Owed' = more
    BY <2>8, <2>9
  <2> QED BY <2>10, <2>11 DEF InTurn
<1> QED BY <1>5, <1>6

(* A plugin already tried is given nothing more. *)

LEMMA LogKeeps ==
  ASSUME KernelTypes, PlacesInv, SerialInv, ReportsInv, [KernelNext]_kernel, ~overlap'
  PROVE  Tried \subseteq Tried' /\ \A p \in Tried : \A q : Gave(q, p)' => Gave(q, p)
<1>1. CASE attempted' = attempted
  BY <1>1 DEF Tried, Gave
<1>2. CASE \E b \in BootCall : StartApply(b)
  <2>1. PICK b \in BootCall : StartApply(b)
    BY <1>2
  <2>2. PICK p \in Entries :
          /\ boots[b].stage = "scanning" /\ p \in boots[b].pending /\ profile[p].inject \subseteq DOMAIN registry
          /\ attempted' = Append(attempted, [plugin |-> p, givers |-> {registry[s] : s \in profile[p].inject}])
    BY <2>1, Starts
  <2>3. Sorted(b)
    BY <2>2, StillSerial DEF ReportsInv, Busy
  <2>4. p \notin Tried /\ {registry[s] : s \in profile[p].inject} \in SUBSET Entries
    BY <2>2, <2>3 DEF Sorted, KernelTypes
  <2>5. Tried' = Tried \cup {p}
    BY <2>2, <2>4, TriedNext
  <2> DEFINE entry == [plugin |-> p, givers |-> {registry[s] : s \in profile[p].inject}]
  <2>6. entry.plugin = p /\ entry \in [plugin : Entries, givers : SUBSET Entries]
    BY <2>4
  <2> HIDE DEF entry
  <2>7. attempted' = Append(attempted, entry) /\ attempted \in Seq([plugin : Entries, givers : SUBSET Entries])
    BY <2>2 DEF entry, KernelTypes
  <2>8. \A i \in DOMAIN attempted' : (i \in DOMAIN attempted /\ attempted'[i] = attempted[i]) \/ attempted'[i] = entry
    BY <2>6, <2>7
  <2> QED BY <2>4, <2>5, <2>6, <2>8 DEF Gave
<1>3. attempted' = attempted \/ \E b \in BootCall : StartApply(b)
  <2>1. CASE UNCHANGED kernel
    BY <2>1 DEF kernel
  <2>2. CASE \E b \in BootCall : BootStep(b)
    BY <2>2 DEF BootStep, BeginBoot, Provide, ApplyFails, ApplyEnds, BootEnds
  <2>3. CASE \E d \in DisposeCall : DisposalStep(d)
    BY <2>3 DEF DisposalStep, BeginDispose, RunCallback, CallbacksDone, RunDispose
  <2> QED BY <2>1, <2>2, <2>3 DEF KernelNext, BootStep, DisposalStep
<1> QED BY <1>1, <1>2, <1>3

(* What is owed stays in turn. *)

LEMMA InTurnStep ==
  ASSUME KernelTypes, PlacesInv, SerialInv, ReportsInv, OwnersInv, OwnersInv', CleanupInv, CleanupInv',
         InTurn(Owed), [KernelNext]_kernel, ~overlap'
  PROVE  InTurn(Owed)'
<1>1. CASE Owed' = Owed
  <2>1. PICK list \in Seq(Registered) : list = Owed
    BY OwedTypes
  <2>2. \A i \in DOMAIN list : list[i].plugin \in Tried
    BY <2>1 DEF InTurn
  <2>3. \A i, j \in DOMAIN list : Gave(list[j].plugin, list[i].plugin)' => i < j
    BY <2>1, <2>2, LogKeeps DEF InTurn
  <2>4. Owed' = list /\ \A i, j \in DOMAIN list : list[i] = list[j] => i = j
    BY <1>1, <2>1 DEF InTurn
  <2>5. \A i \in DOMAIN list : list[i].plugin \in Tried'
    BY <2>2, LogKeeps
  <2> QED BY <2>3, <2>4, <2>5 DEF InTurn
<1>2. CASE \E b \in BootCall, c \in Registered :
             /\ StartApply(b) \/ ApplyEnds(b)
             /\ callbacks' = Append(callbacks, c) /\ Owed = Reverse(callbacks) /\ Owed' = <<c>> \o Owed
  BY <1>2, StillSerial, TurnStep
<1> QED BY <1>1, <1>2, OwedStep

(* Every plugin a boot has loaded is told to go, and keeps being. *)

LEMMA OrderStep ==
  ASSUME KernelTypes, PlacesInv, SerialInv, SerialInv', ReportsInv, OwnersInv, OwnersInv', CleanupInv, CleanupInv',
         OrderInv, [KernelNext]_kernel
  PROVE  OrderInv'
<1> DEFINE Goal(b) == /\ \A p \in Well(b)' : Within(p, Owed)'
                      /\ Well(b)' = Came' \/ Drained'
<1> SUFFICES ASSUME ~overlap' PROVE InTurn(Owed)' /\ \A b \in BootCall : Done(b)' => Goal(b)
  BY DEF OrderInv
<1>0. ~overlap
  BY StillSerial
<1>1. InTurn(Owed)'
  BY <1>0, InTurnStep DEF OrderInv
<1>2. SUFFICES ASSUME NEW b \in BootCall, Done(b)' PROVE Goal(b)
  BY <1>1
<1>3. CASE BootEnds(b)
  <2>1. boots[b].stage = "scanning" /\ Busy(b) /\ boots'[b].stage = "done"
    BY <1>3, Ends DEF Busy
  <2>2. Sorted(b)'
    BY <1>0, <1>3, <2>1, SortedStep DEF ReportsInv
  <2>3. Well(b)' = Came'
    <3>1. \A p \in Entries' : <<p, "apply">> \in boots'[b].errors <=> p \in Failures(b)'
      BY DEF Failures
    <3>2. Current(b)' = {}
      BY <2>1 DEF Current
    <3>3. Tried' \subseteq Entries' /\ Tried' = Came' \cup Failures(b)' /\ Came' \cap Failures(b)' = {}
      BY <2>2, <3>2 DEF Sorted, Loadable
    <3> QED BY <3>1, <3>3 DEF Well
  <2>4. (\A d \in DisposeCall : ~Disposing(d)) /\ ran = << >>
    BY <1>0, <2>1 DEF SerialInv
  <2>5. (\A d \in DisposeCall : ~Disposing(d)') /\ ran' = << >> /\ UNCHANGED <<callbacks, bootedPlugins, profile>>
    BY <1>3, <2>4 DEF BootEnds, Disposing
  <2>6. Owed' = << >> \o Reverse(callbacks)
    BY <2>5 DEF Owed
  <2>7. callbacks \in Seq(Registered) /\ Reverse(callbacks) \in Seq(Registered)
    BY DEF KernelTypes, Reverse
  <2>8. Owed' = Reverse(callbacks)
    BY <2>6, <2>7
  <2>9. \A p \in Came : Within(p, Reverse(callbacks))
    BY <1>0, <2>4, <2>7, WithinReverse DEF CleanupInv
  <2>10. \A p \in Came' : Within(p, Owed)'
    BY <2>5, <2>8, <2>9 DEF Within, Came
  <2> QED BY <2>3, <2>10
<1>4. CASE ~BootEnds(b)
  <2>1. Done(b) /\ boots'[b] = boots[b] /\ attempted' = attempted /\ profile' = profile
    <3>1. CASE UNCHANGED kernel
      BY <1>2, <3>1 DEF kernel, Done
    <3>2. CASE \E d \in DisposeCall : DisposalStep(d)
      BY <1>2, <3>2, DisposalLeaves DEF DisposalStep, Done
    <3>3. ASSUME NEW c \in BootCall, BootStep(c) PROVE Done(b) /\ boots'[b] = boots[b] /\ attempted' = attempted /\ profile' = profile
      <4>1. (\A a \in BootCall \ {c} : boots'[a] = boots[a]) /\ profile' = profile
        BY <3>3, BootLeaves DEF BootStep
      <4>2. c # b
        <5>1. BeginBoot(b) => ~Done(b)'
          BY Begins DEF Done
        <5>2. StartApply(b) => ~Done(b)'
          BY Starts DEF Done
        <5>3. Provide(b) => ~Done(b)'
          BY Gives DEF Done, Thrown
        <5>4. ApplyFails(b) => ~Done(b)'
          BY Fails DEF Done, Thrown
        <5>5. ApplyEnds(b) => ~Done(b)'
          BY Applies DEF Done
        <5> QED BY <1>2, <1>4, <3>3, <5>1, <5>2, <5>3, <5>4, <5>5 DEF BootStep
      <4>3. Done(b) /\ boots'[b] = boots[b]
        BY <1>2, <4>1, <4>2 DEF Done
      <4>4. BeginBoot(c)
        BY <1>0, <3>3, <4>2, <4>3 DEF SerialInv, BootStep, Busy, StartApply, Provide, ApplyFails, ApplyEnds, BootEnds
      <4> QED BY <4>1, <4>3, <4>4 DEF BeginBoot
    <3> QED BY <3>1, <3>2, <3>3 DEF KernelNext, BootStep, DisposalStep
  <2>2. Well(b)' = Well(b)
    BY <2>1 DEF Well, Tried
  <2>3. Owed' = Owed
    <3>1. \A c \in BootCall : ~(StartApply(c) \/ ApplyEnds(c))
      BY <1>0, <2>1 DEF SerialInv, StartApply, ApplyEnds, Busy, Done
    <3> QED BY <3>1, OwedStep
  <2>4. \A p \in Well(b)' : Within(p, Owed)'
    BY <1>0, <2>1, <2>2, <2>3 DEF OrderInv, Within
  <2>5. CASE bootedPlugins' = bootedPlugins /\ Well(b) = Came
    BY <2>2, <2>4, <2>5 DEF Came
  <2>6. CASE UNCHANGED <<callbacks, disposals>> /\ Drained
    BY <2>4, <2>6 DEF Drained, Disposing
  <2>7. CASE UNCHANGED kernel
    BY <1>0, <2>1, <2>5, <2>6, <2>7 DEF kernel, OrderInv
  <2>8. ASSUME NEW c \in BootCall, BootStep(c) PROVE Goal(b)
    <3>1. BeginBoot(c) \/ BootEnds(c) \/ Provide(c) \/ ApplyFails(c)
      BY <1>0, <2>1, <2>8 DEF SerialInv, BootStep, Busy, Done, StartApply, ApplyEnds
    <3>2. UNCHANGED <<bootedPlugins, callbacks, disposals>>
      BY <3>1 DEF BeginBoot, BootEnds, Provide, ApplyFails
    <3> QED BY <1>0, <2>1, <2>5, <2>6, <3>2 DEF OrderInv
  <2>9. ASSUME NEW d \in DisposeCall, BeginDispose(d) PROVE Goal(b)
    <3>1. callbacks' = << >> /\ bootedPlugins' = bootedPlugins /\ disposals'[d].left = Reverse(callbacks)
      BY <2>9, Unwinds
    <3>2. \A e \in DisposeCall : ~Disposing(e)
      BY <2>9, Alone DEF BeginDispose
    <3>3. \A e \in DisposeCall \ {d} : ~Disposing(e)'
      BY <2>9, <3>2, DisposalLeaves DEF Disposing
    <3>4. Drained => Drained'
      <4>1. ASSUME Drained PROVE disposals'[d].left = << >>
        BY <3>1, <4>1 DEF Drained, Reverse
      <4> QED BY <3>1, <3>3, <4>1 DEF Drained
    <3> QED BY <1>0, <2>1, <2>4, <2>5, <3>1, <3>4 DEF OrderInv
  <2>10. ASSUME NEW d \in DisposeCall, RunCallback(d) PROVE Goal(b)
    <3>1. bootedPlugins' = bootedPlugins /\ disposals[d].left # << >> /\ Disposing(d)
      BY <2>10, Calls DEF Disposing
    <3> QED BY <1>0, <2>1, <2>5, <3>1 DEF OrderInv, Drained
  <2>11. ASSUME NEW d \in DisposeCall, CallbacksDone(d) PROVE Goal(b)
    <3>1. Disposing(d) /\ disposals'[d].left = << >> /\ callbacks' = callbacks
      BY <2>11, CallsEnd DEF Disposing
    <3>2. callbacks = << >>
      BY <1>0, <3>1 DEF CleanupInv
    <3>3. \A e \in DisposeCall \ {d} : ~Disposing(e)'
      BY <1>0, <2>11, <3>1, DisposalLeaves DEF SerialInv, Disposing
    <3>4. Drained'
      BY <3>1, <3>2, <3>3 DEF Drained
    <3> QED BY <2>4, <3>4
  <2>12. ASSUME NEW d \in DisposeCall, RunDispose(d) PROVE Goal(b)
    BY <1>0, <2>12, Disposes DEF CleanupInv, Disposing
  <2> QED BY <2>7, <2>8, <2>9, <2>10, <2>11, <2>12 DEF KernelNext, BootStep
<1> QED BY <1>3, <1>4

(* The invariants hold before the first call. *)

LEMMA UnwindInit == KernelInit => ReportsInv /\ OwnersInv /\ CleanupInv /\ OrderInv
<1> SUFFICES ASSUME KernelInit PROVE ReportsInv /\ OwnersInv /\ CleanupInv /\ OrderInv
  OBVIOUS
<1> USE DEF KernelInit
<1>1. \A b \in BootCall : ~Busy(b) /\ ~Done(b) /\ boots[b].stage # "applying"
  BY DEF Resting, Busy, Done
<1>2. \A d \in DisposeCall : ~Disposing(d)
  BY DEF Resting, Disposing
<1>3. Came = {} /\ Tried = {}
  BY DEF Came, Tried, ToSet
<1>4. Owed = << >>
  BY <1>2 DEF Owed, Reverse
<1>5. ReportsInv
  BY <1>1 DEF ReportsInv
<1>6. OwnersInv
  BY <1>1 DEF OwnersInv, Once, Backwards
<1>7. CleanupInv
  BY <1>1, <1>2, <1>3 DEF CleanupInv
<1>8. OrderInv
  BY <1>1, <1>4 DEF OrderInv, InTurn
<1> QED BY <1>5, <1>6, <1>7, <1>8

(* What ran is the beginning of what is owed. *)

LEMMA RanIsOwed ==
  ASSUME KernelTypes
  PROVE  /\ \A i \in DOMAIN ran : i \in DOMAIN Owed /\ Owed[i] = ran[i]
         /\ Drained => Owed = ran
<1>1. ran \in Seq(Registered) /\ Reverse(callbacks) \in Seq(Registered)
  BY DEF KernelTypes, Reverse
<1>2. ASSUME NEW d \in DisposeCall, Disposing(d) PROVE disposals[d].left \in Seq(Registered)
  BY <1>2, UnwindingCall DEF Disposing, Unwinding
<1>3. \E list \in Seq(Registered) : Owed = ran \o list /\ (Drained => list = << >>)
  <2>1. CASE \E d \in DisposeCall : Disposing(d)
    <3> DEFINE d == CHOOSE d \in DisposeCall : Disposing(d)
    <3>1. d \in DisposeCall /\ Disposing(d)
      BY <2>1
    <3>2. Owed = ran \o disposals[d].left
      BY <2>1 DEF Owed
    <3>3. Drained => disposals[d].left = << >>
      BY <3>1 DEF Drained
    <3> HIDE DEF d
    <3> QED BY <1>2, <3>1, <3>2, <3>3
  <2>2. CASE ~\E d \in DisposeCall : Disposing(d)
    <3>1. Owed = ran \o Reverse(callbacks)
      BY <2>2 DEF Owed
    <3>2. ASSUME Drained PROVE Reverse(callbacks) = << >>
      BY <3>2 DEF Drained, Reverse
    <3> QED BY <1>1, <3>1, <3>2
  <2> QED BY <2>1, <2>2
<1> QED BY <1>1, <1>3

(* In a serial history the disposals unwind what was booted. *)

LEMMA SerialUnwinds ==
  ASSUME KernelTypes, OrderInv, ~overlap
  PROVE  /\ \A i, j \in DOMAIN ran : ran[i] = ran[j] => i = j
         /\ \A i, j \in DOMAIN ran : Gave(ran[j].plugin, ran[i].plugin) => i < j
         /\ (bootedPlugins = << >> /\ \E b \in BootCall : boots[b].stage = "done")
              => \A p \in Tried \ Failed :
                   profile[p].dispose => Callback(p, "dispose") \in ToSet(ran)
<1>1. \A i \in DOMAIN ran : i \in DOMAIN Owed /\ Owed[i] = ran[i]
  BY RanIsOwed
<1>2. InTurn(Owed)
  BY DEF OrderInv
<1>3. \A i, j \in DOMAIN ran : ran[i] = ran[j] => i = j
  BY <1>1, <1>2 DEF InTurn
<1>4. \A i, j \in DOMAIN ran : Gave(ran[j].plugin, ran[i].plugin) => i < j
  BY <1>1, <1>2 DEF InTurn
<1>5. ASSUME bootedPlugins = << >>, NEW b \in BootCall, boots[b].stage = "done",
             NEW p \in Tried \ Failed, profile[p].dispose
      PROVE  Callback(p, "dispose") \in ToSet(ran)
  <2>1. p \in Well(b)
    BY <1>5 DEF Well, Failed
  <2>2. Came = {}
    BY <1>5 DEF Came, ToSet
  <2>3. Drained /\ Within(p, Owed)
    BY <1>5, <2>1, <2>2 DEF OrderInv, Done
  <2>4. Within(p, ran)
    BY <2>3, RanIsOwed
  <2> QED BY <1>5, <2>4 DEF Within, ToSet
<1> QED BY <1>3, <1>4, <1>5

----
(* The cleanups of onDispose(), where each is: run, registered, or still left to *)
(* a disposal (counted from the end of its list, so that a place keeps its name). *)
Registers(list, i, p) == i \in DOMAIN list /\ list[i] = Callback(p, "hook")
Hooks ==
  {h \in [where : {"ran", "new", "left"}, call : Nat, at : Nat, plugin : Entries] :
     \/ h.where = "ran" /\ h.call = 0 /\ Registers(ran, h.at, h.plugin)
     \/ h.where = "new" /\ h.call = 0 /\ Registers(callbacks, h.at, h.plugin)
     \/ /\ h.where = "left" /\ h.call \in DisposeCall /\ disposals[h.call] # Resting
        /\ LET left == disposals[h.call].left
           IN  Registers(left, Len(left) + 1 - h.at, h.plugin)}

(* Each of them has a call of apply() of its own. *)
Paid(hooks, log) ==
  \E f \in [hooks -> DOMAIN log] :
    /\ \A h, k \in hooks : f[h] = f[k] => h = k
    /\ \A h \in hooks : log[f[h]].plugin = h.plugin
HooksInv == Paid(Hooks, attempted)

(* They stay paid for when they move, when some are gone, and when one more *)

(* comes with a call of its own.                                            *)
LEMMA PaidMoves ==
  ASSUME NEW hooks, NEW log, Paid(hooks, log), NEW more, NEW g \in [more -> hooks],
         \A h, k \in more : g[h] = g[k] => h = k,
         \A h \in more : g[h].plugin = h.plugin
  PROVE  Paid(more, log)
<1>1. PICK f \in [hooks -> DOMAIN log] :
        /\ \A h, k \in hooks : f[h] = f[k] => h = k
        /\ \A h \in hooks : log[f[h]].plugin = h.plugin
  BY DEF Paid
<1> DEFINE w == [h \in more |-> f[g[h]]]
<1>2. w \in [more -> DOMAIN log]
  BY <1>1
<1>3. \A h, k \in more : w[h] = w[k] => h = k
  BY <1>1
<1>4. \A h \in more : log[w[h]].plugin = h.plugin
  BY <1>1
<1> QED BY <1>2, <1>3, <1>4 DEF Paid

LEMMA PaidFewer ==
  ASSUME NEW hooks, NEW log, Paid(hooks, log), NEW more \in SUBSET hooks
  PROVE  Paid(more, log)
<1> DEFINE g == [h \in more |-> h]
<1>1. /\ g \in [more -> hooks] /\ \A h, k \in more : g[h] = g[k] => h = k
      /\ \A h \in more : g[h].plugin = h.plugin
  OBVIOUS
<1> HIDE DEF g
<1> QED BY <1>1, PaidMoves

LEMMA PaidOneMore ==
  ASSUME NEW X, NEW log \in Seq(X), NEW entry \in X, NEW hooks, Paid(hooks, log),
         NEW h, h.plugin = entry.plugin, NEW more \in SUBSET (hooks \cup {h})
  PROVE  Paid(more, Append(log, entry))
<1>1. PICK f \in [hooks -> DOMAIN log] :
        /\ \A x, k \in hooks : f[x] = f[k] => x = k
        /\ \A x \in hooks : log[f[x]].plugin = x.plugin
  BY DEF Paid
<1> DEFINE longer == Append(log, entry)
           last == Len(log) + 1
           w == [x \in more |-> IF x = h THEN last ELSE f[x]]
<1>2. /\ last \in DOMAIN longer /\ longer[last] = entry /\ last \notin DOMAIN log
      /\ \A i \in DOMAIN log : i \in DOMAIN longer /\ longer[i] = log[i]
  OBVIOUS
<1> HIDE DEF longer, last
<1>3. \A x \in more : x # h => x \in hooks /\ f[x] \in DOMAIN log
  BY <1>1
<1>4. w \in [more -> DOMAIN longer]
  BY <1>2, <1>3
<1>5. \A x, k \in more : w[x] = w[k] => x = k
  BY <1>1, <1>2, <1>3
<1>6. \A x \in more : longer[w[x]].plugin = x.plugin
  BY <1>1, <1>2, <1>3
<1>7. Paid(more, longer)
  <2> HIDE DEF w
  <2> QED BY <1>4, <1>5, <1>6 DEF Paid
<1> QED BY <1>7 DEF longer

(* Where the places of a list go. *)

LEMMA RegistersAppend ==
  ASSUME NEW list \in Seq(Registered), NEW c \in Registered, NEW i, NEW p
  PROVE  Registers(Append(list, c), i, p)
           <=> Registers(list, i, p) \/ (i = Len(list) + 1 /\ c = Callback(p, "hook"))
BY DEF Registers

(* Taking the first callback of a list leaves the others at their places. *)

LEMMA RegistersTail ==
  ASSUME NEW list \in Seq(Registered), list # << >>, NEW k \in Nat, NEW p,
         Registers(Tail(list), Len(Tail(list)) + 1 - k, p)
  PROVE  Registers(list, Len(list) + 1 - k, p) /\ k # Len(list)
<1>1. Len(Tail(list)) = Len(list) - 1 /\ Len(list) \in Nat \ {0}
  OBVIOUS
<1>2. Len(list) - k \in 1 .. Len(list) - 1
  BY <1>1 DEF Registers
<1>3. Tail(list)[Len(list) - k] = list[Len(list) + 1 - k] /\ Len(list) + 1 - k \in DOMAIN list
  BY <1>1, <1>2
<1>4. Len(Tail(list)) + 1 - k = Len(list) - k
  BY <1>1
<1>5. Tail(list)[Len(list) - k] = Callback(p, "hook")
  BY <1>4 DEF Registers
<1>6. k # Len(list)
  <2>1. Len(list) - k >= 1
    BY <1>1, <1>2
  <2>2. Len(list) \in Nat
    BY <1>1
  <2> QED BY <2>1, <2>2
<1> QED BY <1>3, <1>5, <1>6 DEF Registers

LEMMA RegistersReverse ==
  ASSUME NEW list \in Seq(Registered), NEW k \in Nat, NEW p,
         Registers(Reverse(list), Len(Reverse(list)) + 1 - k, p)
  PROVE  Registers(list, k, p)
<1>1. Len(Reverse(list)) = Len(list) /\ DOMAIN Reverse(list) = 1 .. Len(list)
  BY DEF Reverse
<1>2. k \in 1 .. Len(list)
  BY <1>1 DEF Registers
<1>3. Reverse(list)[Len(list) + 1 - k] = list[k]
  BY <1>1, <1>2 DEF Reverse
<1> QED BY <1>1, <1>2, <1>3 DEF Registers

(* What makes a record one of the hooks. *)
LEMMA HookIs ==
  ASSUME KernelTypes, NEW h
  PROVE  h \in Hooks <=>
           /\ h \in [where : {"ran", "new", "left"}, call : Nat, at : Nat, plugin : Entries]
           /\ \/ h.where = "ran" /\ h.call = 0 /\ Registers(ran, h.at, h.plugin)
              \/ h.where = "new" /\ h.call = 0 /\ Registers(callbacks, h.at, h.plugin)
              \/ /\ h.where = "left" /\ h.call \in DisposeCall /\ disposals[h.call] # Resting
                 /\ Registers(disposals[h.call].left, Len(disposals[h.call].left) + 1 - h.at, h.plugin)
BY DEF Hooks

(* A boot pays for what it registers. *)

LEMMA BootPays ==
  ASSUME KernelTypes, PlacesInv, HooksInv, NEW b \in BootCall, BootStep(b)
  PROVE  HooksInv'
<1>1. profile' = profile /\ disposals' = disposals /\ ran' = ran /\ Entries' = Entries
  BY BootLeaves DEF BootStep, Entries
<1>2. CASE callbacks' = callbacks /\ attempted' = attempted
  <2>1. Hooks' = Hooks
    BY <1>1, <1>2 DEF Hooks, Registers
  <2> QED BY <1>2, <2>1 DEF HooksInv
<1>3. CASE StartApply(b)
  <2>1. PICK p \in Entries :
          /\ profile[p].inject \subseteq DOMAIN registry
          /\ callbacks' = IF profile[p].hook THEN Append(callbacks, Callback(p, "hook")) ELSE callbacks
          /\ attempted' = Append(attempted, [plugin |-> p, givers |-> {registry[s] : s \in profile[p].inject}])
    BY <1>3, Starts
  <2> DEFINE entry == [plugin |-> p, givers |-> {registry[s] : s \in profile[p].inject}]
             h == [where |-> "new", call |-> 0, at |-> Len(callbacks) + 1, plugin |-> p]
  <2>2. entry \in [plugin : Entries, givers : SUBSET Entries] /\ h.plugin = entry.plugin
    BY <2>1 DEF KernelTypes
  <2>3. attempted' = Append(attempted, entry)
    BY <2>1
  <2> HIDE DEF entry
  <2>4. Callback(p, "hook") \in Registered /\ callbacks \in Seq(Registered)
    BY DEF Callback, Registered, KernelTypes
  <2>5. \A i, q : Registers(callbacks, i, q)' =>
          Registers(callbacks, i, q) \/ (i = Len(callbacks) + 1 /\ q = p)
    <3>1. \A i, q : Registers(callbacks', i, q) =>
            Registers(callbacks, i, q) \/ (i = Len(callbacks) + 1 /\ Callback(p, "hook") = Callback(q, "hook"))
      BY <2>1, <2>4, RegistersAppend
    <3>2. \A q : Callback(p, "hook") = Callback(q, "hook") => q = p
      BY DEF Callback
    <3> QED BY <3>1, <3>2 DEF Registers
  <2>6. Hooks' \subseteq Hooks \cup {h}
    <3>1. SUFFICES ASSUME NEW x \in Hooks', x # h PROVE x \in Hooks
      OBVIOUS
    <3>2. x \in [where : {"ran", "new", "left"}, call : Nat, at : Nat, plugin : Entries]
      BY <1>1, <3>1 DEF Hooks
    <3>3. CASE x.where = "new"
      <4>1. x.call = 0 /\ Registers(callbacks, x.at, x.plugin)'
        BY <3>1, <3>3 DEF Hooks
      <4>2. Registers(callbacks, x.at, x.plugin)
        BY <2>5, <3>1, <3>2, <3>3, <4>1
      <4> QED BY <3>2, <3>3, <4>1, <4>2, HookIs
    <3>4. CASE x.where # "new"
      BY <1>1, <3>1, <3>2, <3>4 DEF Hooks, Registers
    <3> QED BY <3>3, <3>4
  <2>7. attempted \in Seq([plugin : Entries, givers : SUBSET Entries])
    BY DEF KernelTypes
  <2>8. PICK more : more = Hooks'
    OBVIOUS
  <2> HIDE DEF h
  <2>9. Paid(more, Append(attempted, entry))
    BY <2>2, <2>6, <2>7, <2>8, PaidOneMore DEF HooksInv
  <2> QED BY <2>3, <2>8, <2>9 DEF HooksInv, Paid
<1>4. CASE ApplyEnds(b)
  <2> DEFINE at == boots[b].at
  <2>1. at \in Entries /\ attempted' = attempted
        /\ callbacks' = IF profile[at].dispose THEN Append(callbacks, Callback(at, "dispose")) ELSE callbacks
    BY <1>4 DEF ApplyEnds, PlacesInv
  <2>2. Callback(at, "dispose") \in Registered /\ callbacks \in Seq(Registered)
        /\ \A q : Callback(at, "dispose") # Callback(q, "hook")
    BY <2>1 DEF Callback, Registered, KernelTypes
  <2> HIDE DEF at
  <2>3. \A i, q : Registers(callbacks', i, q) <=> Registers(callbacks, i, q)
    BY <2>1, <2>2, RegistersAppend
  <2>4. Hooks' = Hooks
    BY <1>1, <2>3 DEF Hooks, Registers
  <2> QED BY <2>1, <2>4 DEF HooksInv
<1> QED BY <1>2, <1>3, <1>4 DEF BootStep, BeginBoot, Provide, ApplyFails, BootEnds

(* A disposal moves what was paid for. *)

LEMMA DisposalPays ==
  ASSUME KernelTypes, PlacesInv, HooksInv, NEW d \in DisposeCall, DisposalStep(d)
  PROVE  HooksInv'
<1> DEFINE Kind == [where : {"ran", "new", "left"}, call : Nat, at : Nat, plugin : Entries]
<1>1. /\ \A e \in DisposeCall \ {d} : disposals'[e] = disposals[e]
      /\ profile' = profile /\ attempted' = attempted /\ Entries' = Entries /\ DisposeCall \subseteq Nat
  BY DisposalLeaves, KernelAssumption DEF DisposalStep, Entries
<1>2. callbacks \in Seq(Registered) /\ ran \in Seq(Registered)
  BY DEF KernelTypes
<1>3. SUFFICES Paid(Hooks', attempted)
  BY <1>1 DEF HooksInv
<1>4. PICK more : more = Hooks'
  OBVIOUS
<1>5. /\ \A h \in more : h \in Kind
      /\ \A h \in Hooks : h \in Kind
  BY <1>1, <1>4 DEF Hooks
<1>6. CASE BeginDispose(d)
  <2>1. /\ disposals[d] = Resting /\ disposals'[d] # Resting /\ callbacks' = << >> /\ ran' = ran
        /\ disposals'[d].left = Reverse(callbacks)
    BY <1>6, Unwinds DEF Resting
  <2> DEFINE g == [h \in more |-> IF h.where = "left" /\ h.call = d
                                  THEN [where |-> "new", call |-> 0, at |-> h.at, plugin |-> h.plugin] ELSE h]
  <2>2. \A h \in more : h.where # "new"
    BY <1>4, <2>1 DEF Hooks, Registers
  <2>3. ASSUME NEW h \in more PROVE g[h] \in Hooks /\ g[h].plugin = h.plugin
    <3>1. h \in Kind
      BY <1>5
    <3>2. CASE h.where = "left" /\ h.call = d
      <4>1. Registers(Reverse(callbacks), Len(Reverse(callbacks)) + 1 - h.at, h.plugin)
        BY <1>4, <2>1, <2>3, <3>2 DEF Hooks, Registers
      <4>2. Registers(callbacks, h.at, h.plugin)
        BY <1>2, <3>1, <4>1, RegistersReverse
      <4>3. g[h] = [where |-> "new", call |-> 0, at |-> h.at, plugin |-> h.plugin]
        BY <3>2
      <4> HIDE DEF g
      <4> QED BY <3>1, <4>2, <4>3, HookIs
    <3>3. CASE ~(h.where = "left" /\ h.call = d)
      <4>1. g[h] = h
        BY <3>3
      <4>2. h \in Hooks
        BY <1>1, <1>4, <2>1, <2>2, <2>3, <3>1, <3>3 DEF Hooks, Registers
      <4> QED BY <4>1, <4>2
    <3> QED BY <3>2, <3>3
  <2>4. \A h, k \in more : g[h] = g[k] => h = k
    <3>1. SUFFICES ASSUME NEW h \in more, NEW k \in more, g[h] = g[k] PROVE h = k
      OBVIOUS
    <3>2. h \in Kind /\ k \in Kind /\ h.where # "new" /\ k.where # "new"
      BY <1>5, <2>2
    <3>3. (h.where = "left" /\ h.call = d) <=> (k.where = "left" /\ k.call = d)
      BY <3>1, <3>2
    <3>4. CASE h.where = "left" /\ h.call = d
      <4>1. h.at = k.at /\ h.plugin = k.plugin /\ h.where = k.where /\ h.call = k.call
        BY <3>1, <3>3, <3>4
      <4> QED BY <3>2, <4>1
    <3>5. CASE ~(h.where = "left" /\ h.call = d)
      BY <3>1, <3>3, <3>5
    <3> QED BY <3>4, <3>5
  <2>5. g \in [more -> Hooks]
    BY <2>3
  <2>6. \A h \in more : g[h].plugin = h.plugin
    BY <2>3
  <2> HIDE DEF g
  <2>7. Paid(more, attempted)
    BY <2>4, <2>5, <2>6, PaidMoves DEF HooksInv
  <2> QED BY <1>4, <2>7
<1>7. CASE RunCallback(d)
  <2> DEFINE left == disposals[d].left
             first == Head(left)
  <2>1. /\ disposals[d].stage = "callbacks" /\ left # << >> /\ disposals'[d].left = Tail(left)
        /\ ran' = Append(ran, first) /\ callbacks' = callbacks /\ disposals[d] # Resting
    BY <1>7, Calls DEF Resting
  <2>2. left \in Seq(Registered) /\ first \in Registered
    BY <2>1, UnwindingCall DEF Unwinding
  <2> DEFINE g == [h \in more |-> IF h.where = "ran" /\ h.at = Len(ran) + 1
                                  THEN [where |-> "left", call |-> d, at |-> Len(left), plugin |-> h.plugin] ELSE h]
  <2>3. first = left[1] /\ Len(left) \in Nat \ {0} /\ 1 \in DOMAIN left
    BY <2>1, <2>2
  <2> HIDE DEF left, first
  <2>4. \A h \in more : h.where = "left" /\ h.call = d => h.at # Len(left) /\ Registers(left, Len(left) + 1 - h.at, h.plugin)
    <3>1. SUFFICES ASSUME NEW h \in more, h.where = "left", h.call = d
                   PROVE  h.at # Len(left) /\ Registers(left, Len(left) + 1 - h.at, h.plugin)
      OBVIOUS
    <3>2. Registers(Tail(left), Len(Tail(left)) + 1 - h.at, h.plugin) /\ h.at \in Nat
      BY <1>4, <1>5, <2>1, <3>1 DEF Hooks, Registers
    <3> QED BY <2>1, <2>2, <3>2, RegistersTail
  <2>5. ASSUME NEW h \in more PROVE g[h] \in Hooks /\ g[h].plugin = h.plugin
    <3>1. h \in Kind
      BY <1>5
    <3>2. CASE h.where = "ran" /\ h.at = Len(ran) + 1
      <4>1. first = Callback(h.plugin, "hook")
        <5>1. Registers(Append(ran, first), h.at, h.plugin)
          BY <1>4, <2>1, <2>5, <3>2 DEF Hooks, Registers
        <5>2. ~Registers(ran, h.at, h.plugin)
          BY <1>2, <3>2 DEF Registers
        <5> QED BY <1>2, <2>2, <5>1, <5>2, RegistersAppend
      <4>2. Registers(left, Len(left) + 1 - Len(left), h.plugin)
        <5>1. Len(left) + 1 - Len(left) = 1
          BY <2>3
        <5> QED BY <2>3, <4>1, <5>1 DEF Registers
      <4>3. g[h] = [where |-> "left", call |-> d, at |-> Len(left), plugin |-> h.plugin]
        BY <3>2
      <4>4. disposals[d] # Resting /\ d \in Nat
        BY <1>1, <2>1
      <4> HIDE DEF g
      <4> QED BY <2>3, <3>1, <4>2, <4>3, <4>4, HookIs DEF left
    <3>3. CASE h.where = "ran" /\ h.at # Len(ran) + 1
      <4>1. g[h] = h
        BY <3>3
      <4>2. h.call = 0 /\ Registers(Append(ran, first), h.at, h.plugin)
        BY <1>4, <2>1, <2>5, <3>3 DEF Hooks, Registers
      <4>3. Registers(ran, h.at, h.plugin)
        BY <1>2, <2>2, <3>3, <4>2, RegistersAppend
      <4> HIDE DEF g
      <4> QED BY <3>1, <3>3, <4>1, <4>2, <4>3, HookIs
    <3>4. CASE h.where # "ran"
      <4>1. g[h] = h
        BY <3>4
      <4>2. h \in Hooks
        <5>1. CASE h.where = "left" /\ h.call = d
          BY <1>1, <2>1, <2>4, <2>5, <3>1, <5>1, HookIs DEF left
        <5>2. CASE ~(h.where = "left" /\ h.call = d)
          BY <1>1, <1>4, <2>1, <2>5, <3>1, <3>4, <5>2 DEF Hooks, Registers
        <5> QED BY <5>1, <5>2
      <4> QED BY <4>1, <4>2
    <3> QED BY <3>2, <3>3, <3>4
  <2>6. \A h, k \in more : g[h] = g[k] => h = k
    <3>1. SUFFICES ASSUME NEW h \in more, NEW k \in more, g[h] = g[k] PROVE h = k
      OBVIOUS
    <3>2. h \in Kind /\ k \in Kind
      BY <1>5
    <3> DEFINE Moved(x) == x.where = "ran" /\ x.at = Len(ran) + 1
    <3>3. \A x \in more : Moved(x) => g[x] = [where |-> "left", call |-> d, at |-> Len(left), plugin |-> x.plugin] /\ x.call = 0
      BY <1>4 DEF Hooks
    <3>4. \A x \in more : ~Moved(x) => g[x] = x
      OBVIOUS
    <3> HIDE DEF g, Moved
    <3>8. ASSUME NEW x \in more, NEW y \in more, g[x] = g[y], Moved(x) PROVE Moved(y)
      <4>1. SUFFICES ASSUME ~Moved(y) PROVE FALSE
        OBVIOUS
      <4>2. y = [where |-> "left", call |-> d, at |-> Len(left), plugin |-> x.plugin]
        BY <3>3, <3>4, <3>8, <4>1
      <4>3. y.where = "left" /\ y.call = d /\ y.at = Len(left)
        BY <4>2
      <4> QED BY <2>4, <4>3
    <3>5. Moved(h) <=> Moved(k)
      BY <3>1, <3>8
    <3>6. CASE Moved(h)
      <4>1. h.plugin = k.plugin
        <5>1. g[h].plugin = h.plugin /\ g[k].plugin = k.plugin
          BY <2>5
        <5> QED BY <3>1, <5>1
      <4>2. h.where = k.where /\ h.at = k.at /\ h.call = k.call
        BY <3>3, <3>5, <3>6 DEF Moved
      <4> QED BY <3>2, <4>1, <4>2
    <3>7. CASE ~Moved(h)
      BY <3>1, <3>4, <3>5, <3>7
    <3> QED BY <3>6, <3>7
  <2>7. g \in [more -> Hooks]
    BY <2>5
  <2>8. \A h \in more : g[h].plugin = h.plugin
    BY <2>5
  <2> HIDE DEF g
  <2>9. Paid(more, attempted)
    BY <2>6, <2>7, <2>8, PaidMoves DEF HooksInv
  <2> QED BY <1>4, <2>9
<1>8. CASE CallbacksDone(d)
  <2>1. /\ disposals[d].stage = "callbacks" /\ disposals'[d].left = disposals[d].left
        /\ callbacks' = callbacks /\ ran' = ran /\ disposals[d] # Resting
    BY <1>8, CallsEnd DEF Resting
  <2>2. more \subseteq Hooks
    BY <1>1, <1>4, <2>1 DEF Hooks, Registers
  <2> QED BY <1>4, <2>2, PaidFewer DEF HooksInv
<1>9. CASE RunDispose(d)
  <2>1. PICK place \in DOMAIN disposals[d].plugins :
          /\ disposals[d].stage = "plugins" /\ disposals'[d].left = disposals[d].left
          /\ callbacks' = callbacks /\ ran' = Append(ran, Callback(disposals[d].plugins[place], "dispose"))
    BY <1>9, Disposes
  <2>2. disposals[d] # Resting /\ disposals[d].plugins[place] \in Entries
    BY <2>1, UnwindingCall DEF Resting, Unwinding
  <2>3. \A i, p : Registers(ran', i, p) => Registers(ran, i, p)
    <3> DEFINE c == Callback(disposals[d].plugins[place], "dispose")
    <3>1. c \in Registered /\ \A p : c # Callback(p, "hook")
      BY <2>2 DEF Callback, Registered
    <3>2. ran' = Append(ran, c)
      BY <2>1
    <3> HIDE DEF c
    <3> QED BY <1>2, <3>1, <3>2, RegistersAppend
  <2>4. more \subseteq Hooks
    BY <1>1, <1>4, <2>1, <2>2, <2>3 DEF Hooks, Registers
  <2> QED BY <1>4, <2>4, PaidFewer DEF HooksInv
<1> QED BY <1>6, <1>7, <1>8, <1>9 DEF DisposalStep

(* So no cleanup runs more often than apply() was called. *)
LEMMA HooksCounted ==
  ASSUME KernelTypes, HooksInv, NEW p \in Tried
  PROVE  Cardinality(HooksRun(p)) <= Cardinality(Attempts(p))
<1>1. PICK f \in [Hooks -> DOMAIN attempted] :
        /\ \A h, k \in Hooks : f[h] = f[k] => h = k
        /\ \A h \in Hooks : attempted[f[h]].plugin = h.plugin
  BY DEF HooksInv, Paid
<1>2. p \in Entries
  <2> DEFINE R == [plugin : Entries, givers : SUBSET Entries]
  <2>1. PICK i \in DOMAIN attempted : p = attempted[i].plugin
    BY DEF Tried
  <2> HIDE DEF R
  <2>2. attempted \in Seq(R)
    BY DEF KernelTypes, R
  <2>3. attempted[i] \in R
    BY <2>1, <2>2
  <2> QED BY <2>1, <2>3 DEF R
<1> DEFINE hook(i) == [where |-> "ran", call |-> 0, at |-> i, plugin |-> p]
           w == [i \in HooksRun(p) |-> f[hook(i)]]
<1>3. \A i \in HooksRun(p) : hook(i) \in Hooks
  <2>1. SUFFICES ASSUME NEW i \in HooksRun(p) PROVE hook(i) \in Hooks
    OBVIOUS
  <2>2. i \in Nat /\ Registers(ran, i, p)
    BY DEF HooksRun, Registers, KernelTypes
  <2> QED BY <1>2, <2>2, HookIs
<1>4. w \in [HooksRun(p) -> Attempts(p)]
  <2>1. \A i \in HooksRun(p) : f[hook(i)] \in DOMAIN attempted /\ attempted[f[hook(i)]].plugin = p
    BY <1>1, <1>3
  <2> QED BY <2>1 DEF Attempts
<1>5. \A i, j \in HooksRun(p) : w[i] = w[j] => i = j
  <2>1. SUFFICES ASSUME NEW i \in HooksRun(p), NEW j \in HooksRun(p), w[i] = w[j] PROVE i = j
    OBVIOUS
  <2>2. f[hook(i)] = f[hook(j)]
    BY <2>1
  <2>3. hook(i) = hook(j)
    BY <1>1, <1>3, <2>2
  <2>4. hook(i).at = i /\ hook(j).at = j
    OBVIOUS
  <2> QED BY <2>3, <2>4
<1>6. IsFiniteSet(Attempts(p))
  <2>1. Attempts(p) \in SUBSET (1 .. Len(attempted)) /\ Len(attempted) \in Nat
    BY DEF Attempts, KernelTypes
  <2>2. IsFiniteSet(1 .. Len(attempted))
    BY <2>1, FS_Interval
  <2> QED BY <2>1, <2>2, FS_Subset
<1>7. w \in Injection(HooksRun(p), Attempts(p))
  <2> HIDE DEF w
  <2> QED BY <1>4, <1>5 DEF Injection, IsInjective
<1> QED BY <1>6, <1>7, FS_Injection

LEMMA HooksInit == KernelInit => HooksInv
<1> SUFFICES ASSUME KernelInit PROVE HooksInv
  OBVIOUS
<1>1. Hooks = {}
  BY DEF KernelInit, Hooks, Registers
<1> DEFINE f == [h \in {} |-> h]
<1>2. f \in [{} -> DOMAIN attempted]
  OBVIOUS
<1> QED BY <1>1, <1>2 DEF HooksInv, Paid

LEMMA HooksStep ==
  ASSUME KernelTypes, PlacesInv, HooksInv, [KernelNext]_kernel
  PROVE  HooksInv'
<1>1. CASE UNCHANGED kernel
  <2>1. Hooks' = Hooks /\ attempted' = attempted
    BY <1>1 DEF kernel, Hooks, Registers, Entries
  <2> QED BY <2>1 DEF HooksInv
<1>2. CASE \E b \in BootCall : BootStep(b)
  BY <1>2, BootPays
<1>3. CASE \E d \in DisposeCall : DisposalStep(d)
  BY <1>3, DisposalPays
<1> QED BY <1>1, <1>2, <1>3 DEF KernelNext, BootStep, DisposalStep

----
KernelInv ==
  /\ KernelTypes /\ PlacesInv /\ SerialInv /\ ReportsInv
  /\ OwnersInv /\ CleanupInv /\ OrderInv /\ HooksInv

LEMMA KernelInvStep ==
  ASSUME KernelInv, [KernelNext]_kernel
  PROVE  KernelInv'
<1> USE DEF KernelInv
<1>1. KernelTypes'
  <2>1. CASE UNCHANGED kernel
    BY <2>1 DEF kernel, KernelTypes, Entries, Registered, Loading, Unwinding
  <2>2. CASE \E b \in BootCall : BootStep(b)
    BY <2>2, BootStepTypes DEF BootStep
  <2>3. CASE \E d \in DisposeCall : DisposalStep(d)
    BY <2>3, DisposalStepTypes DEF DisposalStep
  <2> QED BY <2>1, <2>2, <2>3 DEF KernelNext, BootStep, DisposalStep
<1>2. PlacesInv' /\ SerialInv' /\ ReportsInv'
  BY PlacesStep, SerialStep, ReportsStep
<1>3. OwnersInv' /\ CleanupInv'
  BY OwnersStep, CleanupStep
<1>4. OrderInv'
  BY <1>2, <1>3, OrderStep
<1>5. HooksInv'
  BY HooksStep
<1> QED BY <1>1, <1>2, <1>3, <1>4, <1>5

(* The records of the calls, the log of what was tried, the callbacks and the *)

(* registry hold together as KernelInv says, for any profiles and any number  *)
(* of calls of boot() and dispose(), overlapping or not.                      *)
THEOREM KernelInvariant == KernelSpec => []KernelInv
<1>1. KernelInit => KernelInv
  BY TypesInit, UnwindInit, HooksInit DEF KernelInv
<1>2. KernelInv /\ [KernelNext]_kernel => KernelInv'
  BY KernelInvStep
<1> QED BY <1>1, <1>2, PTL DEF KernelSpec

(* "Topological dependency resolution" for any profile: whatever order it    *)

(* lists its plugins in, a boot nothing overlapped tries exactly those whose  *)
(* services came up and reports all others, whichever of them failed.         *)
THEOREM BootIsComplete == KernelSpec => []BootReachesAll
<1>1. KernelInv => BootReachesAll
  BY ReportIsComplete DEF KernelInv
<1> QED BY <1>1, KernelInvariant, PTL

(* "Reverse-order disposal ... every plugin still disposed": without overlap, *)

(* callbacks run once, every plugin goes before those whose services it was  *)
(* given, and none that came up stays; and even calls that overlap run no    *)
(* cleanup more often than apply() registered it.                            *)
THEOREM DisposalsUnwind == KernelSpec => []DisposalUnwinds
<1>1. KernelInv => DisposalUnwinds
  <2> SUFFICES ASSUME KernelInv PROVE DisposalUnwinds
    OBVIOUS
  <2>1. KernelTypes /\ OrderInv /\ HooksInv
    BY DEF KernelInv
  <2>2. \A p \in Tried : Cardinality(HooksRun(p)) <= Cardinality(Attempts(p))
    BY <2>1, HooksCounted
  <2> QED BY <2>1, <2>2, SerialUnwinds DEF DisposalUnwinds
<1> QED BY <1>1, KernelInvariant, PTL

----
(* A run of setup is past step s. *)
Beyond(s) ==
  step \in (CASE s = "upstream"    -> {"build", "dist", "add", "composition", "seed", "probe"}
              [] s = "build"       -> {"dist", "add", "composition", "seed", "probe"}
              [] s = "dist"        -> {"add", "composition", "seed", "probe"}
              [] s = "add"         -> {"composition", "seed", "probe"}
              [] s = "composition" -> {"seed", "probe"}
              [] s = "seed"        -> {"probe"})

SetupTypes ==
  /\ request \in Requests
  /\ built \subseteq {"cli", "lib"} /\ added \in BOOLEAN /\ seeded \in BOOLEAN
  /\ step \in {"idle", "upstream", "build", "dist", "add", "composition", "seed", "probe"}

(* What the steps behind a run have left for those before it. *)
ProgressInv ==
  /\ Beyond("upstream") => Resolved
  /\ Beyond("build") => "cli" \in built
  /\ Beyond("dist") => dist = Bundled
  /\ Beyond("add") => added
  /\ Beyond("composition") =>
       /\ "lib" \in built /\ patch # "absent"
       /\ patch = request.composition \/ kept
  /\ Beyond("seed") => seeded

(* READY stands for a profile that still is what setup left. *)
ReadyInv ==
  verdict.ready =>
    /\ Resolved /\ built = {"cli", "lib"} /\ dist = Bundled
    /\ added /\ patch # "absent" /\ seeded

SetupInv == SetupTypes /\ ProgressInv /\ ReadyInv

LEMMA SetupInitially == SetupInit => SetupInv
<1> SUFFICES ASSUME SetupInit PROVE SetupInv
  OBVIOUS
<1>1. added \in BOOLEAN /\ seeded \in BOOLEAN
  BY Zenon DEF SetupInit
<1> QED BY <1>1 DEF SetupInit, SetupInv, SetupTypes, ProgressInv, ReadyInv, Beyond, NoVerdict

(* What ReadyIsStable says of a step. *)
StableStep ==
  /\ (verdict' # verdict /\ verdict'.ready)
          => /\ seeded /\ WarnedChecks(Tools) = {}
             /\ upstream # "unpinned" => DoctorReady(Tools)
             /\ FailedChecks(Tools) \subseteq {"upstream-pin"}
             /\ patch = request.composition \/ verdict'.kept
             /\ verdict'.kept =>
                  \/ verdict'.warned
                  \/ EffectiveComposition(verdict'.mounted) = request.composition
  /\ (verdict.ready /\ verdict'.ready /\ ~request.force) => disk' = disk
  /\ (step # "idle" /\ patch' \notin {patch, "edited"}) => patch = "absent" \/ request.force

LEMMA ReadyStands == SetupInv /\ UNCHANGED setup => SetupInv' /\ StableStep
BY DEF SetupInv, SetupTypes, ProgressInv, ReadyInv, Beyond, Resolved, setup, disk, session, StableStep

LEMMA StartSafe ==
  ASSUME SetupInv, NEW r \in Requests, Start(r)
  PROVE  SetupInv' /\ StableStep
BY DEF Start, SetupInv, SetupTypes, ProgressInv, ReadyInv, Beyond, Resolved, disk, NoVerdict, StableStep

LEMMA EditPatchSafe ==
  ASSUME SetupInv, EditPatch
  PROVE  SetupInv' /\ StableStep
BY DEF EditPatch, SetupInv, SetupTypes, ProgressInv, ReadyInv, Beyond, Resolved, session, NoVerdict, StableStep

LEMMA RepairSafe ==
  ASSUME SetupInv, RepairUpstream
  PROVE  SetupInv' /\ StableStep
BY DEF RepairUpstream, SetupInv, SetupTypes, ProgressInv, ReadyInv, Beyond, Resolved, session, NoVerdict, StableStep

LEMMA UpstreamSafe ==
  ASSUME SetupInv, UpstreamStep
  PROVE  SetupInv' /\ StableStep
BY DEF UpstreamStep, CloneUpstream, Stops, Goes, SetupInv, SetupTypes, ProgressInv, ReadyInv, Beyond, Resolved,
       disk, session, NoVerdict, StableStep

LEMMA BuildSafe ==
  ASSUME SetupInv, BuildStep
  PROVE  SetupInv' /\ StableStep
BY DEF BuildStep, BuildUpstream, Stops, Goes, SetupInv, SetupTypes, ProgressInv, ReadyInv, Beyond, Resolved,
       disk, session, NoVerdict, StableStep

LEMMA DistSafe ==
  ASSUME SetupInv, DistStep
  PROVE  SetupInv' /\ StableStep
BY DEF DistStep, RebuildDist, Stops, Goes, SetupInv, SetupTypes, ProgressInv, ReadyInv, Beyond, Resolved,
       disk, session, NoVerdict, StableStep

LEMMA AddSafe ==
  ASSUME SetupInv, AddStep
  PROVE  SetupInv' /\ StableStep
<1>1. /\ added \in BOOLEAN /\ added' \in BOOLEAN /\ (added => added' = added)
      /\ (added' = TRUE /\ step' = "composition") \/ step' = "idle"
  BY Zenon DEF AddStep, Stops, Goes, SetupInv, SetupTypes
<1>2. (added' = TRUE) => added'
  OBVIOUS
<1>3. step' # "idle" => added'
  BY <1>1, <1>2, Zenon
<1>4. /\ Goes("composition") \/ Stops
      /\ step = "add" /\ step' \in {"composition", "idle"}
      /\ UNCHANGED <<upstream, modules, built, dist, patch, seeded, session, kept>>
  BY <1>1 DEF AddStep, Stops, Goes
<1>5. SetupTypes' /\ ProgressInv'
  BY <1>1, <1>3, <1>4 DEF SetupInv, SetupTypes, ProgressInv, Beyond, Resolved, session
<1>6. (added => added') /\ (added => added' = added)
  BY <1>1, Zenon
<1>7. ReadyInv' /\ StableStep
  BY <1>4, <1>6 DEF Stops, Goes, SetupInv, SetupTypes, ReadyInv, Resolved, disk, session, NoVerdict, StableStep
<1> QED BY <1>5, <1>7 DEF SetupInv

LEMMA CompositionSafe ==
  ASSUME SetupInv, CompositionStep
  PROVE  SetupInv' /\ StableStep
<1>1. request.composition # "absent"
  BY SetupAssumption DEF SetupInv, SetupTypes, Compositions
<1>2. CASE KeepsPatch /\ "lib" \in built /\ Goes("seed") /\ UNCHANGED patch /\ kept' = (patch # request.composition)
  <2>1. patch = request.composition \/ kept'
    BY <1>2, Zenon
  <2> QED
    BY <1>2, <2>1 DEF CompositionStep, KeepsPatch, Goes, SetupInv, SetupTypes, ProgressInv, ReadyInv, Beyond, Resolved,
       disk, session, StableStep
<1>3. CASE ~KeepsPatch /\ "lib" \in built /\ Goes("seed") /\ patch' = request.composition /\ UNCHANGED kept
  BY <1>1, <1>3 DEF CompositionStep, KeepsPatch, Goes, SetupInv, SetupTypes, ProgressInv, ReadyInv, Beyond, Resolved,
       disk, session, StableStep
<1>4. CASE Stops /\ (patch' = patch \/ ~KeepsPatch)
  BY <1>4 DEF CompositionStep, KeepsPatch, Stops, SetupInv, SetupTypes, ProgressInv, ReadyInv, Beyond, Resolved,
       disk, session, NoVerdict, StableStep
<1> QED BY <1>2, <1>3, <1>4, Zenon DEF CompositionStep

LEMMA SeedSafe ==
  ASSUME SetupInv, SeedStep
  PROVE  SetupInv' /\ StableStep
BY DEF SeedStep, Goes, SetupInv, SetupTypes, ProgressInv, ReadyInv, Beyond, Resolved,
       disk, session, NoVerdict, StableStep

LEMMA ProbeSafe ==
  ASSUME SetupInv, ProbeStep
  PROVE  SetupInv' /\ StableStep
<1>1. /\ Resolved /\ built = {"cli", "lib"} /\ dist = Bundled
      /\ added /\ patch # "absent" /\ seeded
      /\ patch = request.composition \/ kept
      /\ step = "probe" /\ step' = "idle" /\ UNCHANGED <<disk, session, kept>>
      /\ disk' = disk /\ patch' = patch
  BY DEF ProbeStep, SetupInv, SetupTypes, ProgressInv, Beyond, disk
<1>2. SetupInv'
  BY <1>1 DEF SetupInv, SetupTypes, ProgressInv, ReadyInv, Beyond, Resolved, disk, session
<1>3. WarnedChecks(Tools) = {} /\ FailedChecks(Tools) \subseteq {"upstream-pin"}
      /\ (upstream # "unpinned" => FailedChecks(Tools) = {})
  BY <1>1 DEF WarnedChecks, FailedChecks, Tools, Resolved
<1>4. PICK mounted \in BootProbe : IF mounted > 0 THEN SupremeReady(mounted) ELSE verdict' = NoVerdict
  BY DEF ProbeStep
<1>5. CASE mounted > 0
  <2> DEFINE other == EffectiveComposition(mounted) # request.composition
  <2>1. /\ verdict'.kept = kept /\ verdict'.mounted = mounted
        /\ verdict'.warned = (kept /\ other)
    BY <1>4, <1>5 DEF SupremeReady
  <2>2. verdict'.kept =>
          \/ verdict'.warned
          \/ EffectiveComposition(verdict'.mounted) = request.composition
    BY <2>1, Zenon
  <2>3. patch = request.composition \/ verdict'.kept
    BY <1>1, <2>1, Zenon
  <2>4. seeded /\ (upstream # "unpinned" => DoctorReady(Tools))
    BY <1>1, <1>3 DEF DoctorReady
  <2>5. (step # "idle" /\ patch' \notin {patch, "edited"}) => patch = "absent" \/ request.force
    BY <1>1
  <2>6. disk' = disk
    BY <1>1
  <2> QED BY <1>2, <1>3, <2>2, <2>3, <2>4, <2>5, <2>6, Zenon DEF StableStep
<1>6. CASE ~(mounted > 0)
  <2>1. ~verdict'.ready
    BY <1>4, <1>6 DEF NoVerdict
  <2>2. (step # "idle" /\ patch' \notin {patch, "edited"}) => patch = "absent" \/ request.force
    BY <1>1
  <2> QED BY <1>2, <2>1, <2>2, Zenon DEF StableStep
<1> QED BY <1>2, <1>5, <1>6

LEMMA KilledSafe ==
  ASSUME SetupInv, Killed
  PROVE  SetupInv' /\ StableStep
BY DEF Killed, Stops, SetupInv, SetupTypes, ProgressInv, ReadyInv, Beyond, Resolved,
       disk, session, NoVerdict, StableStep

LEMMA SetupStep == SetupInv /\ [SetupNext]_setup => SetupInv' /\ StableStep
BY ReadyStands, StartSafe, EditPatchSafe, RepairSafe, UpstreamSafe, BuildSafe, DistSafe, AddSafe,
   CompositionSafe, SeedSafe, ProbeSafe, KilledSafe DEF SetupNext

(* setup says READY only of a complete profile, changes nothing when it is   *)
(* repeated after READY, and touches no layer that is there without --force, *)
(* whichever steps failed or were killed before, in whatever order the user  *)
(* repaired, edited and repeated.                                            *)
THEOREM SetupIsIdempotent == SetupSpec => ReadyIsStable
<1>1. SetupInit => SetupInv
  BY SetupInitially
<1>2. SetupInv /\ [SetupNext]_setup => SetupInv'
  BY SetupStep
<1>3. SetupInv /\ [SetupNext]_setup => StableStep
  BY SetupStep
<1> QED BY <1>1, <1>2, <1>3, PTL DEF SetupSpec, ReadyIsStable, StableStep
================================================================================
