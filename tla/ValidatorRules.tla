---------------------------- MODULE ValidatorRules ----------------------------
(***************************************************************************)
(* The validators of supreme-verifier that read no file: what each type of *)
(* spec answers on a subject (at the end), and the bounded JSON Schema     *)
(* subset one of them is about: the compile pass, the validation pass with *)
(* its three resource limits, and a reference definition of conformance    *)
(* that knows no limits and no order.                                      *)
(*                                                                         *)
(* Instances are tagged records; an object is a function from keys, whose  *)
(* insertion order is the one of KeyOrder.  Numbers are counted in halves, *)
(* which is enough to tell an integer from another number.                 *)
(* A schema is a record with one field per keyword it uses, and            *)
(*   always  for the schemas true and false,                               *)
(*   junk    for a value that is neither an object nor a boolean,          *)
(*   bad     for the set of keywords whose value has the wrong shape,      *)
(*   unknown for a keyword outside the subset, draft04 for a boolean       *)
(*           exclusiveMinimum/Maximum, dialect for an unknown $schema,     *)
(*   tuple / items and closed / additionalProperties for the two forms of  *)
(*           items and of additionalProperties.                            *)
(* A pattern is the set of strings it matches; $ref names "#" or an entry  *)
(* of the root's $defs (field defs).                                       *)
(***************************************************************************)
EXTENDS Integers, FiniteSets, SequencesExt

CONSTANTS KeyOrder,                        \* every property key, in insertion order
          MaxNodes, MaxDepth, MaxScans, MaxHops    \* SCHEMA_LIMITS

Has(schema, keyword) == keyword \in DOMAIN schema
Opt(schema, keyword, default) == IF Has(schema, keyword) THEN schema[keyword] ELSE default
Entries(f) == SelectSeq(KeyOrder, LAMBDA k : k \in DOMAIN f)
Text(s) == [t |-> "string", s |-> s]

\* Local pointers only: <<>> when nothing is there.
ResolveLocalRef(root, ref) ==
  IF ref = "#" THEN <<root>>
  ELSE IF Has(root, "defs") /\ ref \in DOMAIN root.defs THEN <<root.defs[ref]>> ELSE <<>>

PointerOf(ref) == IF ref = "#" THEN <<>> ELSE <<"defs", ref>>

TypeMatches(name, v) ==
  CASE name = "integer" -> v.t = "number" /\ v.halves % 2 = 0
    [] OTHER -> v.t = name

\* Objects compare without regard to key order, which a function has none of.
JsonDeepEqual(a, b) == a = b
-----------------------------------------------------------------------------
(***************************************************************************)
(* Compilation.  The keywords of a node in the order of the code: each is  *)
(* a refusal or a subschema to compile.                                    *)
(***************************************************************************)
Refuse(verdict) == <<[verdict |-> verdict]>>
RefuseWhen(cond, verdict) == IF cond THEN Refuse(verdict) ELSE <<>>
Shape(schema, keywords) == RefuseWhen(Opt(schema, "bad", {}) \cap keywords # {}, "schema-invalid")
Child(sub, ptr) == <<[sub |-> sub, ptr |-> ptr]>>

ChildOf(schema, keyword, ptr) ==
  IF Has(schema, keyword) THEN Child(schema[keyword], Append(ptr, keyword)) ELSE <<>>

ChildrenOf(schema, keyword, ptr) ==        \* a map of schemas
  IF Has(schema, keyword)
  THEN LET ks == Entries(schema[keyword])
       IN  [i \in DOMAIN ks |-> [sub |-> schema[keyword][ks[i]], ptr |-> ptr \o <<keyword, ks[i]>>]]
  ELSE <<>>

ListOfFirst(schema, keyword, ptr) ==       \* only its first
  IF Has(schema, keyword) THEN Child(schema[keyword][1], ptr \o <<keyword, "0">>) ELSE <<>>

ListOf(schema, keyword, ptr) ==            \* a list of schemas
  IF Has(schema, keyword)
  THEN [i \in DOMAIN schema[keyword] |-> [sub |-> schema[keyword][i], ptr |-> ptr \o <<keyword, ToString(i)>>]]
  ELSE <<>>

RefSteps(schema, root) ==
  IF ~Has(schema, "ref") THEN <<>>
  ELSE IF schema.ref = "remote" THEN Refuse("unsupported")
  ELSE IF ResolveLocalRef(root, schema.ref) = <<>> THEN Refuse("schema-invalid")
  ELSE Child(ResolveLocalRef(root, schema.ref)[1], PointerOf(schema.ref))

PatternSteps(schema, ptr) ==
  [i \in DOMAIN Opt(schema, "patternProperties", <<>>) |->
     [sub |-> schema.patternProperties[i].sub, ptr |-> ptr \o <<"patternProperties", ToString(i)>>]]

CompileSteps(schema, root, ptr) ==
  IF Has(schema, "always") THEN <<>>
  ELSE IF Has(schema, "junk") THEN Refuse("schema-invalid")
  ELSE RefuseWhen(Has(schema, "unknown"), "unsupported")
       \o Shape(schema, {"$schema"}) \o RefuseWhen(Has(schema, "dialect"), "unsupported")
       \o Shape(schema, {"ref"}) \o RefSteps(schema, root)
       \o Shape(schema, {"defs"}) \o ChildrenOf(schema, "defs", ptr)
       \o Shape(schema, {"type", "enum", "properties"}) \o ChildrenOf(schema, "properties", ptr)
       \o Shape(schema, {"patternProperties"}) \o PatternSteps(schema, ptr)
       \o ChildOf(schema, "propertyNames", ptr)
       \o ChildOf(schema, "additionalProperties", ptr)
       \o ListOf(schema, "tuple", ptr) \o ChildOf(schema, "items", ptr)
       \o Shape(schema, {"required", "minimum", "maximum"})
       \o RefuseWhen(Has(schema, "draft04"), "unsupported")
       \o Shape(schema, {"exclusiveMinimum", "exclusiveMaximum", "minLength", "maxLength", "minItems",
                         "maxItems", "minProperties", "maxProperties", "pattern", "uniqueItems"})
       \o FlattenSeq([i \in 1..3 |-> LET comp == <<"allOf", "anyOf", "oneOf">>[i]
                                     IN  Shape(schema, {comp}) \o ListOf(schema, comp, ptr)])
       \o ChildOf(schema, "not", ptr)

\* A pointer already under way (a recursive $ref) compiles to ok: the stack
\* holds the pointers between the root and this node, and only those.
RECURSIVE CompileSchemaNode(_, _, _, _, _)
CompileSchemaNode(schema, root, stack, ptr, nodes) ==
  LET Step(acc, step) ==
        IF acc.verdict # "ok" THEN acc
        ELSE IF Has(step, "verdict") THEN [acc EXCEPT !.verdict = step.verdict]
        ELSE CompileSchemaNode(step.sub, root, stack \cup {ptr}, step.ptr, acc.nodes)
  IN  IF ptr \in stack THEN [verdict |-> "ok", nodes |-> nodes]
      ELSE IF nodes + 1 > MaxNodes THEN [verdict |-> "schema-invalid", nodes |-> nodes + 1]
      ELSE FoldLeft(Step, [verdict |-> "ok", nodes |-> nodes + 1], CompileSteps(schema, root, ptr))

CompileJsonSchema(schema) ==
  IF Has(schema, "oversize") THEN "schema-invalid"
  ELSE CompileSchemaNode(schema, schema, {}, <<>>, 0).verdict
-----------------------------------------------------------------------------
(***************************************************************************)
(* Validation.  The state threads through every call: whether an issue was *)
(* pushed to the list the caller reads, the scans, the $ref hops, and      *)
(* whether a limit ended it.                                               *)
(***************************************************************************)
Fresh == [clean |-> TRUE, scans |-> 0, hops |-> 0, exhausted |-> FALSE]
Blame(st, cond) == [st EXCEPT !.clean = @ /\ ~cond]
Scan(st, n) == [st EXCEPT !.scans = @ + n]
Exhaust(st) == [st EXCEPT !.clean = FALSE, !.exhausted = TRUE]
Then(st, Phase(_)) == IF st.exhausted THEN st ELSE Phase(st)
Each(st, seq, Visit(_, _)) == FoldLeft(LAMBDA s, x : IF s.exhausted THEN s ELSE Visit(s, x), st, seq)
Indices(seq) == [i \in 1..Len(seq) |-> i]

RECURSIVE ValidateNode(_, _, _, _, _)

FollowRef(schema, inst, depth, root, st) ==
  IF ~Has(schema, "ref") THEN st
  ELSE LET hop == [st EXCEPT !.hops = @ + 1]
           target == ResolveLocalRef(root, schema.ref)
       IN  IF hop.hops > MaxHops \/ target = <<>> THEN Exhaust(hop)
           ELSE ValidateNode(target[1], inst, depth, root, hop)

TypeEnumConst(schema, inst, st) ==
  LET typed  == Blame(st, /\ Has(schema, "type")
                          /\ \A name \in schema.type : ~TypeMatches(name, inst))
      listed == Blame(Scan(typed, Len(Opt(schema, "enum", <<>>))),
                      /\ Has(schema, "enum")
                      /\ \A i \in DOMAIN schema.enum : ~JsonDeepEqual(schema.enum[i], inst))
  IN  Blame(listed, Has(schema, "const") /\ ~JsonDeepEqual(schema.const, inst))

\* A branch collects its issues in a list of its own: only whether that list
\* stays empty is read, and nothing is copied to the caller's list.
BranchInPlace(sub, inst, depth, root, st) == ValidateNode(sub, inst, depth, root, st)
Branch(sub, inst, depth, root, st) == ValidateNode(sub, inst, depth, root, [st EXCEPT !.clean = TRUE])

AnyOf(schema, inst, depth, root, st) ==
  LET Try(acc, sub) ==
        IF acc.matched THEN acc
        ELSE LET b == Branch(sub, inst, depth, root, acc.st) IN [st |-> b, matched |-> b.clean]
      done == FoldLeft(Try, [st |-> Scan(st, Len(schema.anyOf)), matched |-> FALSE], schema.anyOf)
  IN  [done.st EXCEPT !.clean = st.clean /\ done.matched]

OneOf(schema, inst, depth, root, st) ==
  LET Try(acc, sub) ==
        LET b == Branch(sub, inst, depth, root, acc.st)
        IN  [st |-> b, matched |-> acc.matched + (IF b.clean THEN 1 ELSE 0)]
      done == FoldLeft(Try, [st |-> Scan(st, Len(schema.oneOf)), matched |-> 0], schema.oneOf)
  IN  [done.st EXCEPT !.clean = st.clean /\ done.matched = 1]

Not(schema, inst, depth, root, st) ==
  LET b == Branch(schema["not"], inst, depth, root, st) IN [b EXCEPT !.clean = st.clean /\ ~b.clean]

\* Between anyOf, oneOf and not the code does not look at exhausted.
Composition(schema, inst, depth, root, st) ==
  Then(Each(st, Opt(schema, "allOf", <<>>), LAMBDA s, sub : ValidateNode(sub, inst, depth, root, s)),
       LAMBDA all :
         LET any == IF Has(schema, "anyOf") THEN AnyOf(schema, inst, depth, root, all) ELSE all
             one == IF Has(schema, "oneOf") THEN OneOf(schema, inst, depth, root, any) ELSE any
         IN  IF Has(schema, "not") THEN Not(schema, inst, depth, root, one) ELSE one)

\* Whether a bound keyword is present and violated.
Below(schema, keyword, n) == Has(schema, keyword) /\ n < schema[keyword]
Above(schema, keyword, n) == Has(schema, keyword) /\ n > schema[keyword]

Scalars(schema, inst, st) ==
  CASE inst.t = "string" ->
         Blame(Scan(st, IF Has(schema, "pattern") THEN 1 ELSE 0),
               \/ Below(schema, "minLength", Len(inst.s)) \/ Above(schema, "maxLength", Len(inst.s))
               \/ Has(schema, "pattern") /\ inst.s \notin schema.pattern)
    [] inst.t = "number" ->
         Blame(st, \/ Below(schema, "minimum", inst.halves) \/ Above(schema, "maximum", inst.halves)
                   \/ Below(schema, "exclusiveMinimum", inst.halves - 1)
                   \/ Above(schema, "exclusiveMaximum", inst.halves + 1))
    [] OTHER -> st

\* The two loops of uniqueItems, which look at the scan limit themselves.
Pairs(n) == FlattenSeq([i \in 1..n |-> [j \in 1..(n - i) |-> <<i, i + j>>]])
UniqueItems(inst, st) ==
  Each(st, Pairs(Len(inst.items)),
       LAMBDA s, p : LET n == Scan(s, 1)
                     IN  IF n.scans > MaxScans THEN Exhaust(n)
                         ELSE Blame(n, JsonDeepEqual(inst.items[p[1]], inst.items[p[2]])))

Arrays(schema, inst, depth, root, st) ==
  LET sized == Blame(st, \/ Below(schema, "minItems", Len(inst.items))
                         \/ Above(schema, "maxItems", Len(inst.items)))
      Item(i) == IF Has(schema, "tuple") THEN schema.tuple[i] ELSE schema.items
      checked == SelectSeq(Indices(inst.items),
                           LAMBDA i : IF Has(schema, "tuple") THEN i <= Len(schema.tuple) ELSE Has(schema, "items"))
  IN  IF inst.t # "array" THEN st
      ELSE Then(Each(sized, checked,
                     LAMBDA s, i : ValidateNode(Item(i), inst.items[i], depth + 1, root, Scan(s, 1))),
                LAMBDA s : IF Opt(schema, "uniqueItems", FALSE) THEN UniqueItems(inst, s) ELSE s)

\* The keys that properties or patternProperties take care of.
Handled(schema, inst) ==
  {k \in DOMAIN inst.props :
     \/ k \in DOMAIN Opt(schema, "properties", <<>>)
     \/ \E i \in DOMAIN Opt(schema, "patternProperties", <<>>) : k \in schema.patternProperties[i].pat}

Objects(schema, inst, depth, root, st) ==
  LET keys  == Entries(inst.props)
      sized == Blame(st, \/ Below(schema, "minProperties", Len(keys)) \/ Above(schema, "maxProperties", Len(keys))
                         \/ ~(Opt(schema, "required", {}) \subseteq DOMAIN inst.props))
      Visit(s, k, sub) == ValidateNode(sub, inst.props[k], depth + 1, root, Scan(s, 1))
      Names(s) == IF Has(schema, "propertyNames")
                  THEN Each(s, keys, LAMBDA a, k : ValidateNode(schema.propertyNames, Text(k), depth + 1, root, Scan(a, 1)))
                  ELSE s
      Named(s) == Each(s, SelectSeq(keys, LAMBDA k : k \in DOMAIN Opt(schema, "properties", <<>>)),
                       LAMBDA a, k : Visit(a, k, schema.properties[k]))
      Patterns(s) == Each(s, Opt(schema, "patternProperties", <<>>),
                          LAMBDA a, p : Each(a, SelectSeq(keys, LAMBDA k : k \in p.pat),
                                             LAMBDA b, k : Visit(b, k, p.sub)))
      rest == SelectSeq(keys, LAMBDA k : k \notin Handled(schema, inst))
      Others(s) == IF Opt(schema, "closed", FALSE) THEN Blame(s, rest # <<>>)
                   ELSE IF Has(schema, "additionalProperties")
                   THEN Each(s, rest, LAMBDA a, k : Visit(a, k, schema.additionalProperties))
                   ELSE s
  IN  IF inst.t # "object" THEN st
      ELSE Then(Then(Then(Names(sized), Named), Patterns), Others)

ValidateNode(schema, inst, depth, root, st) ==
  IF st.exhausted THEN st
  ELSE IF depth > MaxDepth \/ st.scans > MaxScans THEN Exhaust(st)
  ELSE IF Has(schema, "always") THEN Blame(st, ~schema.always)
  ELSE Then(FollowRef(schema, inst, depth, root, st),
            LAMBDA a : Then(Composition(schema, inst, depth, root, TypeEnumConst(schema, inst, a)),
            LAMBDA b : Then(Arrays(schema, inst, depth, root, Scalars(schema, inst, b)),
            LAMBDA c : Objects(schema, inst, depth, root, c))))

\* What a validation returns, and whether a limit ended it (which the caller
\* of the code cannot see: it gets the outcome alone).
ValidateJsonSchema(value, schema) ==
  LET compiled == CompileJsonSchema(schema)
      st == ValidateNode(schema, value, 0, schema, Fresh)
  IN  IF compiled # "ok" THEN [outcome |-> compiled, exhausted |-> FALSE]
      ELSE [outcome |-> IF st.clean THEN "valid" ELSE "invalid", exhausted |-> st.exhausted]
-----------------------------------------------------------------------------
(***************************************************************************)
(* Reference: the subschemas of a schema, which of them the subset covers, *)
(* and conformance, keyword by keyword.                                    *)
(***************************************************************************)
RECURSIVE Subschemas(_)
Subschemas(schema) ==
  LET Of(kw)   == IF Has(schema, kw) THEN {schema[kw]} ELSE {}
      InMap(kw) == IF Has(schema, kw) THEN {schema[kw][k] : k \in DOMAIN schema[kw]} ELSE {}
      direct == UNION {Of(kw) : kw \in {"propertyNames", "additionalProperties", "items", "not"}}
                \cup UNION {InMap(kw) : kw \in {"defs", "properties", "tuple", "allOf", "anyOf", "oneOf"}}
                \cup {schema.patternProperties[i].sub : i \in DOMAIN Opt(schema, "patternProperties", <<>>)}
  IN  {schema} \cup UNION {Subschemas(s) : s \in direct}

Understood(schema, root) ==
  \A s \in Subschemas(schema) :
     /\ DOMAIN s \cap {"junk", "unknown", "draft04", "dialect", "oversize"} = {}
     /\ Opt(s, "bad", {}) = {}
     /\ Has(s, "ref") => s.ref # "remote" /\ ResolveLocalRef(root, s.ref) # <<>>

\* fuel bounds the chain of $refs; a validation that hit no limit needs MaxHops.
RECURSIVE Conforms(_, _, _, _)
Conforms(s, v, root, fuel) ==
  LET Ok(sub, x) == Conforms(sub, x, root, fuel)
      Count(n, low, high) == ~Below(s, low, n) /\ ~Above(s, high, n)
  IN  IF Has(s, "always") THEN s.always ELSE
      /\ Has(s, "ref") => fuel > 0 /\ Conforms(ResolveLocalRef(root, s.ref)[1], v, root, fuel - 1)
      /\ Has(s, "type") => \E name \in s.type : TypeMatches(name, v)
      /\ Has(s, "enum") => v \in ToSet(s.enum)
      /\ Has(s, "const") => v = s.const
      /\ \A i \in DOMAIN Opt(s, "allOf", <<>>) : Ok(s.allOf[i], v)
      /\ Has(s, "anyOf") => \E i \in DOMAIN s.anyOf : Ok(s.anyOf[i], v)
      /\ Has(s, "oneOf") => Cardinality({i \in DOMAIN s.oneOf : Ok(s.oneOf[i], v)}) = 1
      /\ Has(s, "not") => ~Ok(s["not"], v)
      /\ v.t = "string" => /\ Count(Len(v.s), "minLength", "maxLength")
                           /\ Has(s, "pattern") => v.s \in s.pattern
      /\ v.t = "number" => /\ Count(v.halves, "minimum", "maximum")
                           /\ Has(s, "exclusiveMinimum") => v.halves > s.exclusiveMinimum
                           /\ Has(s, "exclusiveMaximum") => v.halves < s.exclusiveMaximum
      /\ v.t = "array" =>
           /\ Count(Len(v.items), "minItems", "maxItems")
           /\ \A i \in DOMAIN v.items : /\ (Has(s, "tuple") /\ i <= Len(s.tuple)) => Ok(s.tuple[i], v.items[i])
                                        /\ Has(s, "items") => Ok(s.items, v.items[i])
           /\ Opt(s, "uniqueItems", FALSE) => Cardinality(ToSet(v.items)) = Len(v.items)
      /\ v.t = "object" =>
           /\ Count(Cardinality(DOMAIN v.props), "minProperties", "maxProperties")
           /\ Opt(s, "required", {}) \subseteq DOMAIN v.props
           /\ \A k \in DOMAIN v.props :
                /\ Has(s, "propertyNames") => Ok(s.propertyNames, Text(k))
                /\ k \in DOMAIN Opt(s, "properties", <<>>) => Ok(s.properties[k], v.props[k])
                /\ \A i \in DOMAIN Opt(s, "patternProperties", <<>>) :
                     k \in s.patternProperties[i].pat => Ok(s.patternProperties[i].sub, v.props[k])
                /\ /\ k \notin DOMAIN Opt(s, "properties", <<>>)
                   /\ \A i \in DOMAIN Opt(s, "patternProperties", <<>>) : k \notin s.patternProperties[i].pat
                   =>
                     /\ ~Opt(s, "closed", FALSE)
                     /\ Has(s, "additionalProperties") => Ok(s.additionalProperties, v.props[k])

\* Keywords under which an exhausted branch may count as a match.
Branching(schema) == \E s \in Subschemas(schema) : DOMAIN s \cap {"anyOf", "oneOf", "not"} # {}

-----------------------------------------------------------------------------
\* runValidator().  A subject is [text, value]: the text, and the JSON value it
\* parses to, or <<>> when it does not parse.  A regular expression is the set
\* of texts it matches.
Result(status, code) == [status |-> status, code |-> code]
PassIf(cond, code) == IF cond THEN Result("PASS", "OK") ELSE Result("FAIL", code)

ExactText(spec, subject) == PassIf(subject.text = Opt(spec, "expected", ""), "EXACT_MISMATCH")

\* No pattern, or an empty one, is a bad spec; one that does not compile
\* throws, and every exception is an ERROR.
Regex(spec, subject) ==
  IF ~Has(spec, "pattern") THEN Result("ERROR", "SPEC_INVALID")
  ELSE IF spec.pattern = "malformed" THEN Result("ERROR", "VALIDATOR_EXCEPTION")
  ELSE PassIf(subject.text \in spec.matches, "REGEX_MISMATCH")

JsonParse(subject) == PassIf(subject.value # <<>>, "JSON_PARSE_FAILED")

\* The schema is compiled before the subject is parsed: a broken schema is
\* an error whatever the subject.
SchemaValidator(spec, subject) ==
  IF ~Has(spec, "schema") THEN Result("ERROR", "SPEC_INVALID")
  ELSE LET compiled == CompileJsonSchema(spec.schema)
       IN  IF compiled = "unsupported" THEN Result("UNAVAILABLE", "SCHEMA_UNSUPPORTED")
           ELSE IF compiled = "schema-invalid" THEN Result("ERROR", "SCHEMA_INVALID")
           ELSE IF subject.value = <<>> THEN Result("FAIL", "JSON_PARSE_FAILED")
           ELSE PassIf(ValidateJsonSchema(subject.value[1], spec.schema).outcome = "valid", "SCHEMA_VIOLATION")

\* runOne(): what the service adds to a spec: its configuration and whether
\* the mounted policy is LAB.  exit is the world's part: the code a process
\* ends with.
Env(allowCommands, executionClass, exit) ==
  [allowCommands |-> allowCommands, lab |-> executionClass = "LAB", exit |-> exit]

\* Commands run only where the host allows them and the policy is LAB; exit
\* is the code the process ends with, "rejected" when it cannot be spawned.
Command(spec, env) ==
  IF ~(env.allowCommands /\ env.lab) THEN Result("UNAVAILABLE", "COMMAND_EXECUTION_DISABLED")
  ELSE IF ~Has(spec, "command") THEN Result("ERROR", "SPEC_INVALID")
  ELSE IF env.exit = "rejected" THEN Result("ERROR", "VALIDATOR_EXCEPTION")
  ELSE PassIf(env.exit = Opt(spec, "expectedExit", "0"), "EXIT_MISMATCH")

RunValidator(spec, env, subject) ==
  CASE spec.type = "exact-text"  -> ExactText(spec, subject)
    [] spec.type = "regex"       -> Regex(spec, subject)
    [] spec.type = "json-parse"  -> JsonParse(subject)
    [] spec.type = "json-schema" -> SchemaValidator(spec, subject)
    [] spec.type \in {"command-exit", "test-suite"} -> Command(spec, env)
    [] OTHER -> Result("UNAVAILABLE", "VALIDATOR_TYPE_UNSUPPORTED")
=============================================================================
