------------------------------- MODULE MCClose -------------------------------
(***************************************************************************)
(* Bounded instance of EvidenceClose and the validators it runs.           *)
(*                                                                         *)
(* A behaviour is either one of EvidenceClose, with the text and schema    *)
(* validators of ValidatorRules deciding on the contents of the file, or a *)
(* single validation of a sample instance against a sample schema under    *)
(* limits scaled down so that each of them is reached (variable trial).    *)
(***************************************************************************)
EXTENDS EvidenceClose, TLC

CONSTANTS i1, i2

MCKeyOrder == <<"a", "b", "ab">>
V == INSTANCE ValidatorRules WITH
       KeyOrder <- MCKeyOrder, MaxNodes <- 9, MaxDepth <- 2, MaxScans <- 4, MaxHops <- 3
-----------------------------------------------------------------------------
\* The three contents of the file: a document both inline validators pass, one
\* that the schema refuses, and one too large to be read.
Doc(c) == IF c = 1 THEN [text |-> "one", value |-> <<[t |-> "string", s |-> "a"]>>]
          ELSE IF c = 2 THEN [text |-> "two", value |-> <<[t |-> "null"]>>]
          ELSE [text |-> "", value |-> <<>>]

MCIdOf(s) == IF s = "schema" THEN "text" ELSE s        \* two specs share an id
MCKind(s) == IF s \in {"text", "schema"} THEN "inline" ELSE s
MCVerdict(s, c) ==
  IF s = "file-exists" THEN "PASS"
  ELSE IF s = "file-hash" THEN IF c = 1 THEN "PASS" ELSE "FAIL"
  ELSE V!RunValidator(IF s = "text" THEN [type |-> "regex", pattern |-> "given", matches |-> {"one", "three"}]
                      ELSE [type |-> "json-schema", schema |-> [type |-> {"string", "number"}]],
                      V!Env(FALSE, "STANDARD", "0"), Doc(c)).status
-----------------------------------------------------------------------------
(***************************************************************************)
(* Sample instances and schemas.                                           *)
(***************************************************************************)
Null == [t |-> "null"]
Num(h) == [t |-> "number", halves |-> h]
Str(s) == [t |-> "string", s |-> s]
Arr(items) == [t |-> "array", items |-> items]
Obj(props) == [t |-> "object", props |-> props]

Flat == {Null, Num(2), Num(3), Str("a"), Str("ab")}
Pair(f, x, g, y) == f :> x @@ g :> y
Instances ==
  Flat \cup {Arr(<<>>), Obj(<<>>)}
  \cup {Arr(<<x, y>>) : x \in {Num(2), Str("a")}, y \in {Num(2), Null}}
  \cup {Arr(<<Num(2), Null, Num(3)>>), Arr(<<Arr(<<Arr(<<>>)>>)>>), Arr(<<Arr(<<Arr(<<Arr(<<>>)>>)>>)>>)}
  \cup {Obj(k :> x) : k \in {"a", "ab"}, x \in {Num(2), Null}}
  \cup {Obj(Pair("a", x, "b", y)) : x \in {Num(2), Str("a")}, y \in {Num(3), Obj("a" :> Null)}}
  \cup {Obj("a" :> Obj("a" :> Obj("a" :> Obj("a" :> Null))))}

Yes == [always |-> TRUE]
No == [always |-> FALSE]
Leaves == {Yes, No, [type |-> {"number"}], [type |-> {"integer", "null"}], [enum |-> <<Num(2), Str("a")>>],
           [const |-> Null], [minLength |-> 2], [pattern |-> {"a"}], [minimum |-> 3], [exclusiveMaximum |-> 3]}
Broken == {[junk |-> TRUE], [unknown |-> TRUE], [dialect |-> TRUE], [draft04 |-> TRUE],
           [ref |-> "remote"], [ref |-> "missing"]}
          \cup {[bad |-> {kw}] : kw \in {"$schema", "defs", "type", "properties", "patternProperties", "minItems", "oneOf"}}
Loops == {[ref |-> "#"], [items |-> [ref |-> "#"]], [additionalProperties |-> [ref |-> "#"]],
          [ref |-> "d", defs |-> "d" :> [ref |-> "e"] @@ "e" :> [type |-> {"number"}]],
          [anyOf |-> <<[type |-> {"null"}], [ref |-> "#"]>>],
          [oneOf |-> <<[ref |-> "#"], No>>], [not |-> [ref |-> "#"]],
          [properties |-> "a" :> [ref |-> "d"], defs |-> "d" :> [type |-> {"integer"}, ref |-> "#"]]}
Over(x, y) ==
  {[items |-> x], [tuple |-> <<x, y>>], [items |-> x, uniqueItems |-> TRUE, minItems |-> 2],
   [properties |-> Pair("a", x, "b", y)], [properties |-> "a" :> x, closed |-> TRUE],
   [properties |-> "a" :> x, additionalProperties |-> y, required |-> {"a"}],
   [patternProperties |-> <<[pat |-> {"a", "ab"}, sub |-> x]>>, additionalProperties |-> y],
   [propertyNames |-> x, maxProperties |-> 1],
   [allOf |-> <<x, y>>], [anyOf |-> <<x, y>>], [oneOf |-> <<x, y>>], [not |-> x, anyOf |-> <<y>>],
   [anyOf |-> <<[items |-> x], [items |-> y]>>], [not |-> [items |-> x]]}
Schemas ==
  Leaves \cup Broken \cup Loops \cup {[oversize |-> TRUE]}
  \cup UNION {Over(x, y) : x \in Leaves, y \in {No, [type |-> {"number"}], [enum |-> <<Num(2), Null, Str("a")>>]}}
  \cup UNION {Over(x, Yes) \cup Over(Yes, x) : x \in Broken \cup Loops}
-----------------------------------------------------------------------------
\* Sample specs of every type, and what they run in.
RunSpecs ==
  {[type |-> "exact-text"], [type |-> "exact-text", expected |-> "one"],
   [type |-> "regex"], [type |-> "regex", pattern |-> "malformed", matches |-> {"one"}],
   [type |-> "regex", pattern |-> "given", matches |-> {"one"}],
   [type |-> "json-parse"], [type |-> "json-schema"], [type |-> "spelled wrong"]}
  \cup {[type |-> "json-schema", schema |-> s] : s \in Leaves \cup Broken}
  \cup {[type |-> t] : t \in {"command-exit", "test-suite"}}
  \cup {[type |-> "command-exit", command |-> "c"], [type |-> "test-suite", command |-> "c", expectedExit |-> "1"]}
Envs == {V!Env(allow, class, exit) : allow \in BOOLEAN, class \in {"STANDARD", "LAB"}, exit \in {"0", "1", "rejected"}}

\* What has to be the case for a PASS, by the type of the validator.
Earned(s, env, doc) ==
  CASE s.type = "exact-text"  -> doc.text = (IF "expected" \in DOMAIN s THEN s.expected ELSE "")
    [] s.type = "regex"       -> doc.text \in s.matches /\ s.pattern # "malformed"
    [] s.type = "json-parse"  -> doc.value # <<>>
    [] s.type = "json-schema" -> /\ doc.value # <<>> /\ V!Understood(s.schema, s.schema)
                                 /\ V!Conforms(s.schema, doc.value[1], s.schema, 4)
    [] s.type \in {"command-exit", "test-suite"} -> env.allowCommands /\ env.lab /\ env.exit \in {"0", "1"}
    [] OTHER -> FALSE
-----------------------------------------------------------------------------
VARIABLES trial           \* the sample under validation, with its outcome

NoTrial == [on |-> FALSE, of |-> "none"]
RunTrials == [on : {TRUE}, of : {"run"}, spec : RunSpecs, env : Envs, doc : {Doc(1), Doc(2), Doc(3)},
              done : {FALSE}, result : {"none"}]
Trials == [on : {TRUE}, of : {"schema"}, schema : Schemas, value : Instances, done : {FALSE}, outcome : {""}, exhausted : {FALSE}]

Judge ==
  LET r == V!ValidateJsonSchema(trial.value, trial.schema)
  IN  /\ trial.of = "schema" /\ ~trial.done
      /\ trial' = [trial EXCEPT !.done = TRUE, !.outcome = r.outcome, !.exhausted = r.exhausted]
      /\ UNCHANGED vars

JudgeRun ==
  /\ trial.of = "run" /\ ~trial.done
  /\ trial' = [trial EXCEPT !.done = TRUE, !.result = V!RunValidator(trial.spec, trial.env, trial.doc).status]
  /\ UNCHANGED vars

FirstFile == file = i1 /\ bytes = [i \in Inodes |-> IF i = i1 THEN 1 ELSE 2]
MCInit == Init /\ FirstFile /\ trial \in Trials \cup RunTrials \cup {NoTrial}
MCNext == Judge \/ JudgeRun \/ (~trial.on /\ Next /\ UNCHANGED trial)
MCSpec == MCInit /\ [][MCNext]_<<vars, trial>>

\* Either the registry changes (three registrations, runAll) and no one uses
\* it, or one registration is used.
Quiet == rev = 0 /\ records = <<>> /\ \A h \in Hosts : job[h].stage = "rest"
OneRegistration == Len(spec) <= 1 /\ sweep = Idle /\ \A n \in Issued : uses[n] <= 1
Regimes == Quiet \/ OneRegistration
-----------------------------------------------------------------------------
\* A schema is validated against only when every keyword in it, however deep,
\* is one the validator knows, in its right shape, with $refs that lead
\* somewhere: "never a silent downgrade to PASS".  Only a schema with too
\* many nodes is refused for another reason.  Nor does any other validator
\* pass what it did not check, a command above all.
NothingIgnored ==
  /\ (trial.of = "run" /\ trial.done /\ trial.result = "PASS") => Earned(trial.spec, trial.env, trial.doc)
  /\ (trial.of = "schema" /\ trial.done) =>
     /\ trial.outcome \in {"valid", "invalid"} => V!Understood(trial.schema, trial.schema)
     /\ trial.outcome = "unsupported" => ~V!Understood(trial.schema, trial.schema)

\* Unless a limit ended it, a validation answers what the JSON Schema
\* definition of conformance says, whatever order the keywords are evaluated
\* in and however branches share the counters.  A limit reached in a schema
\* without anyOf, oneOf and not ends in "invalid"; with them it may not, which
\* is left to LimitsNeverPass.
VerdictIsConformance ==
  (trial.of = "schema" /\ trial.done /\ trial.outcome \in {"valid", "invalid"}) =>
     /\ ~trial.exhausted =>
          (trial.outcome = "valid" <=> V!Conforms(trial.schema, trial.value, trial.schema, 4))
     /\ trial.exhausted /\ ~V!Branching(trial.schema) => trial.outcome = "invalid"

\* "Exceeding a SUBJECT bound -> FAIL (conservative, never PASS)"
\* (supreme-verifier/engine.ts:54-55).
LimitsNeverPass == trial.of = "schema" /\ trial.done /\ trial.exhausted => trial.outcome # "valid"
=============================================================================
