------------------------------- MODULE RouteKeys -------------------------------
(***************************************************************************)
(* The keys both circuit breakers of supreme-router file outcomes under:   *)
(* a route `provider::model`, and for failures that name no model the      *)
(* provider's bucket `provider::*`.                                        *)
(***************************************************************************)
EXTENDS Integers

CONSTANTS
  Provider,  \* provider ids
  Model,     \* model ids
  AnyModel   \* the `*` of a provider bucket's key

ASSUME KeysAssumption == AnyModel \notin Model

RouteKey == Provider \X Model

BucketOf(p) == <<p, AnyModel>>

OutcomeKey == Provider \X (Model \cup {AnyModel})
===============================================================================
