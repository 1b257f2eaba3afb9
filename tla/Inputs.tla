------------------------------- MODULE Inputs -------------------------------
(***************************************************************************)
(* What a handler gets that asks for its input (decorators/param.ts).      *)
(*                                                                         *)
(* `validated` is what @Validate left on the context: a map from the parts *)
(* it has parsed, body, query and params, to "parsed", or "undefined" for  *)
(* a schema that makes nothing of its input.  An outcome is [value, error]:*)
(* the value is "raw", what @Validate has "parsed", or a schema of the     *)
(* call's "own"; `schema` says whether the call has one.                   *)
(***************************************************************************)
EXTENDS Errors

Gets(value) == [value |-> value, error |-> NoError]
Fails(e) == [value |-> "none", error |-> e]

Cached(validated, part) == part \in DOMAIN validated /\ validated[part] # "undefined"

\* The request's own: a body may be no JSON, unless it has been parsed before.
Json(validated) == {Gets("raw")} \union (IF "body" \in DOMAIN validated THEN {} ELSE {Fails(BadRequest(<<>>))})
Text == {Gets("raw")}

ParseAsync(raws) == {r \in raws : r.error # NoError} \union {Gets("own"), Fails(ZodError)}
Through(schema, raws) == IF schema THEN ParseAsync(raws) ELSE raws

\* With a schema, these two parse the request's own again.
Body(validated, schema) ==
    IF ~schema /\ Cached(validated, "body") THEN {Gets("parsed")} ELSE Through(schema, Json(validated))
Query(validated, schema) ==
    IF ~schema /\ Cached(validated, "query") THEN {Gets("parsed")} ELSE Through(schema, Text)

Params(validated) == IF Cached(validated, "params") THEN {Gets("parsed")} ELSE Text

\* One parameter by its name, or all of them without one: the request's own,
\* whatever @Validate has made of them.
Param == Text
ValidatedParam == ParseAsync(Text)

\* These three do not, whatever their schema.
ValidatedBody(validated, schema) ==
    IF Cached(validated, "body") THEN {Gets("parsed")} ELSE Through(schema, Json(validated))
ValidatedQuery(validated, schema) ==
    IF Cached(validated, "query") THEN {Gets("parsed")} ELSE Through(schema, Text)
ValidatedParams(validated, schema) ==
    IF Cached(validated, "params") THEN {Gets("parsed")} ELSE Through(schema, Text)

\* The calls a handler may make: [by, part, whole, schema, outcomes]; one that
\* is not whole names a single parameter.
Call(by, part, whole, schema, outcomes) ==
    [by |-> by, part |-> part, whole |-> whole, schema |-> schema, outcomes |-> outcomes]

Calls(validated) ==
    (UNION {{Call("Body", "body", TRUE, s, Body(validated, s)),
             Call("ValidatedBody", "body", TRUE, s, ValidatedBody(validated, s)),
             Call("Query", "query", TRUE, s, Query(validated, s)),
             Call("ValidatedQuery", "query", TRUE, s, ValidatedQuery(validated, s)),
             Call("ValidatedParams", "params", TRUE, s, ValidatedParams(validated, s))} : s \in BOOLEAN})
    \union {Call("Param", "params", whole, FALSE, Param) : whole \in BOOLEAN}
    \union {Call("Params", "params", TRUE, FALSE, Params(validated)),
            Call("ValidatedParam", "params", FALSE, TRUE, ValidatedParam)}

=============================================================================
