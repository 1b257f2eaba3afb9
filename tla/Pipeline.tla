------------------------------ MODULE Pipeline ------------------------------
(***************************************************************************)
(* One request through an application made by createApp: what is mounted   *)
(* for every path, the trailing-slash redirect, the middleware chain       *)
(* registerRoute built, the error path (wrapMiddleware, respondToError)    *)
(* and the standard handler, up to the response.                           *)
(*                                                                         *)
(* Requests share no state here: RouteHandler, RouteCache and RateLimit    *)
(* model what they share.  Hono's compose (external) runs the chain: a     *)
(* stage returns, calls next or throws; what it returns is the response    *)
(* unless there is one already; an Error that leaves a stage becomes the   *)
(* response there, while a thrown value that is no Error goes on outwards. *)
(*                                                                         *)
(* Errors are those of Errors; what a handler asks for of its input is     *)
(* what Inputs says.                                                       *)
(***************************************************************************)
EXTENDS Routes, Inputs

CONSTANTS
    Apps,      \* applications
    Requests,  \* [method, path]
    Thrown,    \* what middlewares, guards, filters and handlers may throw
    FilterClasses, \* [filters -> sequence of decorators]; @Catch has kinds of errors
    OnError        \* is an onError handler configured

\* The import graph of an application leads to declared controllers.
ASSUME TreeAssumption == \A a \in Apps : CollectModule(a.module) \in Seq(DOMAIN Declared)

\* A path ends in a slash or not.
ASSUME RequestsAssumption ==
    Requests \subseteq [method : STRING, path : [segments : Seq(STRING), slash : BOOLEAN]]

VARIABLES
    app,       \* the application, chosen at first
    request,   \* the request, chosen at first; a redirect changes its path
    phase,     \* new, failed, built; down and up the chain; offered: an error
               \* at respondToError; raised: at compose; done; escaped
    chain, at, \* the stages, and the one the request is at
    response,  \* [by, status, code]; by is "" while there is none, code is what
               \* the body of an error says
    validated, \* what @Validate left on the context
    got,       \* history: a call by which the handler got a value, and the value
    error,     \* the last error thrown
    tried,     \* how many filters it has been compared with
    offers,    \* history: the filters it has been offered to
    late,      \* history: it was thrown after there was a response
    hops,      \* history: redirects followed
    counted    \* the statuses the metrics have of this request

vars == <<app, request, phase, chain, at, response, validated, got, error, tried, offers, late, hops, counted>>
inputs == <<validated, got>>

NoResponse == [by |-> "", status |-> 0, code |-> ""]
Nothing == [by |-> "", part |-> "", whole |-> FALSE, schema |-> FALSE, value |-> "none"]

TypeOK ==
    /\ app \in Apps /\ request \in [method : STRING, path : [segments : Seq(STRING), slash : BOOLEAN]]
    /\ phase \in {"new", "failed", "built", "down", "up", "offered", "raised", "done", "escaped"}
    /\ at \in 0..(Len(chain) + 1) /\ tried \in Nat /\ hops \in Nat
    /\ response \in [by : STRING, status : Nat, code : STRING]
    /\ DOMAIN validated \subseteq {"body", "query", "params"} /\ DOMAIN got = DOMAIN Nothing
    /\ error \in [kind : {"none", "zod", "http", "hono", "error", "value"}, status : Nat,
                   says : STRING, code : STRING, meta : {error.meta}]
    /\ late \in BOOLEAN

Init ==
    /\ app \in Apps /\ request \in Requests
    /\ phase = "new" /\ chain = <<>> /\ at = 0
    /\ response = NoResponse /\ error = NoError /\ validated = <<>> /\ got = Nothing
    /\ tried = 0 /\ offers = <<>> /\ late = FALSE /\ hops = 0 /\ counted = <<>>

Tables == [a \in {b \in Apps : Buildable(b)} |-> CreateApp(a)]

Build ==
    /\ phase = "new"
    /\ phase' = IF Buildable(app) THEN "built" ELSE "failed"
    /\ UNCHANGED <<app, request, chain, at, response, error, tried, offers, late, hops, counted, inputs>>

Receive ==
    /\ phase = "built"
    /\ chain' = Chain(Tables[app], request.method, request.path)
    /\ at' = 1 /\ phase' = "down" /\ counted' = <<>>
    /\ UNCHANGED <<app, request, response, error, tried, offers, late, hops, inputs>>

-----------------------------------------------------------------------------
Stage == chain[at]
AtStage(kind) == phase = "down" /\ at <= Len(chain) /\ Stage.kind = kind

\* The stage calls next().
Pass ==
    /\ at' = at + 1
    /\ UNCHANGED <<app, request, phase, chain, response, error, tried, offers, late, hops, counted, inputs>>

\* The stage returns a response, which compose takes if it has none.
ReturnBody(by, status, code) ==
    /\ response' = IF response = NoResponse THEN [by |-> by, status |-> status, code |-> code] ELSE response
    /\ at' = at - 1 /\ phase' = "up"
Return(by, status) == ReturnBody(by, status, "")

Answer(by, status) == Return(by, status) /\ UNCHANGED <<app, request, chain, error, tried, offers, late, hops, counted, inputs>>

\* The stage throws e: into its catch, or straight to compose.
ThrowTo(where, e) ==
    /\ phase' = where /\ error' = e
    /\ tried' = 0 /\ offers' = <<>>
    /\ late' = (response # NoResponse)
    /\ UNCHANGED <<app, request, chain, at, response, hops, counted, inputs>>

Throw(e) == ThrowTo("offered", e)

-----------------------------------------------------------------------------
\* Going down.
SlashRedirects(path) ==
    \/ app.trailingSlash = "add" /\ (~path.slash \/ path.segments = <<>>)
    \/ app.trailingSlash = "strip" /\ path.slash /\ path.segments # <<>>

\* Adding a slash to the root makes it two.
Redirected(path) ==
    IF path.segments = <<>> THEN [segments |-> <<"">>, slash |-> TRUE]
    ELSE IF path.segments = <<"">> /\ app.trailingSlash = "strip"
    THEN [segments |-> <<>>, slash |-> TRUE]
    ELSE [path EXCEPT !.slash = (app.trailingSlash = "add")]

Slash ==
    /\ AtStage("slash")
    /\ IF SlashRedirects(request.path)
         THEN Answer("slash", IF request.method \in {"GET", "HEAD"} THEN 301 ELSE 308)
         ELSE Pass

\* What is mounted for every path passes it on, but for a preflight request;
\* an endpoint answers, that of the health checks 503 if any fails or throws.
Mount ==
    \/ (AtStage("cors") /\ request.method # "OPTIONS" /\ Pass)
    \/ (AtStage("cors") /\ request.method = "OPTIONS" /\ Answer("cors", 204))
    \/ (AtStage("metrics") /\ Pass)
    \/ (AtStage("endpoint") /\ Answer("endpoint", 200))
    \/ (AtStage("health") /\ \E status \in {200, 503} : Answer("health", status))

\* A middleware of a controller or method: it may also return nothing without next.
RunMiddleware ==
    /\ AtStage("middleware")
    /\ \/ Pass
       \/ Answer("middleware", 200)
       \/ at' = at - 1 /\ phase' = "up"
          /\ UNCHANGED <<app, request, chain, response, error, tried, offers, late, hops, counted, inputs>>
       \/ \E e \in Thrown : Throw(e)

Limit == AtStage("limit") /\ (Pass \/ Throw(TooManyRequests(<<>>)))

\* What the executor throws becomes an HttpException if its message says so.
Converted(e) ==
    IF e.kind # "error" THEN e
    ELSE IF e.says = "Unauthorized" THEN Unauthorized(<<>>)
    ELSE IF e.says = "Forbidden" THEN Forbidden(<<>>) ELSE e

CheckGuards ==
    /\ AtStage("guards")
    /\ (Pass \/ Throw(Forbidden(<<>>)) \/ \E e \in Thrown : Throw(Converted(e)))

\* Body, query and params in this order, each put on the context when its
\* schema has parsed it: a body that is no JSON, or a schema, may fail before.
Parts == <<"body", "query", "params">>
Listed ==
    LET asked == DOMAIN ReadFor(Meta[Stage.class], "validation", Stage.name, <<>>) IN
    FlattenSeq([i \in DOMAIN Parts |-> If(Parts[i] \in asked, <<Parts[i]>>)])
Parsing(n) == [{Listed[i] : i \in 1..n} -> {"parsed", "undefined"}]

CheckInput ==
    /\ AtStage("validate")
    /\ \/ /\ validated' \in Parsing(Len(Listed))
          /\ at' = at + 1
          /\ UNCHANGED <<app, request, phase, chain, response, got, error, tried, offers, late, hops, counted>>
       \/ \E n \in 0..(Len(Listed) - 1) :
            /\ validated' \in Parsing(n)
            /\ phase' = "offered" /\ tried' = 0 /\ offers' = <<>> /\ late' = (response # NoResponse)
            /\ \/ error' = ZodError
               \/ Listed[n + 1] = "body" /\ error' = BadRequest(<<>>)
            /\ UNCHANGED <<app, request, chain, at, response, got, hops, counted>>

CheckChannel ==
    /\ AtStage("channelAuth")
    /\ (Pass \/ Throw(Forbidden("code" :> "CHANNEL_FORBIDDEN")) \/ \E e \in Thrown : Throw(e))

\* No stage is left: compose answers.
NotFound ==
    /\ phase = "down" /\ at > Len(chain)
    /\ Answer("router", 404)

-----------------------------------------------------------------------------
\* The handler, @Redirect before anything else; the stream routes open.
Has(key) == key \in DOMAIN Meta[Stage.class] /\ Stage.name \in DOMAIN Meta[Stage.class][key]
Of(key) == Meta[Stage.class][key][Stage.name]

\* What becomes of the handler's result: a Response, a value, undefined, or a
\* value whose ETag the client has.
StatusFor(result) ==
    IF result = "response" THEN 200
    ELSE IF Has("status") /\ Of("status").ignoreBody THEN Of("status").status
    ELSE IF result = "known" /\ Has("etag") THEN 304
    ELSE IF Has("status") THEN Of("status").status ELSE 200

Serialized == Has("serialize") \/ "*" \in DOMAIN Read(Meta[Stage.class], "serialize", <<>>)

\* The method asks for some of its input.
Ask ==
    /\ AtStage("handler") /\ Stage.of = "http" /\ ~Has("redirect") /\ got = Nothing
    /\ \E call \in Calls(validated) : \E r \in call.outcomes :
         IF r.error = NoError
           THEN /\ got' = [by |-> call.by, part |-> call.part, whole |-> call.whole, schema |-> call.schema, value |-> r.value]
                /\ UNCHANGED <<app, request, phase, chain, at, response, validated, error, tried, offers, late, hops, counted>>
           ELSE Throw(r.error)

\* What other requests have left answers before the method is called: a stored
\* response, or that of a request in flight, or its failure.
Results == {"response", "value", "known", "undefined"}

Replay ==
    \/ Has("idempotent") /\ Answer("replay", 409)
    \/ \E r \in Results : StatusFor(r) < 300 /\ Has("idempotent") /\ Answer("replay", StatusFor(r))
    \/ Has("cache") /\ Answer("cache", 200)
    \/ /\ Has("idempotent") \/ Has("singleFlight")
       /\ \/ \E r \in Results : Answer("copy", StatusFor(r))
          \/ \E e \in Thrown : ThrowTo("raised", e)

Handle ==
    /\ AtStage("handler") /\ Stage.of = "http"
    /\ IF Has("redirect") THEN Answer("redirect", Of("redirect"))
       ELSE \/ got = Nothing /\ (Replay \/ \E e \in Thrown : ThrowTo("raised", e))   \* onRequestStart, requestLogger
            \/ Has("concurrency") /\ got = Nothing /\ Throw(Unavailable("code" :> "CONCURRENCY_LIMIT"))
            \/ Has("timeout") /\ Throw(HttpException(504, <<>>))
            \/ \E r \in Results : Answer("handler", StatusFor(r))
            \/ Serialized /\ Throw(ZodError)
            \/ \E e \in Thrown : Throw(e)

OpenStream == AtStage("handler") /\ Stage.of = "stream" /\ Answer("stream", 200)

-----------------------------------------------------------------------------
\* respondToError: filters, validation errors, onError, HttpException.
Filters(class, name) ==
    ReadFor(Meta[class], "methodFilters", name, <<>>) \o Read(Meta[class], "filters", <<>>)

Filter == Filters(Stage.class, Stage.name)[tried + 1]
Offered == phase = "offered"
MoreFilters == tried < Len(Filters(Stage.class, Stage.name))
Catches(f) == Read(Decorated(FilterClasses[f]), "catch", {})
Caught(f, e) == Catches(f) = {} \/ e.kind \in Catches(f)

\* Mutant: an error without a taker is swallowed.
Swallow ==
    /\ at' = at - 1 /\ phase' = "up"
    /\ UNCHANGED <<app, request, chain, response, error, tried, offers, late, hops, counted, inputs>>

\* The error has no taker: wrapMiddleware, or the handler, rethrows it.
Rethrow ==
    /\ phase' = "raised"
    /\ UNCHANGED <<app, request, chain, at, response, error, tried, offers, late, hops, counted, inputs>>

Replaced(e) ==
    /\ phase' = "raised" /\ error' = e
    /\ UNCHANGED <<app, request, chain, at, response, tried, offers, late, hops, counted, inputs>>

Responds(by, status) == Return(by, status) /\ UNCHANGED <<app, request, chain, error, tried, late, hops, counted, inputs>>

SkipFilter ==
    /\ Offered /\ MoreFilters /\ ~Caught(Filter, error)
    /\ tried' = tried + 1
    /\ UNCHANGED <<app, request, phase, chain, at, response, error, offers, late, hops, counted, inputs>>

\* It answers, declines, or fails itself.
AskFilter ==
    /\ Offered /\ MoreFilters /\ Caught(Filter, error)
    /\ offers' = Append(offers, Filter)
    /\ \/ Responds("filter", 200)
       \/ tried' = tried + 1
          /\ UNCHANGED <<app, request, phase, chain, at, response, error, late, hops, counted, inputs>>
       \/ \E e \in Thrown : phase' = "raised" /\ error' = e
                            /\ UNCHANGED <<app, request, chain, at, response, tried, late, hops, counted, inputs>>

\* A body is made of it, or its status is none and the making throws.
Render ==
    LET body == Rendered(app.errorFormat, error) IN
    IF Respondable(body.status)
      THEN /\ ReturnBody("error", body.status, body.code)
           /\ UNCHANGED <<app, request, chain, inputs, error, tried, offers, late, hops, counted>>
      ELSE Replaced(RangeError)

AnswerError ==
    /\ Offered /\ ~MoreFilters
    /\ IF error.kind = "zod" THEN Render
       ELSE \/ OnError /\ Responds("onError", 200) /\ UNCHANGED offers
            \/ OnError /\ \E e \in Thrown : Replaced(e)
            \/ IF error.kind = "http" THEN Render ELSE Rethrow

\* compose (external).  Stages that are not wrapped hand a value on.
Wrapped(stage) == stage.class # ""

Raised ==
    /\ phase = "raised"
    /\ \/ /\ error.kind # "value"
          /\ response' = [NoResponse EXCEPT !.by = "hono", !.status = IF error.kind = "hono" THEN error.status ELSE 500]
          /\ at' = at - 1 /\ phase' = "up"
          /\ UNCHANGED tried
       \/ /\ error.kind = "value"
          /\ at' = at - 1
          /\ phase' = IF at = 1 THEN "escaped" ELSE IF Wrapped(chain[at - 1]) THEN "offered" ELSE "raised"
          /\ tried' = 0
          /\ UNCHANGED response
    /\ UNCHANGED <<app, request, chain, error, offers, late, hops, counted, inputs>>

-----------------------------------------------------------------------------
\* Coming up: the metrics count, of every path but their own; a middleware has
\* code after next() that may throw.
ReturnUp ==
    /\ phase = "up" /\ at > 0
    /\ \/ /\ Stage.kind = "metrics" /\ request.path.segments # <<"metrics">>
          /\ counted' = Append(counted, response.status)
          /\ at' = at - 1
          /\ UNCHANGED <<app, request, phase, chain, response, error, tried, offers, late, hops, inputs>>
       \/ /\ Stage.kind # "metrics" \/ request.path.segments = <<"metrics">>
          /\ at' = at - 1
          /\ UNCHANGED <<app, request, phase, chain, response, error, tried, offers, late, hops, counted, inputs>>
       \/ Stage.kind = "middleware" /\ \E e \in Thrown : Throw(e)

\* The chain has returned; without a response Hono makes one.
Finish ==
    /\ phase = "up" /\ at = 0
    /\ phase' = "done"
    /\ response' = IF response = NoResponse THEN [NoResponse EXCEPT !.by = "nobody", !.status = 500] ELSE response
    /\ UNCHANGED <<app, request, chain, at, error, tried, offers, late, hops, counted, inputs>>

\* The client follows a redirect to the other spelling of its path.
Follow ==
    /\ phase = "done" /\ response.by = "slash" /\ hops < 2
    /\ request' = [request EXCEPT !.path = Redirected(@)]
    /\ phase' = "built" /\ response' = NoResponse /\ hops' = hops + 1
    /\ UNCHANGED <<app, chain, at, error, tried, offers, late, counted, inputs>>

Next ==
    \/ Build \/ Receive \/ Follow \/ Finish
    \/ Mount \/ Slash \/ RunMiddleware \/ Limit \/ CheckGuards \/ CheckInput \/ CheckChannel \/ NotFound
    \/ Ask \/ Handle \/ OpenStream
    \/ SkipFilter \/ AskFilter \/ AnswerError \/ Raised \/ ReturnUp

Spec == Init /\ [][Next]_vars

-----------------------------------------------------------------------------
Decorators(class, name) == {d \in ToSet(Declared[class]) : d.on = name}
IsOn(class, name, names) == \E d \in Decorators(class, name) : d.is \in names
Reached == AtStage("handler")
Before == {chain[i].kind : i \in 1..(at - 1)}

\* A handler runs only after everything its decorators ask for, in whatever
\* order they were written and whatever its class has on other methods: guards
\* unless it is public itself, the rate limit, validation, and the channel's
\* authorization before a stream opens; a private or foreign route never does.
\* What it gets of a whole part @Validate names, by a call without a schema of
\* its own, is what the schema made of it, unless that is undefined; only Param
\* (README: "raw") never looks.
GuardedHandler ==
    Reached =>
        LET asks(names, kind) == IsOn(Stage.class, Stage.name, names) => kind \in Before
            on(is) == IsOn(Stage.class, Stage.name, {is})
        IN  /\ asks({"RateLimit"}, "limit") /\ asks({"Validate"}, "validate")
            /\ (~on("Public") => asks({"UseGuards", "RequireAuth", "RequireRole", "RequirePermission"}, "guards"))
            /\ ((on("ChannelRoute") /\ (on("Sse") \/ on("WebSocket"))) => asks({"ChannelAuth"}, "channelAuth"))
            /\ ~(app.excludePrivate /\ on("Private"))
            /\ \E r \in ToSet(Kept(app, Stage.class)) : r.name = Stage.name
            /\ (got.whole /\ got.by # "Param" /\ got.value = "raw") =>
                 \A d \in Decorators(Stage.class, Stage.name) :
                    (d.is = "Validate" /\ got.part \in DOMAIN d.with) => validated[got.part] = "undefined"

\* An error that is an Error is offered to no filter twice, however many
\* wrapped stages it passes on its way out, and to the filters of the method
\* before those of the class.
FiltersInOrder ==
    (error.kind # "value" /\ Offered) =>
        /\ \A i, j \in DOMAIN offers : offers[i] = offers[j] => i = j
        /\ \A i, j \in DOMAIN offers :
             (i < j /\ offers[i] \in ToSet(Read(Meta[Stage.class], "filters", <<>>)))
                => offers[j] \notin ToSet(ReadFor(Meta[Stage.class], "methodFilters", Stage.name, <<>>))

\* An error thrown before there is a response decides the response, whatever
\* the stages further out do: a filter, onError or respondToError answers it,
\* or Hono does, for whom an HttpException is any other error.  The status and
\* the code in the body are those of the error, or of the meta that overrides
\* them in a problem document, and the same status is sent.
ErrorDecides ==
    (phase = "done" /\ error # NoError /\ ~late) =>
        \/ response.by \in {"filter", "onError"}
        \/ /\ response.by = "error" /\ error.kind \in {"zod", "http"}
           /\ \A own \in {"status", "code"} :
                IF app.errorFormat = "problem" /\ own \in DOMAIN error.meta
                  THEN response[own] = error.meta[own] ELSE response[own] = error[own]
        \/ response.by = "hono" /\ response.status = (IF error.kind = "hono" THEN error.status ELSE 500)

\* "Structured HTTP error that the route builder handles automatically:
\* Returns the correct HTTP status code" (http-exception.ts), whoever throws it.
HttpExceptionAnswered ==
    (phase = "done" /\ error.kind = "http" /\ response.by \notin {"filter", "onError"})
        => response.status = error.status

\* Only the absence of a route makes the router answer 404, whatever the
\* spelling of the path and the trailing-slash mode.  The path is the one asked
\* for last: with "add" the root is redirected to "//", for which there is no
\* route.
NotFoundMeansAbsent ==
    (phase = "done" /\ response.by = "router") =>
        \A class \in ToSet(CollectModule(app.module)) : \A r \in ToSet(Kept(app, class)) :
           ~\E p \in {NoSlash(request.path), WithSlash(request.path)} :
               /\ PathMatches(NoSlash(FullPath(class, r)), p) \/ PathMatches(WithSlash(FullPath(class, r)), p)
               /\ \/ r.method \in {"ALL", request.method}
                  \/ r.method = "GET" /\ request.method = "HEAD"

\* What is told of a handler is what a request meets: the operation that
\* carries its name asks for a bearer token only if guards or @JwtAuth run
\* before it, or @ApiSecurity says so; it is open to all only if no guards do,
\* and tells of the 401 otherwise; a body that is validated, and each field of a
\* query whose schema has fields (see ValidatedQueryTold for others), is among what the
\* document says is sent, unless @ApiDoc tells the query itself; describe() lists the
\* middlewares, of class and method, that run before it, in their order.
TruthfulDocument ==
    Reached =>
        LET class == Stage.class  name == Stage.name
            operations == {o \in Document(CollectModule(app.module)).operations : o.class = class /\ o.name = name}
            told == {d \in Decorators(class, name) : d.is = "ApiDoc" /\ "query" \in DOMAIN d.with}
            required == {d \in Decorators(class, name) : d.is = "ApiSecurity" /\ d.with = "bearerAuth"}
            checked == ReadFor(Meta[class], "validation", name, <<>>)
            ran == {i \in 1..(at - 1) : chain[i].kind = "middleware"}
        IN  /\ \A o \in operations :
                 /\ ("bearerAuth" \in ToSet(o.security.schemes)
                      => "guards" \in Before \/ required # {} \/ \E i \in 1..(at - 1) : chain[i].of = "jwt")
                 /\ ((o.security.given /\ o.security.schemes = <<>>) => "guards" \notin Before)
                 /\ (o.security.schemes # <<>> => 401 \in o.responses)
                 /\ ("body" \in DOMAIN checked => o.body)
                 /\ (DOMAIN ShapeOf(Read(checked, "query", <<>>)) \subseteq o.query \/ told # {})
            /\ \A d \in ToSet(Describe(class)) : d.name = name =>
                 /\ \E before \in 0..at :
                       /\ ran = (before + 1)..(before + Len(d.middlewares))
                       /\ \A i \in DOMAIN d.middlewares : chain[before + i].of = d.middlewares[i]
                 /\ ((d.guards # <<>> /\ ~d.isPublic) <=> "guards" \in Before)
                 /\ ((d.sse \/ d.websocket) <=> Stage.of = "stream")

\* A request that metrics are collected of is counted once, with the status it
\* is answered with, whatever was thrown; of those that no stage answers the
\* status is Hono's concern.
CountedOnce ==
    (phase = "done" /\ "metrics" \in app.extras /\ request.path.segments # <<"metrics">>
       /\ response.by \notin {"nobody", "cors"})
        => counted = <<response.status>>

\* What a typed client asks for with every parameter is what the route it
\* names is for, and its stages are in the chain.
ClientReachesRoute ==
    (phase = "built" /\ hops = 0) =>
        \A class \in ToSet(CollectModule(app.module)) : \A d \in ClientRoutes(class) :
            LET params == SetToSeqs({s \in ToSet(d.path.segments) : s \in Parameters}) IN
            \A p \in params :
                LET path == BuildUrl(d.path, p) IN
                /\ PathMatches(d.path, path) /\ ToSet(path.segments) \intersect Parameters = {}
                /\ (\E r \in ToSet(Kept(app, class)) :
                       r.name = d.name /\ r.method = d.method /\ FullPath(class, r) = d.path) =>
                     \E s \in ToSet(Chain(Tables[app], d.method, path)) :
                         s.kind = "handler" /\ s.class = class /\ s.name = d.name

\* "The same schemas are emitted into the generated OpenAPI spec" (validate.ts):
\* a query is validated that the document tells nothing of when its schema has
\* no fields, be it a union, a record or one that transforms what it reads.
ValidatedQueryTold ==
    Reached => \A o \in Document(CollectModule(app.module)).operations :
        (/\ o.class = Stage.class /\ o.name = Stage.name
         /\ "query" \in DOMAIN ReadFor(Meta[Stage.class], "validation", Stage.name, <<>>))
            => o.query # {}

\* A scheme an operation names is in the document, when it is declared "on the
\* controller or module" (security.ts).
SchemesDefined ==
    LET classes == CollectModule(app.module)  doc == Document(classes) IN
    \A o \in doc.operations : \A scheme \in ToSet(o.security.schemes) :
        scheme \in doc.schemes \/ ~\E m \in DOMAIN Modules : scheme \in Modules[m].schemes

\* Two routes of one application with the same method and path, the case of
\* their trailing slashes aside: the second is warned of when it is added.
DuplicatesWarned ==
    phase = "built" =>
        LET table == Table(app) IN
        \A i, j \in DOMAIN table :
            (i < j /\ table[i].class # "" /\ table[j].class # ""
               /\ <<table[i].class, table[i].name>> # <<table[j].class, table[j].name>>
               /\ table[i].method = table[j].method
               /\ NoSlash(table[i].path) = NoSlash(table[j].path))
            => \E k \in DOMAIN table : /\ table[k].class = table[j].class /\ table[k].name = table[j].name
                                       /\ DuplicateAt(table, k)

=============================================================================
