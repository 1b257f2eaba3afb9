------------------------------- MODULE Routes -------------------------------
(***************************************************************************)
(* From decorated classes to an application: HonoRouteBuilder.buildModule, *)
(* build and registerRoute (core/route-builder.ts), the table the router   *)
(* is given and the chain a request meets in it; and what is told about    *)
(* it: describe() and the OpenAPI document (openapi/generator.ts).         *)
(*                                                                         *)
(* An application is a record: module, the root; trailingSlash; platform,  *)
(* "" for any; excludePrivate; executor and upgrader, whether a guard      *)
(* executor and a WebSocket upgrader are configured; adapters, the named   *)
(* cache adapters; extras, what createApp mounts beside the module: some   *)
(* of cors, metrics, health, openapi.                                      *)
(***************************************************************************)
EXTENDS Metadata, Integers, FiniteSets

CONSTANTS
    Declared,    \* [controller classes -> sequence of decorators]
    Modules,     \* [modules -> [controllers, imports, schemes]]: two sequences,
                 \* and the security schemes declared on it
    Parameters,  \* the segments that start with a colon
    Begins       \* [Parameters -> the parameters its text begins with]

\* A class is a sequence of decorators, and middlewares and guards are named.
ASSUME DeclaredAssumption ==
    /\ "" \notin DOMAIN Declared
    /\ \A class \in DOMAIN Declared :
         /\ Declared[class] \in Seq(ToSet(Declared[class]))
         /\ \A d \in ToSet(Declared[class]) :
              /\ DOMAIN d = {"is", "on", "with"}
              /\ d.is \in {"Middleware", "UseGuards"} => d.with \in Seq(STRING)

\* @UseGuards and @Validate are given something to check; of two @Validate on
\* one method the first would be forgotten.
ASSUME ArgumentsAssumption ==
    \A class \in DOMAIN Declared : \A d \in ToSet(Declared[class]) :
        /\ d.is = "UseGuards" => d.with # <<>>
        /\ d.is = "Validate" => DOMAIN d.with # {} /\ DOMAIN d.with \subseteq {"body", "query", "params"}
        /\ \A e \in ToSet(Declared[class]) :
             d.is = "Validate" /\ e.is = "Validate" /\ d.on = e.on => d = e

\* What a client puts in place of a parameter is none; a text begins with itself.
ASSUME ParametersAssumption == "value" \notin Parameters /\ \A p \in Parameters : p \in Begins[p]

Meta == [class \in DOMAIN Declared |-> Decorated(Declared[class])]

\* Controllers in the order of the import graph; a module is visited once, a
\* controller listed twice is built twice.
CollectModule(module) ==
    LET visit[todo \in Seq(DOMAIN Modules), seen \in SUBSET DOMAIN Modules] ==
            IF todo = <<>> THEN <<>>
            ELSE LET m == Head(todo) IN
                 IF m \in seen THEN visit[Tail(todo), seen]
                 ELSE Modules[m].controllers
                        \o visit[Modules[m].imports \o Tail(todo), seen \union {m}]
    IN  visit[<<module>>, {}]

-----------------------------------------------------------------------------
\* Routes of a class, and those of them this application has.
AllRoutes(class) == Read(Meta[class], "routes", <<>>)
FullPath(class, route) == PathOf(Meta[class]["controller"], route.path)

\* A path is a sequence of segments and whether a slash ends it.
ASSUME PathsAssumption ==
    \A class \in DOMAIN Declared : "controller" \in DOMAIN Meta[class] =>
        \A r \in ToSet(AllRoutes(class)) : FullPath(class, r) \in [segments : Seq(STRING), slash : BOOLEAN]

IsKept(app, class, r) ==
    /\ ~(app.excludePrivate /\ ReadFor(Meta[class], "isPrivate", r.name, FALSE))
    /\ (app.platform = "" \/ r.platform \in {"all", app.platform})

If(there, entries) == IF there THEN entries ELSE <<>>
Kept(app, class) ==
    LET routes == AllRoutes(class) IN
    FlattenSeq([i \in DOMAIN routes |-> If(IsKept(app, class, routes[i]), <<routes[i]>>)])

\* Both spellings of a path; the root has one.
NoSlash(path) == [path EXCEPT !.slash = path.slash /\ path.segments = <<>>]
WithSlash(path) == [path EXCEPT !.slash = TRUE]
Spellings(path) ==
    IF path.segments = <<>> /\ path.slash THEN <<path>> ELSE <<NoSlash(path), WithSlash(path)>>

\* Mutant: HEAD is registered as itself.
RegisteredAsIs(route) == route.method

\* An HTTP method is registered as itself, but for HEAD.
Registered(route) == IF route.method = "HEAD" THEN "GET" ELSE route.method

\* What registerRoute appends to the table, in order.
Entries(class, route) ==
    LET paths == Spellings(FullPath(class, route)) IN
    [i \in DOMAIN paths |->
        [method |-> Registered(route), path |-> paths[i], class |-> class, name |-> route.name]]

\* With a trailing-slash mode every controller first adds a middleware that
\* runs for every path.
SlashEntry == [method |-> "ALL", path |-> [segments |-> <<"*">>, slash |-> FALSE],
               class |-> "", name |-> "slash"]

\* build.
BuildController(app, class) ==
    If(app.trailingSlash # "ignore", <<SlashEntry>>)
        \o FlattenSeq([i \in DOMAIN Kept(app, class) |-> Entries(class, Kept(app, class)[i])])

\* Mutant: any @Public of the class opens all of it.
GuardsOfPublicClass(class, name) ==
    IF Read(Meta[class], "isPublic", <<>>) # <<>> THEN <<>>
    ELSE ReadFor(Meta[class], "guards", name, <<>>)

\* The guards that run: those of the method, unless it is public.
Guards(class, name) ==
    IF ReadFor(Meta[class], "isPublic", name, FALSE) THEN <<>>
    ELSE ReadFor(Meta[class], "guards", name, <<>>)

IsStream(class, name) ==
    ReadFor(Meta[class], "sse", name, FALSE) \/ ReadFor(Meta[class], "websocket", name, FALSE)

\* Registering the route throws: guards without an executor, a WebSocket
\* without an upgrader, an adapter nobody configured; a stream route does not
\* look for that of @Idempotent.
Misconfigured(app, class, route) ==
    \/ ~app.executor /\ Guards(class, route.name) # <<>>
    \/ ~app.upgrader /\ ReadFor(Meta[class], "websocket", route.name, FALSE)
    \/ LET adapter(key) == ReadFor(Meta[class], key, route.name, [adapter |-> ""]).adapter
           missing(key) == adapter(key) \notin app.adapters \union {""}
       IN  \/ missing("cache")
           \/ ~IsStream(class, route.name) /\ missing("idempotent")

\* buildModule: the table, or no application at all.
Buildable(app) ==
    \A class \in ToSet(CollectModule(app.module)) :
        /\ "controller" \in DOMAIN Meta[class]
        /\ \A r \in ToSet(Kept(app, class)) : ~Misconfigured(app, class, r)

Table(app) ==
    LET classes == CollectModule(app.module) IN
    FlattenSeq([i \in DOMAIN classes |-> BuildController(app, classes[i])])

\* What is mounted beside the module: the middlewares for every path, and the
\* endpoints.
Mounted(method, segments, name) ==
    [method |-> method, path |-> [segments |-> segments, slash |-> FALSE], class |-> "", name |-> name]
Endpoint(segments, name) == Mounted("GET", segments, name)
MountCors(app) == If("cors" \in app.extras, <<Mounted("ALL", <<"*">>, "cors")>>)
MountMetrics(app) ==
    If("metrics" \in app.extras, <<Mounted("ALL", <<"*">>, "metrics"), Endpoint(<<"metrics">>, "endpoint")>>)
MountHealth(app) ==
    If("health" \in app.extras,
       <<Endpoint(<<"health">>, "health"), Endpoint(<<"health", "live">>, "health"),
         Endpoint(<<"health", "ready">>, "health")>>)
MountOpenApi(app) ==
    If("openapi" \in app.extras,
       <<Endpoint(<<"openapi.json">>, "endpoint"), Endpoint(<<"docs">>, "endpoint")>>)

\* createApp.
CreateApp(app) ==
    MountCors(app) \o MountMetrics(app) \o Table(app) \o MountHealth(app) \o MountOpenApi(app)

\* The entries it warns of when it adds them.
DuplicateAt(table, i) ==
    /\ table[i].class # ""
    /\ \E j \in 1..(i - 1) :
          table[j].class # "" /\ table[j].method = table[i].method /\ table[j].path = table[i].path

-----------------------------------------------------------------------------
\* The router (external): an entry matches a path segment by segment, one that
\* starts with a colon any; all matches run in the order of the table.
SegmentMatches(pattern, segment) == pattern = segment \/ (pattern \in Parameters /\ segment # "")

PathMatches(pattern, path) ==
    \/ pattern.segments = <<"*">>
    \/ /\ Len(pattern.segments) = Len(path.segments)
       /\ (pattern.slash = path.slash \/ pattern.segments = <<>>)
       /\ \A i \in DOMAIN path.segments : SegmentMatches(pattern.segments[i], path.segments[i])

\* A HEAD request is answered as a GET without its body.
EntryMatches(entry, method, path) ==
    /\ entry.method \in {"ALL", IF method = "HEAD" THEN "GET" ELSE method}
    /\ PathMatches(entry.path, path)

\* The handlers registerRoute gives the router for a route, in order.
Stages(class, name) ==
    LET meta == Meta[class]
        stage(kind, of) == [kind |-> kind, of |-> of, class |-> class, name |-> name]
        named(mws) == [i \in DOMAIN mws |-> stage("middleware", mws[i])]
        one(kind, there) == If(there, <<stage(kind, "")>>)
        channelled == "channel" \in DOMAIN meta /\ name \in DOMAIN meta["channel"]
    IN  named(Read(meta, "middlewares", <<>>))
          \o named(ReadFor(meta, "methodMiddlewares", name, <<>>))
          \o one("limit", ReadFor(meta, "rateLimit", name, FALSE))
          \o one("guards", Guards(class, name) # <<>>)
          \o one("validate", DOMAIN ReadFor(meta, "validation", name, <<>>) # {})
          \o one("channelAuth", IsStream(class, name) /\ channelled /\ ReadFor(meta, "channelAuth", name, FALSE))
          \o <<stage("handler", IF IsStream(class, name) THEN "stream" ELSE "http")>>

\* An entry that belongs to no controller is its own stage.
OwnStage(entry) == [kind |-> entry.name, of |-> "", class |-> "", name |-> ""]

Chain(table, method, path) ==
    LET stages(entry) == IF entry.class = "" THEN <<OwnStage(entry)>> ELSE Stages(entry.class, entry.name) IN
    FlattenSeq([i \in DOMAIN table |-> If(EntryMatches(table[i], method, path), stages(table[i]))])

-----------------------------------------------------------------------------
\* describe(): what the chain of a route will be, read from the metadata.
Described(meta, path, route, middlewares) ==
    LET of(key, default) == ReadFor(meta, key, route.name, default)
        has(key) == route.name \in DOMAIN Read(meta, key, <<>>)
    IN
    [method   |-> route.method, path |-> path, name |-> route.name, platform |-> route.platform,
     guards   |-> of("guards", <<>>), isPublic |-> of("isPublic", FALSE), isPrivate |-> of("isPrivate", FALSE),
     middlewares |-> middlewares, limited |-> of("rateLimit", FALSE),
     cached   |-> has("cache"), cacheInvalidate |-> of("cacheInvalidate", <<>>),
     sse      |-> of("sse", FALSE), websocket |-> of("websocket", FALSE), channelled |-> has("channel"),
     idempotent |-> has("idempotent"), singleFlight |-> of("singleFlight", FALSE),
     redirects  |-> of("redirect", 0), headers |-> DOMAIN of("headers", <<>>)]

\* Mutant: the middlewares of the method come first.
DescribeMethodFirst(class) ==
    LET meta == Meta[class]  routes == AllRoutes(class) IN
    [i \in DOMAIN routes |->
        Described(meta, FullPath(class, routes[i]), routes[i],
                  ReadFor(meta, "methodMiddlewares", routes[i].name, <<>>) \o Read(meta, "middlewares", <<>>))]

Describe(class) ==
    LET meta == Meta[class]  routes == AllRoutes(class) IN
    [i \in DOMAIN routes |->
        Described(meta, FullPath(class, routes[i]), routes[i],
                  Read(meta, "middlewares", <<>>) \o ReadFor(meta, "methodMiddlewares", routes[i].name, <<>>))]

\* generate: guards known by name, or @JwtAuth.
InferredAuth(class, name) ==
    LET meta == Meta[class] IN
    /\ ~ReadFor(meta, "isPublic", name, FALSE)
    /\ \/ \E guard \in ToSet(ReadFor(meta, "guards", name, <<>>)) :
            guard \in {"AuthGuard", "RoleGuard", "PermissionGuard"}
       \/ "jwt" \in ToSet(Read(meta, "middlewares", <<>>))
       \/ "jwt" \in ToSet(ReadFor(meta, "methodMiddlewares", name, <<>>))

\* The `security` of an operation, if given: schemes any of which will do.
Security(class, name) ==
    LET public == ReadFor(Meta[class], "isPublic", name, FALSE)
        schemes == (IF InferredAuth(class, name) THEN <<"bearerAuth">> ELSE <<>>)
                     \o ReadFor(Meta[class], "security", name, <<>>)
    IN  [given   |-> public \/ schemes # <<>>,
         schemes |-> IF public THEN <<>> ELSE schemes]

Responses(class, name) ==
    LET told == Read(Documented(Meta[class], name), "responses", <<>>) IN
    (IF told = <<>> THEN {200} ELSE DOMAIN told)
        \union (IF Security(class, name).schemes = <<>> THEN {}
                ELSE IF InferredAuth(class, name) THEN {401, 403} ELSE {401})
        \union (IF name \in DOMAIN Read(Meta[class], "timeout", <<>>) THEN {504} ELSE {})

\* The parameters are those of the path, whatever is told, and of the query.
Operation(class, route) ==
    LET meta == Meta[class]  name == route.name  told == Documented(meta, name)
        stream(key) == ReadFor(meta, key, name, FALSE)
    IN  [class |-> class, name |-> name,
         security   |-> Security(class, name),
         inPath     |-> {s \in ToSet(FullPath(class, route).segments) : s \in Parameters},
         query      |-> DOMAIN Read(told, "query", <<>>),
         body       |-> "body" \in DOMAIN told,
         responses  |-> Responses(class, name),
         deprecated |-> "deprecated" \in DOMAIN told,
         tags       |-> Read(meta, "classTags", <<>>) \o Read(told, "tags", <<>>),
         transport  |-> IF stream("sse") THEN "sse" ELSE IF stream("websocket") THEN "websocket" ELSE "",
         channel    |-> ReadFor(meta, "channel", name, "")]

\* The operations, of two with the same method and path as declared the
\* later; and the schemes, of those any route asks for, that a controller has.
Document(classes) ==
    LET declared == FlattenSeq([i \in DOMAIN classes |->
                        [k \in DOMAIN AllRoutes(classes[i]) |-> <<classes[i], AllRoutes(classes[i])[k]>>]])
        told == SelectSeq(declared, LAMBDA p : p[2].method # "ALL")
        key(p) == <<p[2].method, FullPath(p[1], p[2])>>
        paths == FoldLeft(LAMBDA doc, p : (key(p) :> p) @@ doc, <<>>, told)
        asked == UNION {ToSet(ReadFor(Meta[p[1]], "security", p[2].name, <<>>)) : p \in ToSet(told)}
        had == UNION {DOMAIN Read(Meta[c], "schemes", <<>>) : c \in ToSet(classes)}
    IN  [operations |-> {Operation(p[1], p[2]) : p \in {paths[k] : k \in DOMAIN paths}},
         schemes |-> (asked \intersect had)
                       \union (IF \E p \in ToSet(told) : InferredAuth(p[1], p[2].name) THEN {"bearerAuth"} ELSE {})]

\* generateClientTypes: the routes a typed client has; and the path it asks for
\* with `params`, a map from the parameters in the order they are given: each
\* replaces the first place its name, a colon in front, is found, be it where
\* the name of another begins.
ClientRoutes(class) ==
    {d \in ToSet(Describe(class)) :
        /\ d.method \notin {"ALL", "HEAD"}
        /\ ~ReadFor(Meta[class], "sse", d.name, FALSE)
        /\ ~ReadFor(Meta[class], "websocket", d.name, FALSE)}

\* Mutant: the last place.
SubstituteLast(segments, param) ==
    LET found == {i \in DOMAIN segments : segments[i] \in Parameters /\ param \in Begins[segments[i]]} IN
    IF found = {} THEN segments
    ELSE [segments EXCEPT ![Max(found)] = IF @ = param THEN "value" ELSE "mangled"]

Substitute(segments, param) ==
    LET found == {i \in DOMAIN segments : segments[i] \in Parameters /\ param \in Begins[segments[i]]} IN
    IF found = {} THEN segments
    ELSE [segments EXCEPT ![Min(found)] = IF @ = param THEN "value" ELSE "mangled"]

BuildUrl(path, params) == [path EXCEPT !.segments = FoldLeft(Substitute, @, params)]

=============================================================================
