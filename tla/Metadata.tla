------------------------------ MODULE Metadata ------------------------------
(***************************************************************************)
(* What the decorators of a class leave in its metadata: one map for the   *)
(* class, whose per-method entries are maps from the method's name.        *)
(*                                                                         *)
(* A decorator is a record [is, on, with]: its name, the method it is on,  *)
(* or OnClass, and its argument.  A class is the sequence of its           *)
(* decorators in the order they run: bottom up, those of the methods       *)
(* first.  Classes do not extend one another.                              *)
(***************************************************************************)
EXTENDS Sequences, TLC, SequencesExt

OnClass == "class"

Read(meta, key, default) == IF key \in DOMAIN meta THEN meta[key] ELSE default
Put(meta, key, value) == [k \in DOMAIN meta \union {key} |-> IF k = key THEN value ELSE meta[k]]

\* `{ ...existing, ...more }`.
Spread(existing, more) ==
    [k \in DOMAIN existing \union DOMAIN more |-> IF k \in DOMAIN more THEN more[k] ELSE existing[k]]

\* What `meta[KEY]?.[name] ?? default` reads, and what assigning to it does.
ReadFor(meta, key, name, default) == Read(Read(meta, key, <<>>), name, default)
PutFor(meta, key, name, value) == Put(meta, key, Put(Read(meta, key, <<>>), name, value))

\* `[...existing, ...more]`, under a key of its own on a class.
AddFor(meta, key, name, more) == PutFor(meta, key, name, ReadFor(meta, key, name, <<>>) \o more)
Add(meta, onMethod, onClass, d, more) ==
    IF d.on = OnClass
      THEN Put(meta, onClass, Read(meta, onClass, <<>>) \o more)
      ELSE AddFor(meta, onMethod, d.on, more)

-----------------------------------------------------------------------------
\* What the container reads: the tokens of the constructor, and the scope.
Injectable(meta, d) == Put(Put(meta, "injectable", TRUE), "inject", d.with)
Singleton(meta, d) == Put(meta, "singleton", TRUE)
RequestScoped(meta, d) == Put(meta, "requestScoped", TRUE)
Stateless(meta, d) == Put(meta, "stateless", TRUE)

GetInjectTokens(meta) == Read(meta, "inject", <<>>)
IsSingleton(meta) == Read(meta, "singleton", FALSE)
IsRequestScoped(meta) == Read(meta, "requestScoped", FALSE)

\* Modules, and what runs beside the routes: a method has one schedule, the
\* last, and listens to an event once.
Module(meta, d) == Put(meta, "module", d.with)
Interval(meta, d) ==
    PutFor(meta, "schedule", d.on, [cron |-> <<>>, every |-> d.with.ms, immediate |-> d.with.immediate])
Cron(meta, d) ==
    PutFor(meta, "schedule", d.on, [cron |-> <<d.with.expression>>, every |-> 0, immediate |-> d.with.immediate])
OnBootstrap(meta, d) == PutFor(meta, "onBootstrap", d.on, TRUE)
OnEvent(meta, d) ==
    LET heard == ReadFor(meta, "onEvent", d.on, <<>>) IN
    PutFor(meta, "onEvent", d.on, IF d.with \in ToSet(heard) THEN heard ELSE Append(heard, d.with))

-----------------------------------------------------------------------------
\* Routes: @Controller, @Get and the others, @Sse, @WebSocket.
\* A path is a sequence of segments and whether a slash ends it.
PathOf(base, path) ==
    [segments |-> base.segments \o path.segments,
     slash    |-> IF path.segments = <<>> /\ ~path.slash THEN base.slash ELSE path.slash]

Controller(meta, d) ==
    LET platform == d.with.platform
        version == IF d.with.version # "" THEN <<d.with.version>>
                   ELSE IF platform # "" THEN <<"v1">> ELSE <<>>
        prefix == (IF platform # "" THEN <<platform>> ELSE <<>>) \o version
    IN  Put(meta, "controller", PathOf([segments |-> prefix, slash |-> FALSE], d.with.base))

Route(meta, d) ==
    Put(meta, "routes",
        Append(Read(meta, "routes", <<>>),
               [method |-> d.is, path |-> d.with.path, name |-> d.on, platform |-> d.with.platform]))

Get(meta, d) == Route(meta, [d EXCEPT !.is = "GET"])
Sse(meta, d) == Get(PutFor(meta, "sse", d.on, TRUE), d)
WebSocket(meta, d) == Get(PutFor(meta, "websocket", d.on, TRUE), d)

ChannelRoute(meta, d) == PutFor(meta, "channel", d.on, d.with)
ChannelAuth(meta, d) == PutFor(meta, "channelAuth", d.on, TRUE)

\* Access: guards, the rate limit, @Public and @Private.
UseGuards(meta, d) == AddFor(meta, "guards", d.on, d.with)
RequireAuth(meta, d) == AddFor(meta, "guards", d.on, <<"AuthGuard">>)
RequireRole(meta, d) == AddFor(meta, "guards", d.on, <<"RoleGuard">>)
RequirePermission(meta, d) == AddFor(meta, "guards", d.on, <<"PermissionGuard">>)
RateLimit(meta, d) == PutFor(meta, "rateLimit", d.on, TRUE)
Public(meta, d) == PutFor(meta, "isPublic", d.on, TRUE)
Private(meta, d) == PutFor(meta, "isPrivate", d.on, TRUE)
Concurrency(meta, d) == PutFor(meta, "concurrency", d.on, d.with)

\* Middleware and exception filters, on a method or on the class.
Middleware(meta, d) == Add(meta, "methodMiddlewares", "middlewares", d, d.with)
JwtAuth(meta, d) == Middleware(meta, [d EXCEPT !.with = <<"jwt">>])
UseFilters(meta, d) == Add(meta, "methodFilters", "filters", d, d.with)
Catch(meta, d) == Put(meta, "catch", d.with)

\* Responses.  @Serialize on the class replaces the whole map.
Serialize(meta, d) ==
    IF d.on = OnClass THEN Put(meta, "serialize", "*" :> d.with) ELSE PutFor(meta, "serialize", d.on, d.with)
Cache(meta, d) == PutFor(meta, "cache", d.on, d.with)
CacheInvalidate(meta, d) == PutFor(meta, "cacheInvalidate", d.on, d.with)
Idempotent(meta, d) == PutFor(meta, "idempotent", d.on, d.with)
SingleFlight(meta, d) == PutFor(meta, "singleFlight", d.on, TRUE)
Header(meta, d) == PutFor(meta, "headers", d.on, Spread(ReadFor(meta, "headers", d.on, <<>>), d.with))
Redirect(meta, d) == PutFor(meta, "redirect", d.on, d.with)
Status(meta, d) == PutFor(meta, "status", d.on, [status |-> d.with, ignoreBody |-> FALSE])
NoContent(meta, d) == PutFor(meta, "status", d.on, [status |-> 204, ignoreBody |-> TRUE])
ETag(meta, d) == PutFor(meta, "etag", d.on, TRUE)
Timeout(meta, d) == PutFor(meta, "timeout", d.on, d.with)

\* Documents: per method a map with some of body, query and params (maps from
\* names), responses (from codes), deprecated and tags.
Documented(meta, name) == ReadFor(meta, "openapi", name, <<>>)
Tell(meta, d, key, value) == PutFor(meta, "openapi", d.on, Put(Documented(meta, d.on), key, value))
TellMore(meta, d, key, more) == Tell(meta, d, key, Spread(Read(Documented(meta, d.on), key, <<>>), more))

ApiDoc(meta, d) == PutFor(meta, "openapi", d.on, Spread(Documented(meta, d.on), d.with))
ApiResponse(meta, d) == TellMore(meta, d, "responses", d.with)
ApiBody(meta, d) == Tell(meta, d, "body", d.with)
ApiQuery(meta, d) == TellMore(meta, d, "query", d.with)
ApiDeprecated(meta, d) == Tell(meta, d, "deprecated", TRUE)
ApiTags(meta, d) ==
    IF d.on = OnClass THEN Put(meta, "classTags", Read(meta, "classTags", <<>>) \o d.with)
    ELSE Tell(meta, d, "tags", Read(Documented(meta, d.on), "tags", <<>>) \o d.with)
ApiSecurity(meta, d) == AddFor(meta, "security", d.on, <<d.with>>)
ApiSecurityScheme(meta, d) == PutFor(meta, "schemes", d.with, TRUE)

\* A schema of query or params has a shape, its fields, if it is one of an
\* object; a union, a record or one that transforms has none.
HasShape(schema) == "shape" \in DOMAIN schema
ShapeOf(schema) == Read(schema, "shape", <<>>)

\* All is validated.  Documented are the body, and of query and params the fields
\* of a schema that has them, what other decorators said of one coming first.
Validate(meta, d) ==
    LET existing == Documented(meta, d.on)
        listed == {part \in DOMAIN d.with : part = "body" \/ HasShape(d.with[part])}
        told == [part \in listed |->
                    IF part = "body" THEN Read(existing, part, d.with[part])
                    ELSE Spread(ShapeOf(d.with[part]), Read(existing, part, <<>>))]
    IN  PutFor(PutFor(meta, "validation", d.on, d.with), "openapi", d.on, Spread(existing, told))

Apply(meta, d) ==
    CASE d.is = "Injectable"        -> Injectable(meta, d)
      [] d.is = "Singleton"         -> Singleton(meta, d)
      [] d.is = "RequestScoped"     -> RequestScoped(meta, d)
      [] d.is = "Stateless"         -> Stateless(meta, d)
      [] d.is = "Module"            -> Module(meta, d)
      [] d.is = "Interval"          -> Interval(meta, d)
      [] d.is = "Cron"              -> Cron(meta, d)
      [] d.is = "OnBootstrap"       -> OnBootstrap(meta, d)
      [] d.is = "OnEvent"           -> OnEvent(meta, d)
      [] d.is = "Controller"        -> Controller(meta, d)
      [] d.is = "Sse"               -> Sse(meta, d)
      [] d.is = "WebSocket"         -> WebSocket(meta, d)
      [] d.is = "ChannelRoute"      -> ChannelRoute(meta, d)
      [] d.is = "ChannelAuth"       -> ChannelAuth(meta, d)
      [] d.is = "UseGuards"         -> UseGuards(meta, d)
      [] d.is = "RequireAuth"       -> RequireAuth(meta, d)
      [] d.is = "RequireRole"       -> RequireRole(meta, d)
      [] d.is = "RequirePermission" -> RequirePermission(meta, d)
      [] d.is = "RateLimit"         -> RateLimit(meta, d)
      [] d.is = "Concurrency"       -> Concurrency(meta, d)
      [] d.is = "Public"            -> Public(meta, d)
      [] d.is = "Private"           -> Private(meta, d)
      [] d.is = "Middleware"        -> Middleware(meta, d)
      [] d.is = "JwtAuth"           -> JwtAuth(meta, d)
      [] d.is = "UseFilters"        -> UseFilters(meta, d)
      [] d.is = "Catch"             -> Catch(meta, d)
      [] d.is = "Validate"          -> Validate(meta, d)
      [] d.is = "Serialize"         -> Serialize(meta, d)
      [] d.is = "Cache"             -> Cache(meta, d)
      [] d.is = "CacheInvalidate"   -> CacheInvalidate(meta, d)
      [] d.is = "Idempotent"        -> Idempotent(meta, d)
      [] d.is = "SingleFlight"      -> SingleFlight(meta, d)
      [] d.is = "Header"            -> Header(meta, d)
      [] d.is = "Redirect"          -> Redirect(meta, d)
      [] d.is = "Status"            -> Status(meta, d)
      [] d.is = "NoContent"         -> NoContent(meta, d)
      [] d.is = "ETag"              -> ETag(meta, d)
      [] d.is = "Timeout"           -> Timeout(meta, d)
      [] d.is = "ApiDoc"            -> ApiDoc(meta, d)
      [] d.is = "ApiResponse"       -> ApiResponse(meta, d)
      [] d.is = "ApiBody"           -> ApiBody(meta, d)
      [] d.is = "ApiQuery"          -> ApiQuery(meta, d)
      [] d.is = "ApiDeprecated"     -> ApiDeprecated(meta, d)
      [] d.is = "ApiTags"           -> ApiTags(meta, d)
      [] d.is = "ApiSecurity"       -> ApiSecurity(meta, d)
      [] d.is = "ApiSecurityScheme" -> ApiSecurityScheme(meta, d)
      [] OTHER                      -> Route(meta, d)

\* The metadata of a class.
Decorated(decorators) == FoldLeft(Apply, <<>>, decorators)

\* The methods with one of the decorators `is`, as their entries came.
Entered(decorators, is) ==
    LET those == SelectSeq(decorators, LAMBDA d : d.is \in is) IN
    FoldLeft(LAMBDA names, d : IF d.on \in ToSet(names) THEN names ELSE Append(names, d.on), <<>>, those)

=============================================================================
