----------------------------- MODULE MCPipeline -----------------------------
EXTENDS Pipeline

Path(segments) == [segments |-> segments, slash |-> FALSE]
Root == [segments |-> <<>>, slash |-> TRUE]

\* Decorators, in the order they run.
on(is, name, with) == [is |-> is, on |-> name, with |-> with]
At(method, name, path) == on(method, name, [path |-> path, platform |-> "all"])
Base(platform, path) == on("Controller", "class", [platform |-> platform, version |-> "", base |-> path])

\* A controller with most of what a route may have.
Users == <<
    on("RequireAuth", "list", <<>>), on("UseFilters", "list", <<"onlyHttp">>),
    on("ETag", "list", TRUE), on("Timeout", "list", 100), on("SingleFlight", "list", TRUE),
    on("Header", "list", "x-api" :> "1"), on("Header", "list", "vary" :> "accept"), At("GET", "list", Path(<<>>)),
    on("Validate", "pet", ("params" :> ("shape" :> (":id" :> "Int"))) @@ ("query" :> ("kind" :> "union"))), At("GET", "pet", Path(<<":id", "pets", ":ids">>)),
    on("Public", "show", TRUE), on("Cache", "show", [adapter |-> ""]), on("Status", "show", 203),
    At("GET", "show", Path(<<":id">>)),
    on("Idempotent", "create", [adapter |-> "durable"]), on("CacheInvalidate", "create", <<"show">>),
    on("Concurrency", "create", 2), on("RequireRole", "create", <<>>), on("RateLimit", "create", TRUE),
    on("ApiQuery", "create", "page" :> "told"), on("ApiResponse", "create", 201 :> "User"),
    on("Validate", "create", ("body" :> "NewUser") @@ ("query" :> ("shape" :> ("page" :> "Int" @@ "limit" :> "Int")))), on("Serialize", "create", TRUE),
    on("NoContent", "create", TRUE), on("ApiSecurity", "create", "apiKey"), on("ApiDeprecated", "create", TRUE),
    At("POST", "create", Path(<<>>)),
    on("ApiSecurityScheme", "class", "apiKey"), on("ApiTags", "class", <<"users">>),
    on("Middleware", "class", <<"log">>), on("UseFilters", "class", <<"all">>),
    Base("", Path(<<"users">>)) >>

\* Streams, a redirect, a private route and one for a platform, behind @JwtAuth.
Feeds == <<
    on("ChannelRoute", "feed", "news"), on("ChannelAuth", "feed", TRUE), on("Middleware", "feed", <<"trace">>),
    on("Sse", "feed", [path |-> Path(<<"feed">>), platform |-> "all"]),
    on("RequirePermission", "chat", <<>>),
    on("WebSocket", "chat", [path |-> Path(<<"chat">>), platform |-> "all"]),
    on("Redirect", "old", 302), on("UseGuards", "old", <<"Own">>), At("ALL", "old", Path(<<"old">>)),
    on("ApiDoc", "admin", "tags" :> <<"internal">>), on("ApiBody", "admin", "Any"), on("Private", "admin", TRUE), At("GET", "admin", Path(<<"admin">>)),
    on("GET", "beta", [path |-> Path(<<"beta">>), platform |-> "mobile"]),
    on("JwtAuth", "class", <<>>), on("Serialize", "class", TRUE), Base("mobile", Path(<<>>)) >>

\* The root, a HEAD route, and two routes others have already.
Home == <<
    At("GET", "index", Root), At("HEAD", "ping", Path(<<"ping">>)),
    At("GET", "users", [segments |-> <<"users">>, slash |-> TRUE]),
    At("GET", "me", Path(<<"users", "me">>)), Base("", Path(<<>>)) >>

Controllers == [users |-> Users, feeds |-> Feeds, home |-> Home]
Tree == [main    |-> [controllers |-> <<"users">>, imports |-> <<"site", "stream">>, schemes |-> {}],
         site    |-> [controllers |-> <<"home">>, imports |-> <<"main">>, schemes |-> {}],
         stream  |-> [controllers |-> <<"feeds">>, imports |-> <<>>, schemes |-> {}]]

App(module, slash, platform, private, executor, extras) ==
    [module |-> module, trailingSlash |-> slash, platform |-> platform, excludePrivate |-> private,
     executor |-> executor, upgrader |-> TRUE, adapters |-> {"durable"}, extras |-> extras,
     errorFormat |-> IF slash = "strip" THEN "problem" ELSE "envelope"]
Everything == {"cors", "metrics", "health", "openapi"}
Applications ==
    {App("main", "ignore", "", FALSE, TRUE, Everything), App("site", "add", "", FALSE, TRUE, {}),
     App("main", "strip", "", FALSE, TRUE, {"health", "metrics"}), App("stream", "ignore", "web", TRUE, TRUE, {}),
     App("main", "ignore", "", FALSE, FALSE, {})}

Asked ==
    {[method |-> m, path |-> p] : m \in {"GET"},
        p \in {Root, Path(<<"users">>), [segments |-> <<"users">>, slash |-> TRUE], Path(<<"users", "me">>),
               Path(<<"users", "1", "pets", "2">>),
               Path(<<"mobile", "v1", "feed">>), Path(<<"mobile", "v1", "chat">>),
               Path(<<"mobile", "v1", "admin">>), Path(<<"mobile", "v1", "beta">>)}}
    \union {[method |-> "GET", path |-> Path(<<"health">>)], [method |-> "GET", path |-> Path(<<"metrics">>)],
            [method |-> "OPTIONS", path |-> Path(<<"users">>)],
            [method |-> "POST", path |-> Path(<<"users">>)], [method |-> "HEAD", path |-> Path(<<"ping">>)],
            [method |-> "PUT", path |-> Path(<<"mobile", "v1", "old">>)]}

Colons == {":id", ":ids"}
ColonPrefixes == [p \in Colons |-> IF p = ":ids" THEN Colons ELSE {":id"}]

\* One with fields of its own in meta, a status that is a word (0) among them.
Raises == {Conflict("code" :> "TAKEN"),
           Unprocessable("meta" :> [status |-> 0, code |-> "lost"]),
           GatewayTimeout("meta" :> ("status" :> 429)),
           Other("hono", 401, ""), Other("error", 0, "Unauthorized"), Other("value", 0, "")}
FilterMeta == [onlyHttp |-> <<on("Catch", "class", {"http"})>>, all |-> <<>>]
=============================================================================
