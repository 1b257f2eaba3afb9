------------------------------- MODULE Errors -------------------------------
(***************************************************************************)
(* HttpException (core/http-exception.ts) and what an error becomes in the *)
(* body of a response (respondToError in core/route-builder.ts, and        *)
(* core/problem.ts).                                                       *)
(*                                                                         *)
(* An error is [kind, status, says, code, meta]: kind zod, http            *)
(* (HttpException), hono (Hono's HTTPException), error (any other Error)   *)
(* or value; meta holds those of its fields, some of status and code, that *)
(* a body may take for its own.  Options are a map with some of code, meta.*)
(***************************************************************************)
EXTENDS Naturals, TLC

STATUS_CODES ==
    400 :> "BAD_REQUEST"          @@ 401 :> "UNAUTHORIZED"           @@ 402 :> "PAYMENT_REQUIRED"
    @@ 403 :> "FORBIDDEN"         @@ 404 :> "NOT_FOUND"              @@ 405 :> "METHOD_NOT_ALLOWED"
    @@ 406 :> "NOT_ACCEPTABLE"    @@ 408 :> "REQUEST_TIMEOUT"        @@ 409 :> "CONFLICT"
    @@ 410 :> "GONE"              @@ 411 :> "LENGTH_REQUIRED"        @@ 413 :> "PAYLOAD_TOO_LARGE"
    @@ 415 :> "UNSUPPORTED_MEDIA_TYPE" @@ 422 :> "UNPROCESSABLE_ENTITY" @@ 429 :> "TOO_MANY_REQUESTS"
    @@ 500 :> "INTERNAL_SERVER_ERROR"  @@ 501 :> "NOT_IMPLEMENTED"   @@ 502 :> "BAD_GATEWAY"
    @@ 503 :> "SERVICE_UNAVAILABLE"    @@ 504 :> "GATEWAY_TIMEOUT"

Option(options, key, default) == IF key \in DOMAIN options THEN options[key] ELSE default

HttpException(status, options) ==
    [kind |-> "http", status |-> status, says |-> "", meta |-> Option(options, "meta", <<>>),
     code |-> Option(options, "code", Option(STATUS_CODES, status, "HTTP_ERROR"))]

\* The factories: the options may name another code.
BadRequest(options)      == HttpException(400, options @@ ("code" :> "BAD_REQUEST"))
Unauthorized(options)    == HttpException(401, options @@ ("code" :> "UNAUTHORIZED"))
Forbidden(options)       == HttpException(403, options @@ ("code" :> "FORBIDDEN"))
TooManyRequests(options) == HttpException(429, options @@ ("code" :> "TOO_MANY_REQUESTS"))
Conflict(options)        == HttpException(409, options @@ ("code" :> "CONFLICT"))
Unprocessable(options)   == HttpException(422, options @@ ("code" :> "UNPROCESSABLE_ENTITY"))
GatewayTimeout(options)  == HttpException(504, options @@ ("code" :> "GATEWAY_TIMEOUT"))
Unavailable(options)     == HttpException(503, options @@ ("code" :> "SERVICE_UNAVAILABLE"))

\* What is thrown that is no HttpException.
Other(kind, status, says) == [kind |-> kind, status |-> status, says |-> says, code |-> "", meta |-> <<>>]
NoError == Other("none", 0, "")
RangeError == Other("error", 0, "")
ZodError == [Other("zod", 400, "") EXCEPT !.code = "VALIDATION_ERROR"]

Envelope(e) == [status |-> e.status, code |-> e.code]

\* The members of a problem document are overridden by what meta has of the
\* same name, the one its status line is taken from too.
Problem(e) ==
    [member \in {"status", "code"} \union DOMAIN e.meta |->
        IF member \in DOMAIN e.meta THEN e.meta[member] ELSE e[member]]

\* Of the kinds that are answered here, in the application's errorFormat.
Rendered(format, e) == IF format = "problem" THEN Problem(e) ELSE Envelope(e)

\* A response has one of the statuses there are, or is not made.
Respondable(status) == status \in 200..599

=============================================================================
