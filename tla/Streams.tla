------------------------------ MODULE Streams -------------------------------
(***************************************************************************)
(* SSE and WebSocket routes with @ChannelRoute (core/route-builder.ts) on  *)
(* the Redis adapter: each connection is a client of RedisChannels, and    *)
(* this module says when the route calls subscribe and unsubscribe for it. *)
(*                                                                         *)
(* An SSE route runs in the callback of streamSSE: the keepalive interval, *)
(* onRequestStart and the handler, subscribe, a wait for the abort,        *)
(* unsubscribe, and the `finally` that clears the interval.  A WebSocket   *)
(* route runs before the upgrade and returns events: onOpen subscribes and *)
(* onClose unsubscribes, and the second may run while the first awaits.    *)
(***************************************************************************)
EXTENDS RedisChannels

CONSTANTS Sse, Ws

ASSUME StreamAssumption == Client = Sse \cup Ws /\ Sse \cap Ws = {}

VARIABLES
    stream,  \* each connection's route
    owed,    \* who awaits the reply to each UNSUBSCRIBE sent, in order;
             \* None for handleMessage
    early    \* history: the sockets whose onClose ran while onOpen awaited

streamVars == <<vars, stream, owed, early>>

\* "waiting": for subscribe and then for the end of the connection; "aborted":
\* the abort listener was called.
Stream == {"idle", "handling", "waiting", "aborted", "leaving", "ended"}

StreamInit ==
    /\ Init
    /\ stream = [c \in Client |-> "idle"] /\ owed = <<>> /\ early = {}

Becomes(c, state) == stream' = [stream EXCEPT ![c] = state]

\* Who sent the command of this step, if it sent an UNSUBSCRIBE.
Owe(who) ==
    owed' = IF commands' = Append(commands, [op |-> "unsubscribe"]) THEN Append(owed, who) ELSE owed

-----------------------------------------------------------------------------
(* The routes. *)

\* A request has passed the middleware, @ChannelAuth's included.
Open(c) ==
    /\ stream[c] = "idle"
    /\ Becomes(c, "handling")
    /\ UNCHANGED <<vars, owed, early>>

\* onRequestStart or the handler throws: the interval is cleared, or the
\* upgrade is refused.
HandlerThrows(c) ==
    /\ stream[c] = "handling"
    /\ Becomes(c, "ended")
    /\ UNCHANGED <<vars, owed, early>>

\* The handler has returned, and for a socket the upgrade is done.
Join(c) ==
    /\ stream[c] = "handling"
    /\ SubscribeFirst(c) \/ SubscribeNext(c)
    /\ Becomes(c, "waiting")
    /\ UNCHANGED <<owed, early>>

\* The connection ends.  An SSE stream's abort is heard only by a listener that
\* is there: the one set once subscribe has resolved.
Abort(c) ==
    /\ stream[c] \in (IF c \in Sse THEN {"handling", "waiting"} ELSE {"waiting"})
    /\ Disconnect(c)
    /\ IF c \in Sse /\ life[c] = "joined" THEN Becomes(c, "aborted") ELSE UNCHANGED stream
    /\ UNCHANGED <<owed, early>>

\* Mutant: the wait ends without unsubscribe.
LeaveQuietly(c) ==
    /\ IF c \in Sse THEN stream[c] = "aborted" ELSE stream[c] = "waiting" /\ ~open[c]
    /\ early' = IF life[c] = "joining" THEN early \cup {c} ELSE early
    /\ life' = [life EXCEPT ![c] = IF @ = "joining" THEN "quitting" ELSE "left"]
    /\ Becomes(c, "ended")
    /\ UNCHANGED <<local, members, open, commands, inbox, held, handler, failures, owed>>

\* The wait is over, or the socket's onClose is called, whether or not its
\* onOpen has ended: unsubscribe.  It awaits a reply if it was the last.
Leave(c) ==
    /\ IF c \in Sse THEN stream[c] = "aborted" ELSE stream[c] = "waiting" /\ ~open[c]
    /\ early' = IF life[c] = "joining" THEN early \cup {c} ELSE early
    /\ Unsubscribe(c)
    /\ Owe(c)
    /\ Becomes(c, IF owed' = owed THEN "ended" ELSE "leaving")

-----------------------------------------------------------------------------
(* What arrives from Redis. *)

\* A subscribe that rejects ends an SSE stream; a socket stays open.
SubscribeSettled ==
    /\ SubscribeAcked \/ SubscribeRefused
    /\ stream' = [c \in Client |-> IF c \in Sse /\ stream[c] = "waiting" /\ life'[c] \in {"refused", "broken"}
                                     THEN "ended" ELSE stream[c]]
    /\ UNCHANGED <<owed, early>>

\* Mutant: a rejected UNSUBSCRIBE is swallowed where it is awaited.
UnsubscribeSettledIfAcked ==
    /\ UnsubscribeReplied
    /\ owed' = Tail(owed)
    /\ IF Head(owed) = None \/ Head(inbox).kind = "error" THEN UNCHANGED stream ELSE Becomes(Head(owed), "ended")
    /\ UNCHANGED early

\* unsubscribe() resolves or rejects: either way `finally` runs.
UnsubscribeSettled ==
    /\ UnsubscribeReplied
    /\ owed' = Tail(owed)
    /\ IF Head(owed) = None THEN UNCHANGED stream ELSE Becomes(Head(owed), "ended")
    /\ UNCHANGED early

EventArrives == MessageArrives /\ Owe(None) /\ UNCHANGED <<stream, early>>

EventSent(m) == SendSettles(m) /\ Owe(None) /\ UNCHANGED <<stream, early>>

Arrive == SubscribeSettled \/ UnsubscribeSettled \/ EventArrives

RedisActs == (Execute \/ RefuseCommand \/ \E m \in Message : Push(m)) /\ UNCHANGED <<stream, owed, early>>

StreamNext ==
    \/ \E c \in Client : Open(c) \/ HandlerThrows(c) \/ Join(c) \/ Abort(c) \/ Leave(c)
    \/ \E m \in Message : EventSent(m)
    \/ Arrive \/ RedisActs

StreamSpec == StreamInit /\ [][StreamNext]_streamVars

\* Handlers return, listeners are called, Redis answers.
StreamFair ==
    /\ \A c \in Client : WF_streamVars(HandlerThrows(c) \/ Join(c)) /\ WF_streamVars(Leave(c))
    /\ WF_streamVars(Execute /\ UNCHANGED <<stream, owed, early>>) /\ WF_streamVars(Arrive)

-----------------------------------------------------------------------------
(* Properties. *)

\* When a route's work for a connection is over, however it ended and whatever
\* Redis rejected, the adapter has no client of it, unless it is a socket that
\* was closed while its subscribe was under way; and that one, being dead, is
\* dropped by the next event.
EndedIsForgotten ==
    \A c \in Client : stream[c] = "ended" /\ Registered(c) => c \in early /\ ~open[c]

\* A stream whose listener heard the abort ends: its callback returns, and with
\* it the keepalive, though other clients come and go and commands are rejected.
HeardAbortEnds == \A c \in Client : (stream[c] \in {"aborted", "leaving"}) ~> (stream[c] = "ended")

-----------------------------------------------------------------------------
(* What the documentation says and the code does not do. *)

\* "hold it open until the client disconnects" (route-builder.ts): the route of
\* an SSE client that has disconnected ends.
DisconnectEnds == \A c \in Sse : (stream[c] # "idle" /\ ~open[c]) ~> (stream[c] = "ended")

=============================================================================
