--------------------------- MODULE RedisChannels ----------------------------
(***************************************************************************)
(* RedisChannelAdapter (channels/redis.adapter.ts) on one server process:  *)
(* one channel, its local clients, and the `sub` connection to Redis.      *)
(*                                                                         *)
(* The connection is a pair of FIFO streams: SUBSCRIBE and UNSUBSCRIBE     *)
(* commands to Redis; replies and pushed messages back.  Redis executes    *)
(* the commands in order and pushes a message only while it holds the      *)
(* subscription.  As in MemoryChannels, the local Set is an object that    *)
(* handleMessage keeps across its awaits.  close() is not modelled here.   *)
(***************************************************************************)
EXTENDS Naturals, Sequences, SequencesExt

CONSTANTS
    Client,       \* connections, each subscribed at most once
    Message,      \* messages published to the channel, by any process
    SetObject,    \* Set objects that exist at one time
    MaxFailures,  \* bound: commands that Redis or the connection rejects
    None

ASSUME RedisAssumption ==
    /\ MaxFailures \in Nat
    /\ None \notin Client /\ None \notin SetObject

VARIABLES
    local,     \* localClients.get(channel): a Set, or None
    members,   \* contents of each Set
    life,      \* each client's subscription
    open,      \* isAlive(), per client
    commands,  \* sent on the `sub` connection, not executed yet
    inbox,     \* replies and messages on their way back
    held,      \* Redis has the subscription
    handler,   \* each message: its handleMessage call
    failures

vars == <<local, members, life, open, commands, inbox, held, handler, failures>>

\* "joining": awaits sub.subscribe; "joined": subscribe() resolved; "refused":
\* it rejected; "broken": it rejected with a TypeError after Redis accepted.
\* "quitting": unsubscribe was called while joining.
Life == {"new", "joining", "joined", "refused", "broken", "quitting", "left"}

Command == [op: {"subscribe"}, client: Client] \cup [op: {"unsubscribe"}]

\* What arrives on the connection: the reply to a command, or a message.
Arrival == [kind: {"ack", "error"}, of: Command] \cup [kind: {"message"}, of: Message]

Handler == [at: {"none", "sending", "done"}, set: SetObject \cup {None},
            client: Client \cup {None}, visited: SUBSET Client, dead: SUBSET Client]

NoHandler == [at |-> "none", set |-> None, client |-> None, visited |-> {}, dead |-> {}]

Init ==
    /\ local = None
    /\ members = [s \in SetObject |-> {}]
    /\ life = [c \in Client |-> "new"]
    /\ open = [c \in Client |-> TRUE]
    /\ commands = <<>> /\ inbox = <<>>
    /\ held = FALSE
    /\ handler = [m \in Message |-> NoHandler]
    /\ failures = 0

Registered(c) == local # None /\ c \in members[local]

Free == {s \in SetObject : s # local /\ \A m \in Message : handler[m].set # s}

-----------------------------------------------------------------------------
(* subscribe and unsubscribe, up to their await. *)

\* The first subscriber creates the Set, empty, and asks Redis.
SubscribeFirst(c) ==
    /\ life[c] = "new"
    /\ local = None
    /\ Free # {}
    /\ local' = CHOOSE s \in Free : TRUE
    /\ members' = [members EXCEPT ![local'] = {}]
    /\ life' = [life EXCEPT ![c] = "joining"]
    /\ commands' = Append(commands, [op |-> "subscribe", client |-> c])
    /\ UNCHANGED <<open, inbox, held, handler, failures>>

\* Another one joins the Set at once, whether or not Redis has answered.
SubscribeNext(c) ==
    /\ life[c] = "new"
    /\ local # None
    /\ members' = [members EXCEPT ![local] = @ \cup {c}]
    /\ life' = [life EXCEPT ![c] = "joined"]
    /\ UNCHANGED <<local, open, commands, inbox, held, handler, failures>>

Disconnect(c) ==
    /\ open[c]
    /\ open' = [open EXCEPT ![c] = FALSE]
    /\ UNCHANGED <<local, members, life, commands, inbox, held, handler, failures>>

\* Mutant: the subscription at Redis outlives the last local client.
ReleaseQuietly(left) ==
    /\ local' = IF left = {} THEN None ELSE local
    /\ UNCHANGED commands

\* With its last member the channel leaves the map, and Redis is told.
Release(left) ==
    /\ local' = IF left = {} THEN None ELSE local
    /\ commands' = IF left = {} THEN Append(commands, [op |-> "unsubscribe"])
                                ELSE commands

\* Also called for a client whose subscribe() rejected.
Unsubscribe(c) ==
    /\ life[c] \in {"joining", "joined", "refused", "broken"}
    /\ life' = [life EXCEPT ![c] = IF @ = "joining" THEN "quitting" ELSE "left"]
    /\ IF local = None
         THEN UNCHANGED <<local, members, commands>>
         ELSE /\ members' = [members EXCEPT ![local] = @ \ {c}]
              /\ Release(members[local] \ {c})
    /\ UNCHANGED <<open, inbox, held, handler, failures>>

-----------------------------------------------------------------------------
(* Redis. *)

\* Redis executes the next command and replies.
Execute ==
    /\ commands # <<>>
    /\ held' = (Head(commands).op = "subscribe")
    /\ inbox' = Append(inbox, [kind |-> "ack", of |-> Head(commands)])
    /\ commands' = Tail(commands)
    /\ UNCHANGED <<local, members, life, open, handler, failures>>

\* The next command is rejected and has no effect.
RefuseCommand ==
    /\ commands # <<>>
    /\ failures < MaxFailures
    /\ failures' = failures + 1
    /\ inbox' = Append(inbox, [kind |-> "error", of |-> Head(commands)])
    /\ commands' = Tail(commands)
    /\ UNCHANGED <<local, members, life, open, held, handler>>

\* Some process publishes a message; it is pushed to us if we are subscribed.
Push(m) ==
    /\ held
    /\ handler[m] = NoHandler
    /\ \A n \in 1..Len(inbox) : inbox[n].of # m
    /\ inbox' = Append(inbox, [kind |-> "message", of |-> m])
    /\ UNCHANGED <<local, members, life, open, commands, held, handler, failures>>

-----------------------------------------------------------------------------
(* Arrivals: the end of subscribe and unsubscribe, and handleMessage. *)

\* The reply at the head of the inbox, to a command of this kind.
ArrivesFor(kind, op) ==
    /\ inbox # <<>>
    /\ Head(inbox).kind = kind /\ Head(inbox).of.op = op
    /\ inbox' = Tail(inbox)

\* `this.localClients.get(channel)!.add(client)`.
SubscribeAcked ==
    /\ ArrivesFor("ack", "subscribe")
    /\ LET c == Head(inbox).of.client IN
       /\ IF local = None
            THEN UNCHANGED members
            ELSE members' = [members EXCEPT ![local] = @ \cup {c}]
       /\ life' = [life EXCEPT ![c] = IF @ = "quitting" THEN "left"
                                      ELSE IF local = None THEN "broken" ELSE "joined"]
    /\ UNCHANGED <<local, open, commands, held, handler, failures>>

\* The rollback drops the channel's entry, whatever it holds by now.
SubscribeRefused ==
    /\ ArrivesFor("error", "subscribe")
    /\ local' = None
    /\ life' = [life EXCEPT ![Head(inbox).of.client] = IF @ = "quitting" THEN "left"
                                                                         ELSE "refused"]
    /\ UNCHANGED <<members, open, commands, held, handler, failures>>

\* unsubscribe() and handleMessage do nothing after their await.
UnsubscribeReplied ==
    /\ \E kind \in {"ack", "error"} : ArrivesFor(kind, "unsubscribe")
    /\ UNCHANGED <<local, members, life, open, commands, held, handler, failures>>

\* The loop of handleMessage goes on from h; it works as in MemoryChannels.
Deliver(m, h) ==
    LET fresh == members[h.set] \ h.visited
        alive == {c \in fresh : open[c]}
        dead  == h.dead \cup (fresh \ alive)
    IN  \/ \E c \in alive :
             /\ handler' = [handler EXCEPT ![m] =
                  [at |-> "sending", set |-> h.set, client |-> c, dead |-> dead,
                   visited |-> h.visited \cup (fresh \ alive) \cup {c}]]
             /\ UNCHANGED <<local, members, commands>>
        \/ /\ alive = {}
           /\ handler' = [handler EXCEPT ![m] = [NoHandler EXCEPT !.at = "done"]]
           /\ members' = [members EXCEPT ![h.set] = @ \ dead]
           /\ Release(members[h.set] \ dead)

\* The replies ahead of a message may be part of the same network read; then
\* the client library emits the message before their continuations run.
NextMessage ==
    {n \in 1..Len(inbox) : inbox[n].kind = "message"
                             /\ \A k \in 1..(n - 1) : inbox[k].kind # "message"}

MessageArrives ==
    \E n \in NextMessage :
      LET m == inbox[n].of IN
      /\ inbox' = RemoveAt(inbox, n)
      /\ IF local = None
           THEN /\ handler' = [handler EXCEPT ![m].at = "done"]
                /\ UNCHANGED <<local, members, commands>>
           ELSE Deliver(m, [NoHandler EXCEPT !.set = local])
      /\ UNCHANGED <<life, open, held, failures>>

\* The awaited send settled; it can throw only if the connection is over.
SendSettles(m) ==
    /\ handler[m].at = "sending"
    /\ \E thrown \in SUBSET ({handler[m].client} \ {c \in Client : open[c]}) :
         Deliver(m, [handler[m] EXCEPT !.dead = @ \cup thrown])
    /\ UNCHANGED <<life, open, inbox, held, failures>>

-----------------------------------------------------------------------------
Receive == SubscribeAcked \/ SubscribeRefused \/ UnsubscribeReplied \/ MessageArrives

Next ==
    \/ \E c \in Client : SubscribeFirst(c) \/ SubscribeNext(c)
                           \/ Disconnect(c) \/ Unsubscribe(c)
    \/ \E m \in Message : Push(m) \/ SendSettles(m)
    \/ Execute \/ RefuseCommand
    \/ Receive

Spec == Init /\ [][Next]_vars

\* Redis answers, and what it answers arrives.
FairSpec == Spec /\ WF_vars(Execute) /\ WF_vars(Receive)

-----------------------------------------------------------------------------
(* Properties. *)

\* Types of the variables; a handler in its loop has a Set and a current client.
TypeOK ==
    /\ local \in SetObject \cup {None}
    /\ members \in [SetObject -> SUBSET Client]
    /\ life \in [Client -> Life]
    /\ open \in [Client -> BOOLEAN]
    /\ commands \in Seq(Command)
    /\ inbox \in Seq(Arrival)
    /\ held \in BOOLEAN
    /\ handler \in [Message -> Handler]
    /\ \A m \in Message :
         handler[m].at = "sending" => handler[m].set # None /\ handler[m].client # None
    /\ failures \in 0..MaxFailures

\* The last command sent to Redis, executed or not, says what the local map
\* says, as long as none was rejected: a channel with local clients is
\* subscribed, and one without costs nothing, once Redis has caught up.
RedisFollowsMap ==
    failures = 0 =>
        (local # None) = IF commands = <<>> THEN held
                         ELSE commands[Len(commands)].op = "subscribe"

\* An entry that later subscribers join without asking Redis is backed by a
\* subscription, or by a SUBSCRIBE under way, or is about to be rolled back
\* ("don't poison later subscribes"), whatever commands are rejected.
NotPoisoned ==
    local # None =>
        \/ held
        \/ \E n \in 1..Len(commands) : commands[n].op = "subscribe"
        \/ \E n \in 1..Len(inbox) :
             inbox[n].kind = "error" /\ inbox[n].of.op = "subscribe"

\* subscribe() ends: no connection waits for ever to be registered.
SubscribeSettles == \A c \in Client : (life[c] = "joining") ~> (life[c] # "joining")

-----------------------------------------------------------------------------
(* What the documentation says and the code does not do. *)

\* "every published event is pushed" (decorators/channel-route.ts): a client
\* whose subscribe() resolved is registered while it is connected and has not
\* unsubscribed.
JoinedIsRegistered ==
    \A c \in Client : life[c] = "joined" /\ open[c] => Registered(c)

\* `this.localClients.get(channel)!` (redis.adapter.ts): the entry exists when
\* Redis acknowledges the subscription.
EntryExistsAtAck == \A c \in Client : life[c] # "broken"

\* "on disconnect it unsubscribes" (decorators/channel-route.ts): a client for
\* which unsubscribe was called is not registered, once its subscribe has ended.
LeftIsNotRegistered == \A c \in Client : life[c] = "left" => ~Registered(c)

=============================================================================
