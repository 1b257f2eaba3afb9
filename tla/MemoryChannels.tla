--------------------------- MODULE MemoryChannels ---------------------------
(***************************************************************************)
(* InMemoryChannelAdapter (channels/memory.adapter.ts) with its SSE and    *)
(* WebSocket clients (channels/clients.ts).                                *)
(*                                                                         *)
(* `channels` maps a name to a JavaScript Set object.  A publish keeps a   *)
(* reference to the Set it found and iterates it across awaits, while      *)
(* subscribe, unsubscribe and other publishes change that Set, or replace  *)
(* it in the map: Sets are therefore objects with an identity.  An action  *)
(* is the code between two awaits.  A Set is iterated in some order; the   *)
(* iteration sees clients added meanwhile and skips those removed.         *)
(***************************************************************************)
EXTENDS FiniteSets

CONSTANTS
    Client,     \* connections, each subscribed at most once
    Channel,
    Publish,    \* calls of publish
    Corrupt,    \* those whose data JSON.stringify rejects
    SetObject,  \* Set objects that exist at one time
    Shutdown,   \* close() is called
    None

ASSUME ChannelsAssumption ==
    /\ Corrupt \subseteq Publish /\ Shutdown \in BOOLEAN
    /\ None \notin Client /\ None \notin Channel /\ None \notin SetObject

VARIABLES
    channels,  \* the map: channel -> Set, None when absent
    members,   \* contents of each Set
    topic,     \* the channel of each subscribed client
    life,      \* each client's connection and subscription
    call,      \* each publish: its channel, Set and progress
    got,       \* the clients each publish pushed its event to
    closer     \* progress of close()

vars == <<channels, members, topic, life, call, got, closer>>

\* "live": connected and subscribed; "dead": its connection is over; "left" and
\* "gone": the same two after unsubscribe was called.
Life == {"new", "live", "dead", "left", "gone"}

IsAlive(c) == life[c] \in {"live", "left"}

Ended(l) == IF l = "live" THEN "dead" ELSE IF l = "left" THEN "gone" ELSE l

\* `due` is a history: the clients registered when the operation began.
PublishCall == [at: {"idle", "sending", "done"}, channel: Channel \cup {None},
                set: SetObject \cup {None}, client: Client \cup {None},
                visited: SUBSET Client, dead: SUBSET Client, due: SUBSET Client]

CloseCall == [at: {"open", "closing", "closed"}, set: SetObject \cup {None},
              visited: SUBSET Client, finished: SUBSET SetObject, due: SUBSET Client]

Init ==
    /\ channels = [ch \in Channel |-> None]
    /\ members = [s \in SetObject |-> {}]
    /\ topic = [c \in Client |-> None]
    /\ life = [c \in Client |-> "new"]
    /\ call = [p \in Publish |->
                 [at |-> "idle", channel |-> None, set |-> None, client |-> None,
                  visited |-> {}, dead |-> {}, due |-> {}]]
    /\ got = [p \in Publish |-> {}]
    /\ closer = [at |-> "open", set |-> None, visited |-> {}, finished |-> {}, due |-> {}]

Registered(c) ==
    topic[c] # None /\ channels[topic[c]] # None /\ c \in members[channels[topic[c]]]

\* Not garbage: the map or a running operation refers to the Set.
Referenced(s) ==
    \/ \E ch \in Channel : channels[ch] = s
    \/ \E p \in Publish : call[p].set = s
    \/ s \in closer.finished \cup {closer.set}

\* One garbage Set object is as good as another.
NewSet == CHOOSE s \in SetObject : ~Referenced(s)

-----------------------------------------------------------------------------
(* subscribe, unsubscribe and the connections. *)

Subscribe(c, ch) ==
    /\ life[c] = "new"
    /\ life' = [life EXCEPT ![c] = "live"]
    /\ topic' = [topic EXCEPT ![c] = ch]
    /\ \/ /\ channels[ch] # None
          /\ members' = [members EXCEPT ![channels[ch]] = @ \cup {c}]
          /\ UNCHANGED channels
       \/ /\ channels[ch] = None
          /\ \E s \in SetObject : ~Referenced(s)
          /\ channels' = [channels EXCEPT ![ch] = NewSet]
          /\ members' = [members EXCEPT ![NewSet] = {c}]
    /\ UNCHANGED <<call, got, closer>>

\* The client closes the connection, or it is lost.
Disconnect(c) ==
    /\ IsAlive(c)
    /\ life' = [life EXCEPT ![c] = Ended(@)]
    /\ UNCHANGED <<channels, members, topic, call, got, closer>>

\* The channel's entry is removed from the map with its last member.
DropIfEmpty(ch, left) ==
    channels' = IF left = {} THEN [channels EXCEPT ![ch] = None] ELSE channels

\* Mutant: empty Sets stay in the map.
UnsubscribeKeepingEmpty(c) ==
    /\ life[c] \in {"live", "dead"}
    /\ life' = [life EXCEPT ![c] = IF @ = "live" THEN "left" ELSE "gone"]
    /\ topic' = [topic EXCEPT ![c] = None]
    /\ IF channels[topic[c]] = None
         THEN UNCHANGED members
         ELSE members' = [members EXCEPT ![channels[topic[c]]] = @ \ {c}]
    /\ UNCHANGED <<channels, call, got, closer>>

\* Called when the connection is over, or by the application.
Unsubscribe(c) ==
    /\ life[c] \in {"live", "dead"}
    /\ life' = [life EXCEPT ![c] = IF @ = "live" THEN "left" ELSE "gone"]
    /\ topic' = [topic EXCEPT ![c] = None]
    /\ IF channels[topic[c]] = None
         THEN UNCHANGED <<channels, members>>
         ELSE LET left == members[channels[topic[c]]] \ {c} IN
              /\ members' = [members EXCEPT ![channels[topic[c]]] = left]
              /\ DropIfEmpty(topic[c], left)
    /\ UNCHANGED <<call, got, closer>>

-----------------------------------------------------------------------------
(* publish. *)

\* A call that is over holds nothing but its history.
Returned(k, dead) ==
    [at |-> "done", channel |-> None, set |-> None, client |-> None,
     visited |-> {}, dead |-> dead, due |-> k.due]

\* The loop goes on from publish call k: dead clients are noted, and the event
\* is sent to the next live one, which is awaited; or the loop ends, the dead
\* are removed from the Set, and an empty Set removes its channel from the map.
Deliver(p, k) ==
    LET fresh == members[k.set] \ k.visited
        alive == {c \in fresh : IsAlive(c)}
        dead  == k.dead \cup (fresh \ alive)
    IN  \/ \E c \in alive :
             /\ call' = [call EXCEPT ![p] =
                  [k EXCEPT !.at = "sending", !.client = c, !.dead = dead,
                            !.visited = @ \cup (fresh \ alive) \cup {c}]]
             /\ got' = IF p \in Corrupt THEN got
                                        ELSE [got EXCEPT ![p] = @ \cup {c}]
             /\ UNCHANGED <<channels, members>>
        \/ /\ alive = {}
           /\ call' = [call EXCEPT ![p] = Returned(k, dead)]
           /\ members' = [members EXCEPT ![k.set] = @ \ dead]
           /\ DropIfEmpty(k.channel, members[k.set] \ dead)
           /\ UNCHANGED got

PublishStart(p, ch) ==
    /\ call[p].at = "idle"
    /\ IF channels[ch] = None
         THEN /\ call' = [call EXCEPT ![p].at = "done"]
              /\ UNCHANGED <<channels, members, got>>
         ELSE Deliver(p, [call[p] EXCEPT !.channel = ch, !.set = channels[ch],
                                         !.due = members[channels[ch]]])
    /\ UNCHANGED <<topic, life, closer>>

\* Mutant: a send that throws ends the loop.
SendFailsHard(p) ==
    /\ call[p].at = "sending"
    /\ p \in Corrupt \/ ~IsAlive(call[p].client)
    /\ call' = [call EXCEPT ![p] = Returned(call[p], call[p].dead)]
    /\ UNCHANGED <<channels, members, topic, life, got, closer>>

\* The awaited send threw: its data is not JSON, or the connection ended under
\* it.  The client is dead.
SendFails(p) ==
    /\ call[p].at = "sending"
    /\ p \in Corrupt \/ ~IsAlive(call[p].client)
    /\ Deliver(p, [call[p] EXCEPT !.dead = @ \cup {call[p].client}])
    /\ UNCHANGED <<topic, life, closer>>

\* Mutant: the iteration starts again after each send.
SendEndsRestarting(p) ==
    /\ call[p].at = "sending"
    /\ p \notin Corrupt
    /\ Deliver(p, [call[p] EXCEPT !.visited = {}])
    /\ UNCHANGED <<topic, life, closer>>

\* The awaited send resolved; a write to a closed stream may resolve too.
SendEnds(p) ==
    /\ call[p].at = "sending"
    /\ p \notin Corrupt
    /\ Deliver(p, call[p])
    /\ UNCHANGED <<topic, life, closer>>

-----------------------------------------------------------------------------
(* close. *)

\* Every client is closed in turn, Set by Set; then the map is emptied.  Errors
\* of client.close are ignored.
CloseFrom(k) ==
    LET fresh == IF k.set = None THEN {} ELSE members[k.set] \ k.visited
        after == {s \in SetObject : \E ch \in Channel : channels[ch] = s}
                   \ (k.finished \cup {k.set})
        Closes(c, s) ==
            /\ life' = [life EXCEPT ![c] = Ended(@)]
            /\ closer' = [k EXCEPT !.at = "closing", !.set = s,
                                   !.visited = @ \cup {c},
                                   !.finished = @ \cup ({k.set} \ {None, s})]
            /\ UNCHANGED channels
    IN  IF fresh # {} THEN \E c \in fresh : Closes(c, k.set)
        ELSE IF after # {} THEN \E s \in after : \E c \in members[s] : Closes(c, s)
        ELSE /\ closer' = [at |-> "closed", set |-> None, visited |-> {},
                           finished |-> {}, due |-> k.due]
             /\ channels' = [ch \in Channel |-> None]
             /\ UNCHANGED life

CloseStart ==
    /\ Shutdown /\ closer.at = "open"
    /\ CloseFrom([closer EXCEPT !.due = {c \in Client : Registered(c)}])
    /\ UNCHANGED <<members, topic, call, got>>

\* The awaited client.close settled.
CloseNext ==
    /\ closer.at = "closing"
    /\ CloseFrom(closer)
    /\ UNCHANGED <<members, topic, call, got>>

-----------------------------------------------------------------------------
Progress(p) == SendFails(p) \/ SendEnds(p)

Next ==
    \/ \E c \in Client : Disconnect(c) \/ Unsubscribe(c)
    \/ \E c \in Client, ch \in Channel : Subscribe(c, ch)
    \/ \E p \in Publish : Progress(p)
    \/ \E p \in Publish, ch \in Channel : PublishStart(p, ch)
    \/ CloseStart \/ CloseNext

Spec == Init /\ [][Next]_vars

\* A write to a transport is accepted or refused in the end.
FairSpec == Spec /\ (\A p \in Publish : WF_vars(Progress(p))) /\ WF_vars(CloseNext)

-----------------------------------------------------------------------------
(* Properties. *)

\* Types of the variables; a publish in its loop has a Set and a current client.
TypeOK ==
    /\ channels \in [Channel -> SetObject \cup {None}]
    /\ members \in [SetObject -> SUBSET Client]
    /\ topic \in [Client -> Channel \cup {None}]
    /\ life \in [Client -> Life]
    /\ call \in [Publish -> PublishCall]
    /\ \A p \in Publish :
         call[p].at = "sending" => call[p].set # None /\ call[p].client # None
    /\ got \in [Publish -> SUBSET Client]
    /\ closer \in CloseCall

\* Nothing that is over stays in the map: no empty Set of a channel whose last
\* subscriber left or died (memory.adapter.ts, `clients.size === 0`), and a client
\* only under the channel it is subscribed to, so not once unsubscribe was called.
NothingOverStays ==
    \A ch \in Channel : channels[ch] # None =>
        /\ members[channels[ch]] # {}
        /\ \A c \in members[channels[ch]] : topic[c] = ch

\* Data that is not JSON: the client is taken for dead.
TakenForDead(c) == \E p \in Corrupt : c \in call[p].dead

\* A publish that has returned pushed its event to every client registered when
\* it began that is still connected and subscribed, whatever happened to the
\* others, to the Set and to the map meanwhile; unless a publish of data that
\* cannot be serialized took that client for dead.
PublishReachesStable ==
    \A p \in Publish \ Corrupt : call[p].at = "done" =>
        \A c \in call[p].due : life[c] = "live" /\ ~TakenForDead(c) => c \in got[p]

\* A publish returns once its sends have settled, however many clients come and
\* go under its loop; so does close().
LoopsReturn ==
    /\ \A p \in Publish : (call[p].at = "sending") ~> (call[p].at = "done")
    /\ (closer.at = "closing") ~> (closer.at = "closed")

-----------------------------------------------------------------------------
(* What the documentation says and the code does not do. *)

\* "every published event is pushed to the stream/socket; on disconnect it
\* unsubscribes" (decorators/channel-route.ts): before close(), a client that is
\* connected and has not unsubscribed is registered.
LiveIsRegistered ==
    closer.at = "open" => \A c \in Client : life[c] = "live" => Registered(c)

\* "send raced a disconnect - treat as dead" (memory.adapter.ts): the clients a
\* publish removes are disconnected.
OnlyDeadRemoved ==
    \A p \in Publish : call[p].at = "done" =>
        \A c \in call[p].dead : life[c] # "live"

\* "closes every channel subscriber transport" (README.md): close() leaves no
\* connection open that was registered when it began.
CloseReachesRegistered ==
    closer.at = "closed" =>
        \A c \in closer.due : life[c] # "live"

=============================================================================
