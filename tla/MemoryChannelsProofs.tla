------------------------ MODULE MemoryChannelsProofs ------------------------
(***************************************************************************)
(* The map of InMemoryChannelAdapter and the reach of its publishes, for   *)
(* any clients, channels, Set objects and overlapping calls.               *)
(***************************************************************************)
EXTENDS MemoryChannels, TLAPS

-----------------------------------------------------------------------------
(* Type correctness. *)

\* The contents of a call, whatever its phase.
LoopCall(k) == /\ k \in PublishCall
               /\ k.set \in SetObject /\ k.channel \in Channel

\* TypeOK is not inductive: a client keeps its channel from subscribe to
\* unsubscribe, and a call in its loop iterates a Set of a channel.
TypeInv ==
    /\ TypeOK
    /\ \A c \in Client : /\ life[c] = "new" => topic[c] = None
                         /\ life[c] \in {"live", "dead"} => topic[c] \in Channel
    /\ \A p \in Publish : /\ call[p].at = "sending" => LoopCall(call[p]) /\ call[p].client \in Client
                          /\ call[p].at # "sending" => call[p].set = None
                          /\ call[p].at = "idle" => call[p].dead = {} /\ call[p].visited = {}

\* A garbage Set is a Set, and none that the map or a call refers to.
LEMMA NewSetFree ==
    ASSUME NEW s \in SetObject, ~Referenced(s)
    PROVE  NewSet \in SetObject /\ ~Referenced(NewSet)
  BY DEF NewSet

\* One turn of the loop leaves the types and the other calls alone.
LEMMA DeliverType ==
    ASSUME TypeInv, NEW p \in Publish, NEW k, LoopCall(k), k.at \in {"idle", "sending"}, Deliver(p, k)
    PROVE  /\ call' \in [Publish -> PublishCall]
           /\ \A q \in Publish \ {p} : call'[q] = call[q]
           /\ \/ call'[p].at = "sending" /\ LoopCall(call'[p]) /\ call'[p].client \in Client
              \/ call'[p].at = "done" /\ call'[p].set = None
           /\ members' \in [SetObject -> SUBSET Client]
           /\ channels' \in [Channel -> SetObject \cup {None}]
           /\ got' \in [Publish -> SUBSET Client]
  <1> DEFINE fresh == members[k.set] \ k.visited
             alive == {c \in fresh : IsAlive(c)}
             dead == k.dead \cup (fresh \ alive)
  <1>1. /\ call \in [Publish -> PublishCall] /\ members \in [SetObject -> SUBSET Client]
        /\ channels \in [Channel -> SetObject \cup {None}] /\ got \in [Publish -> SUBSET Client]
    BY DEF TypeInv, TypeOK
  <1>2. fresh \in SUBSET Client /\ alive \in SUBSET fresh /\ dead \in SUBSET Client
    BY <1>1 DEF LoopCall, PublishCall
  <1>3. CASE alive = {}
    <2>1. /\ call' = [call EXCEPT ![p] = Returned(k, dead)]
          /\ members' = [members EXCEPT ![k.set] = @ \ dead]
          /\ channels' \in {channels, [channels EXCEPT ![k.channel] = None]}
          /\ got' = got
      BY <1>3 DEF Deliver, DropIfEmpty
    <2>2. Returned(k, dead) \in PublishCall /\ Returned(k, dead).at = "done" /\ Returned(k, dead).set = None
      BY <1>2 DEF Returned, LoopCall, PublishCall
    <2>3. channels' \in [Channel -> SetObject \cup {None}]
      BY <1>1, <2>1
    <2>4. members' \in [SetObject -> SUBSET Client]
      BY <1>1, <2>1
    <2>5. QED
      BY <1>1, <2>1, <2>2, <2>3, <2>4
  <1>4. ASSUME NEW c \in alive,
               call' = [call EXCEPT ![p] = [k EXCEPT !.at = "sending", !.client = c, !.dead = dead,
                                                     !.visited = @ \cup (fresh \ alive) \cup {c}]],
               got' = IF p \in Corrupt THEN got ELSE [got EXCEPT ![p] = @ \cup {c}],
               UNCHANGED <<channels, members>>
        PROVE  /\ call' \in [Publish -> PublishCall]
               /\ \A q \in Publish \ {p} : call'[q] = call[q]
               /\ call'[p].at = "sending" /\ LoopCall(call'[p]) /\ call'[p].client \in Client
               /\ got' \in [Publish -> SUBSET Client]
    <2> DEFINE now == [k EXCEPT !.at = "sending", !.client = c, !.dead = dead,
                                !.visited = @ \cup (fresh \ alive) \cup {c}]
    <2>1. now \in PublishCall /\ now.at = "sending" /\ now.set = k.set /\ now.channel = k.channel
          /\ now.client = c
      BY <1>2 DEF LoopCall, PublishCall
    <2>2. call' = [call EXCEPT ![p] = now]
      BY <1>4
    <2> HIDE DEF now, fresh, alive, dead
    <2>3. call'[p] = now /\ call' \in [Publish -> PublishCall] /\ \A q \in Publish \ {p} : call'[q] = call[q]
      BY <1>1, <2>1, <2>2
    <2>4. c \in Client
      BY <1>2, <1>4
    <2>5. got' \in [Publish -> SUBSET Client]
      BY <1>1, <1>4, <2>4
    <2>6. QED
      BY <2>1, <2>3, <2>4, <2>5 DEF LoopCall
  <1>5. QED
    BY <1>1, <1>3, <1>4 DEF Deliver

\* close() goes on: nobody but its clients notices.
LEMMA CloseType ==
    ASSUME TypeInv, NEW k \in CloseCall, CloseFrom(k)
    PROVE  /\ life' \in [Client -> Life] /\ closer' \in CloseCall
           /\ channels' \in {channels, [ch \in Channel |-> None]}
           /\ closer'.due = k.due
           /\ \A c \in Client : life'[c] \in {life[c], Ended(life[c])}
  <1> DEFINE fresh == IF k.set = None THEN {} ELSE members[k.set] \ k.visited
             after == {s \in SetObject : \E ch \in Channel : channels[ch] = s} \ (k.finished \cup {k.set})
             Closes(c, s) ==
                 /\ life' = [life EXCEPT ![c] = Ended(@)]
                 /\ closer' = [k EXCEPT !.at = "closing", !.set = s, !.visited = @ \cup {c},
                                        !.finished = @ \cup ({k.set} \ {None, s})]
                 /\ UNCHANGED channels
  <1>1. life \in [Client -> Life] /\ members \in [SetObject -> SUBSET Client]
    BY DEF TypeInv, TypeOK
  <1>2. ASSUME NEW c \in Client, NEW s \in SetObject, Closes(c, s)
        PROVE  /\ life' \in [Client -> Life] /\ closer' \in CloseCall /\ channels' = channels
               /\ closer'.due = k.due
               /\ \A d \in Client : life'[d] \in {life[d], Ended(life[d])}
    BY <1>1, <1>2 DEF Ended, Life, CloseCall
  <1>3. CASE fresh # {}
    <2>1. k.set \in SetObject
      BY <1>3 DEF CloseCall
    <2>2. \E c \in fresh : Closes(c, k.set)
      BY <1>3 DEF CloseFrom
    <2>3. QED
      BY <1>1, <1>2, <2>1, <2>2
  <1>4. CASE fresh = {} /\ after # {}
    <2>1. \E s \in after : \E c \in members[s] : Closes(c, s)
      BY <1>4 DEF CloseFrom
    <2>2. QED
      BY <1>1, <1>2, <2>1
  <1>5. CASE fresh = {} /\ after = {}
    <2>1. /\ closer' = [at |-> "closed", set |-> None, visited |-> {}, finished |-> {}, due |-> k.due]
          /\ channels' = [ch \in Channel |-> None] /\ UNCHANGED life
      BY <1>5 DEF CloseFrom
    <2>2. QED
      BY <1>1, <2>1 DEF CloseCall
  <1>6. QED
    BY <1>3, <1>4, <1>5

\* Initially there are no clients, Sets or calls.
LEMMA TypeInit == Init => TypeInv
  <1> SUFFICES ASSUME Init PROVE TypeInv
    OBVIOUS
  <1>1. \A p \in Publish : call[p] \in PublishCall
    BY DEF Init, PublishCall
  <1>2. call \in [Publish -> PublishCall]
    BY <1>1 DEF Init
  <1>3. closer \in CloseCall
    BY DEF Init, CloseCall
  <1>4. QED
    BY <1>2, <1>3 DEF Init, TypeInv, TypeOK, Life

\* The calls and their events, when one of them is at its loop.
LEMMA LoopType ==
    ASSUME TypeInv, NEW p \in Publish, NEW k, LoopCall(k), k.at \in {"idle", "sending"}, Deliver(p, k),
           UNCHANGED <<topic, life, closer>>
    PROVE  TypeInv'
  <1>1. /\ call' \in [Publish -> PublishCall]
        /\ \A q \in Publish \ {p} : call'[q] = call[q]
        /\ \/ call'[p].at = "sending" /\ LoopCall(call'[p]) /\ call'[p].client \in Client
           \/ call'[p].at = "done" /\ call'[p].set = None
        /\ members' \in [SetObject -> SUBSET Client]
        /\ channels' \in [Channel -> SetObject \cup {None}]
        /\ got' \in [Publish -> SUBSET Client]
    BY DeliverType
  <1>2. \A q \in Publish : /\ call'[q].at = "sending" => LoopCall(call'[q]) /\ call'[q].client \in Client
                           /\ call'[q].at # "sending" => call'[q].set = None
                           /\ call'[q].at = "idle" => call'[q].dead = {} /\ call'[q].visited = {}
    BY <1>1 DEF TypeInv
  <1>3. \A q \in Publish : call'[q].at = "sending" => call'[q].set # None /\ call'[q].client # None
    BY <1>2, ChannelsAssumption DEF LoopCall
  <1>4. topic' \in [Client -> Channel \cup {None}] /\ life' \in [Client -> Life] /\ closer' \in CloseCall
    BY DEF TypeInv, TypeOK
  <1>5. TypeOK'
    BY <1>1, <1>3, <1>4 DEF TypeOK
  <1>6. QED
    BY <1>2, <1>5 DEF TypeInv, LoopCall

\* The first Set a publish iterates is one of the map.
LEMMA StartCall ==
    ASSUME TypeInv, NEW p \in Publish, NEW ch \in Channel, call[p].at = "idle", channels[ch] # None
    PROVE  LET k == [call[p] EXCEPT !.channel = ch, !.set = channels[ch], !.due = members[channels[ch]]]
           IN  LoopCall(k) /\ k.at = "idle" /\ k.due = members[k.set] /\ k.dead = {} /\ k.visited = {}
  <1>1. call[p] \in PublishCall /\ channels[ch] \in SetObject /\ members[channels[ch]] \in SUBSET Client
    BY DEF TypeInv, TypeOK
  <1>2. call[p].dead = {} /\ call[p].visited = {}
    BY DEF TypeInv
  <1>3. QED
    BY <1>1, <1>2 DEF LoopCall, PublishCall

\* A call that goes on after a send.
LEMMA NextCall ==
    ASSUME TypeInv, NEW p \in Publish, call[p].at = "sending"
    PROVE  /\ LoopCall(call[p]) /\ call[p].client \in Client
           /\ LET k == [call[p] EXCEPT !.dead = @ \cup {call[p].client}]
              IN  LoopCall(k) /\ k.at = "sending" /\ k.set = call[p].set /\ k.channel = call[p].channel
                  /\ k.due = call[p].due /\ k.visited = call[p].visited
                  /\ k.dead = call[p].dead \cup {call[p].client}
  BY DEF TypeInv, TypeOK, LoopCall, PublishCall

\* Every step keeps the types.
LEMMA TypeStep == TypeInv /\ [Next]_vars => TypeInv'
  <1> SUFFICES ASSUME TypeInv, [Next]_vars PROVE TypeInv'
    OBVIOUS
  <1> USE DEF TypeInv
  <1>1. ASSUME NEW c \in Client, NEW ch \in Channel, Subscribe(c, ch) PROVE TypeInv'
    <2>1. members' \in [SetObject -> SUBSET Client] /\ channels' \in [Channel -> SetObject \cup {None}]
      BY <1>1, NewSetFree DEF Subscribe, TypeOK
    <2>2. life' \in [Client -> Life] /\ topic' \in [Client -> Channel \cup {None}]
      BY <1>1 DEF Subscribe, TypeOK, Life
    <2>3. QED
      BY <1>1, <2>1, <2>2 DEF Subscribe, TypeOK, LoopCall
  <1>2. ASSUME NEW c \in Client, Disconnect(c) PROVE TypeInv'
    BY <1>2 DEF Disconnect, Ended, Life, TypeOK, LoopCall
  <1>3. ASSUME NEW c \in Client, Unsubscribe(c) PROVE TypeInv'
    <2>1. life' \in [Client -> Life] /\ topic' \in [Client -> Channel \cup {None}]
      BY <1>3 DEF Unsubscribe, TypeOK, Life
    <2>2. members' \in [SetObject -> SUBSET Client] /\ channels' \in [Channel -> SetObject \cup {None}]
      <3>1. CASE UNCHANGED <<channels, members>>
        BY <3>1 DEF TypeOK
      <3>2. CASE ~UNCHANGED <<channels, members>>
        <4>1. /\ members' = [members EXCEPT ![channels[topic[c]]] = @ \ {c}]
              /\ channels' \in {channels, [channels EXCEPT ![topic[c]] = None]}
          BY <1>3, <3>2 DEF Unsubscribe, DropIfEmpty
        <4>2. QED
          BY <4>1 DEF TypeOK
      <3>3. QED
        BY <3>1, <3>2
    <2>3. QED
      BY <1>3, <2>1, <2>2 DEF Unsubscribe, TypeOK, LoopCall
  <1>4. ASSUME NEW p \in Publish, NEW ch \in Channel, PublishStart(p, ch) PROVE TypeInv'
    <2>1. CASE channels[ch] = None
      <3>1. call' = [call EXCEPT ![p].at = "done"] /\ UNCHANGED <<channels, members, topic, life, got, closer>>
        BY <1>4, <2>1 DEF PublishStart
      <3>2. call[p] \in PublishCall /\ call[p].at = "idle" /\ call[p].set = None
        BY <1>4 DEF PublishStart, TypeOK
      <3>3. call'[p] \in PublishCall /\ call'[p].at = "done" /\ call'[p].set = None
        BY <3>1, <3>2 DEF TypeOK, PublishCall
      <3>4. call' \in [Publish -> PublishCall] /\ \A q \in Publish \ {p} : call'[q] = call[q]
        BY <3>1, <3>3 DEF TypeOK
      <3>5. QED
        BY <3>1, <3>3, <3>4 DEF TypeOK, LoopCall
    <2>2. CASE channels[ch] # None
      BY <1>4, <2>2, StartCall, LoopType DEF PublishStart
    <2>3. QED
      BY <2>1, <2>2
  <1>5. ASSUME NEW p \in Publish, SendFails(p) PROVE TypeInv'
    BY <1>5, NextCall, LoopType DEF SendFails
  <1>6. ASSUME NEW p \in Publish, SendEnds(p) PROVE TypeInv'
    BY <1>6, NextCall, LoopType DEF SendEnds
  <1>7. CASE CloseStart \/ CloseNext
    <2>1. \E k \in CloseCall : CloseFrom(k)
      BY <1>7 DEF CloseStart, CloseNext, TypeOK, CloseCall, Registered
    <2>2. life' \in [Client -> Life] /\ closer' \in CloseCall /\ channels' \in [Channel -> SetObject \cup {None}]
      BY <2>1, CloseType DEF TypeOK
    <2>3. UNCHANGED <<members, topic, call, got>>
      BY <1>7 DEF CloseStart, CloseNext
    <2>4. \A c \in Client : /\ life'[c] = "new" => topic'[c] = None
                            /\ life'[c] \in {"live", "dead"} => topic'[c] \in Channel
      BY <2>1, <2>3, CloseType DEF Ended
    <2>5. QED
      BY <2>2, <2>3, <2>4 DEF TypeOK, LoopCall
  <1>8. CASE UNCHANGED vars
    BY <1>8 DEF vars, TypeOK, LoopCall
  <1>9. QED
    BY <1>1, <1>2, <1>3, <1>4, <1>5, <1>6, <1>7, <1>8 DEF Next, Progress

\* The map, the Sets and the calls have their types in every reachable state.
THEOREM TypeCorrect == Spec => []TypeOK
  <1>1. TypeInv => TypeOK
    BY DEF TypeInv
  <1>2. QED
    BY <1>1, TypeInit, TypeStep, PTL DEF Spec

-----------------------------------------------------------------------------
(* The map. *)

\* Each Set is the Set of one channel, and a publish holds a Set that is the one
\* of its own channel or of none: the map may give that channel another Set, but
\* never the held one to another channel.
MapInv ==
    /\ NothingOverStays
    /\ \A c1, c2 \in Channel : channels[c1] # None /\ channels[c1] = channels[c2] => c1 = c2
    /\ \A p \in Publish, ch \in Channel :
         call[p].set # None /\ channels[ch] = call[p].set => ch = call[p].channel

\* A publish goes on: what it leaves in the map is not over.
LEMMA LoopMap ==
    ASSUME TypeInv, MapInv, NEW p \in Publish, NEW k, LoopCall(k), k.at \in {"idle", "sending"},
           \A ch \in Channel : channels[ch] = k.set => ch = k.channel,
           Deliver(p, k), UNCHANGED <<topic, life>>
    PROVE  MapInv'
  <1> DEFINE fresh == members[k.set] \ k.visited
             alive == {c \in fresh : IsAlive(c)}
             dead == k.dead \cup (fresh \ alive)
  <1>1. /\ call \in [Publish -> PublishCall] /\ members \in [SetObject -> SUBSET Client]
        /\ channels \in [Channel -> SetObject \cup {None}]
        /\ k.set \in SetObject /\ k.channel \in Channel /\ k.set # None
    BY ChannelsAssumption DEF TypeInv, TypeOK, LoopCall
  <1>2. \A q \in Publish \ {p} : call'[q] = call[q]
    BY DeliverType
  <1>3. CASE alive = {}
    <2>1. /\ call' = [call EXCEPT ![p] = Returned(k, dead)]
          /\ members' = [members EXCEPT ![k.set] = @ \ dead]
          /\ channels' = IF members[k.set] \ dead = {} THEN [channels EXCEPT ![k.channel] = None] ELSE channels
      BY <1>3 DEF Deliver, DropIfEmpty
    <2> HIDE DEF fresh, alive, dead
    <2>2. call'[p].set = None
      BY <1>1, <2>1 DEF Returned
    <2>3. \A ch \in Channel : channels'[ch] # None => channels'[ch] = channels[ch]
      BY <1>1, <2>1
    <2>4. ASSUME NEW ch \in Channel, channels'[ch] # None
          PROVE  members'[channels'[ch]] # {} /\ members'[channels'[ch]] \subseteq members[channels[ch]]
      <3>1. channels[ch] \in SetObject /\ channels'[ch] = channels[ch]
        BY <1>1, <2>3, <2>4
      <3>2. CASE channels[ch] = k.set
        <4>1. ch = k.channel
          BY <3>2
        <4>2. members[k.set] \ dead # {}
          BY <1>1, <2>1, <2>4, <4>1
        <4>3. QED
          BY <1>1, <2>1, <3>1, <3>2, <4>2
      <3>3. CASE channels[ch] # k.set
        <4>1. members'[channels'[ch]] = members[channels[ch]]
          BY <1>1, <2>1, <3>1, <3>3
        <4>2. QED
          BY <2>3, <2>4, <4>1 DEF MapInv, NothingOverStays
      <3>4. QED
        BY <3>2, <3>3
    <2>5. NothingOverStays'
      BY <2>3, <2>4 DEF NothingOverStays, MapInv
    <2>6. QED
      BY <1>2, <2>2, <2>3, <2>5 DEF MapInv
  <1>4. CASE alive # {}
    <2>1. UNCHANGED <<channels, members>>
      BY <1>4 DEF Deliver
    <2>2. call'[p].set = k.set /\ call'[p].channel = k.channel
      <3>1. PICK c \in alive :
              call' = [call EXCEPT ![p] = [k EXCEPT !.at = "sending", !.client = c, !.dead = dead,
                                                    !.visited = @ \cup (fresh \ alive) \cup {c}]]
        BY <1>4 DEF Deliver
      <3>2. QED
        BY <1>1, <3>1 DEF LoopCall, PublishCall
    <2>3. QED
      BY <1>2, <2>1, <2>2 DEF MapInv, NothingOverStays
  <1>5. QED
    BY <1>3, <1>4

\* Every step keeps over what is over out of the map.
LEMMA MapStep == TypeInv /\ MapInv /\ [Next]_vars => MapInv'
  <1> SUFFICES ASSUME TypeInv, MapInv, [Next]_vars PROVE MapInv'
    OBVIOUS
  <1> /\ members \in [SetObject -> SUBSET Client] /\ channels \in [Channel -> SetObject \cup {None}]
      /\ topic \in [Client -> Channel \cup {None}] /\ life \in [Client -> Life]
    BY DEF TypeInv, TypeOK
  <1>1. ASSUME NEW c \in Client, NEW ch \in Channel, Subscribe(c, ch) PROVE MapInv'
    <2>1. topic[c] = None /\ topic' = [topic EXCEPT ![c] = ch] /\ call' = call
      BY <1>1 DEF Subscribe, TypeInv
    <2>2. CASE channels[ch] # None
      <3>1. channels' = channels /\ members' = [members EXCEPT ![channels[ch]] = @ \cup {c}]
        BY <1>1, <2>2 DEF Subscribe
      <3>2. ASSUME NEW d \in Channel, channels[d] # None
            PROVE  members'[channels[d]] # {} /\ \A b \in members'[channels[d]] : topic'[b] = d
        <4>1. members[channels[d]] # {} /\ \A b \in members[channels[d]] : topic[b] = d /\ b # c
          BY <3>2, <2>1, ChannelsAssumption DEF MapInv, NothingOverStays
        <4>2. channels[d] \in SetObject /\ channels[ch] \in SetObject
          BY <2>2, <3>2
        <4>3. CASE d = ch
          BY <2>1, <3>1, <4>1, <4>2, <4>3
        <4>4. CASE d # ch
          <5>1. channels[d] # channels[ch]
            BY <2>2, <3>2, <4>4 DEF MapInv
          <5>2. members'[channels[d]] = members[channels[d]]
            BY <3>1, <4>2, <5>1
          <5>3. QED
            BY <2>1, <4>1, <4>2, <5>2
        <4>5. QED
          BY <4>3, <4>4
      <3>3. QED
        BY <2>1, <3>1, <3>2 DEF MapInv, NothingOverStays
    <2>3. CASE channels[ch] = None
      <3> DEFINE s == NewSet
      <3>1. /\ channels' = [channels EXCEPT ![ch] = s] /\ members' = [members EXCEPT ![s] = {c}]
            /\ s \in SetObject /\ ~Referenced(s)
        BY <1>1, <2>3, NewSetFree, ChannelsAssumption DEF Subscribe
      <3> HIDE DEF s
      <3>2. /\ channels'[ch] = s /\ \A d \in Channel : d # ch => channels'[d] = channels[d] /\ channels[d] # s
            /\ \A p \in Publish : call[p].set # s
        BY <3>1 DEF Referenced
      <3>3. ASSUME NEW d \in Channel, channels'[d] # None
            PROVE  members'[channels'[d]] # {} /\ \A b \in members'[channels'[d]] : topic'[b] = d
        <4>1. CASE d = ch
          BY <2>1, <3>1, <3>2, <4>1
        <4>2. CASE d # ch
          <5>1. channels'[d] = channels[d] /\ channels[d] # s /\ channels[d] \in SetObject
            BY <3>2, <3>3, <4>2
          <5>2. members'[channels'[d]] = members[channels[d]]
            BY <3>1, <5>1
          <5>3. members[channels[d]] # {} /\ \A b \in members[channels[d]] : topic[b] = d /\ b # c
            BY <3>3, <5>1, <2>1, ChannelsAssumption DEF MapInv, NothingOverStays
          <5>4. QED
            BY <2>1, <5>1, <5>2, <5>3
        <4>3. QED
          BY <4>1, <4>2
      <3>4. NothingOverStays'
        BY <3>3 DEF NothingOverStays
      <3>5. QED
        BY <2>1, <3>2, <3>4 DEF MapInv
    <2>4. QED
      BY <2>2, <2>3
  <1>2. ASSUME NEW c \in Client, Unsubscribe(c) PROVE MapInv'
    <2> DEFINE ch == topic[c]
    <2>1. ch \in Channel /\ topic' = [topic EXCEPT ![c] = None] /\ call' = call
      BY <1>2 DEF Unsubscribe, TypeInv
    <2>2. \A d \in Channel : channels[d] # None /\ d # ch => c \notin members[channels[d]]
      BY DEF MapInv, NothingOverStays
    <2>3. CASE channels[ch] = None
      <3>1. UNCHANGED <<channels, members>>
        BY <1>2, <2>3 DEF Unsubscribe
      <3>2. \A d \in Channel : channels[d] # None => c \notin members[channels[d]]
        BY <2>2, <2>3
      <3>3. QED
        BY <2>1, <3>1, <3>2 DEF MapInv, NothingOverStays
    <2>4. CASE channels[ch] # None
      <3> DEFINE left == members[channels[ch]] \ {c}
      <3>1. /\ members' = [members EXCEPT ![channels[ch]] = left]
            /\ channels' = IF left = {} THEN [channels EXCEPT ![ch] = None] ELSE channels
        BY <1>2, <2>4 DEF Unsubscribe, DropIfEmpty
      <3>2. channels[ch] \in SetObject /\ \A d \in Channel : d # ch => channels[d] # channels[ch]
        BY <2>1, <2>4 DEF MapInv
      <3>3. \A d \in Channel : channels'[d] # None => channels'[d] = channels[d]
        BY <3>1
      <3>4. ASSUME NEW d \in Channel, channels'[d] # None
            PROVE  members'[channels'[d]] # {} /\ \A b \in members'[channels'[d]] : topic'[b] = d
        <4>1. channels'[d] = channels[d] /\ channels[d] \in SetObject
          BY <3>3, <3>4
        <4>2. members[channels[d]] # {} /\ \A b \in members[channels[d]] : topic[b] = d
          BY <3>4, <4>1 DEF MapInv, NothingOverStays
        <4>3. CASE d = ch
          <5>1. left # {} /\ members'[channels'[d]] = left
            BY <2>1, <3>1, <3>2, <3>4, <4>1, <4>3
          <5>2. QED
            BY <2>1, <4>2, <4>3, <5>1
        <4>4. CASE d # ch
          <5>1. members'[channels'[d]] = members[channels[d]]
            BY <3>1, <3>2, <4>1, <4>4
          <5>2. c \notin members[channels[d]]
            BY <2>2, <3>4, <4>1, <4>4
          <5>3. QED
            BY <2>1, <4>1, <4>2, <5>1, <5>2
        <4>5. QED
          BY <4>3, <4>4
      <3>5. NothingOverStays'
        BY <3>4 DEF NothingOverStays
      <3>6. QED
        BY <2>1, <3>3, <3>5 DEF MapInv
    <2>5. QED
      BY <2>3, <2>4
  <1>3. ASSUME NEW p \in Publish, NEW ch \in Channel, PublishStart(p, ch) PROVE MapInv'
    <2>1. CASE channels[ch] = None
      <3>1. call' = [call EXCEPT ![p].at = "done"] /\ UNCHANGED <<channels, members, topic>>
        BY <1>3, <2>1 DEF PublishStart
      <3>2. \A q \in Publish : call'[q].set = call[q].set /\ call'[q].channel = call[q].channel
        BY <3>1 DEF TypeInv, TypeOK, PublishCall
      <3>3. QED
        BY <3>1, <3>2 DEF MapInv, NothingOverStays
    <2>2. CASE channels[ch] # None
      <3> DEFINE k == [call[p] EXCEPT !.channel = ch, !.set = channels[ch], !.due = members[channels[ch]]]
      <3>1. LoopCall(k) /\ k.at = "idle" /\ Deliver(p, k) /\ UNCHANGED <<topic, life>>
        BY <1>3, <2>2, StartCall DEF PublishStart
      <3>2. k.set = channels[ch] /\ k.channel = ch
        BY DEF TypeInv, TypeOK, PublishCall
      <3> HIDE DEF k
      <3>3. \A d \in Channel : channels[d] = k.set => d = k.channel
        BY <2>2, <3>2 DEF MapInv
      <3>4. QED
        BY <3>1, <3>3, LoopMap
    <2>3. QED
      BY <2>1, <2>2
  <1>4. ASSUME NEW p \in Publish, SendFails(p) \/ SendEnds(p) PROVE MapInv'
    <2>1. PICK k : /\ LoopCall(k) /\ k.at = "sending" /\ k.set = call[p].set /\ k.channel = call[p].channel
                   /\ Deliver(p, k)
      BY <1>4, NextCall DEF SendFails, SendEnds
    <2>2. \A d \in Channel : channels[d] = k.set => d = k.channel
      BY <2>1, ChannelsAssumption DEF MapInv, LoopCall
    <2>3. QED
      BY <1>4, <2>1, <2>2, LoopMap DEF SendFails, SendEnds
  <1>5. CASE CloseStart \/ CloseNext
    <2>1. \E k \in CloseCall : CloseFrom(k)
      BY <1>5 DEF CloseStart, CloseNext, TypeInv, TypeOK, CloseCall, Registered
    <2>2. channels' \in {channels, [ch \in Channel |-> None]} /\ UNCHANGED <<members, topic, call>>
      BY <1>5, <2>1, CloseType DEF CloseStart, CloseNext
    <2>3. QED
      BY <2>2, ChannelsAssumption DEF MapInv, NothingOverStays, TypeInv, TypeOK
  <1>6. ASSUME NEW c \in Client, Disconnect(c) PROVE MapInv'
    BY <1>6 DEF Disconnect, MapInv, NothingOverStays
  <1>7. CASE UNCHANGED vars
    BY <1>7 DEF vars, MapInv, NothingOverStays
  <1>8. QED
    BY <1>1, <1>2, <1>3, <1>4, <1>5, <1>6, <1>7 DEF Next, Progress

\* The map never keeps an empty Set, nor a client that unsubscribed, whatever
\* the publishes that hold Sets the map has dropped or replaced.
THEOREM MapForgets == Spec => []NothingOverStays
  <1>1. Init => MapInv
    BY DEF Init, MapInv, NothingOverStays
  <1>2. MapInv => NothingOverStays
    BY DEF MapInv
  <1>3. QED
    BY <1>1, <1>2, TypeInit, TypeStep, MapStep, PTL DEF Spec

-----------------------------------------------------------------------------
(* The reach of a publish. *)

\* A client that is due and alive has the event, or the loop will come to it:
\* it is still in the Set the publish holds, and not yet visited.
ReachInv ==
    \A p \in Publish \ Corrupt, c \in Client :
        c \in call[p].due /\ life[c] = "live" /\ ~TakenForDead(c) =>
            /\ call[p].at = "sending" =>
                 c \in got[p] \/ c \in members[call[p].set] \ call[p].visited
            /\ call[p].at = "done" => c \in got[p]

\* Nobody is in a Set before it subscribed; a publish takes for dead only those
\* that are, unless its data is not JSON.
DeadInv ==
    /\ \A s \in SetObject : \A c \in members[s] : life[c] # "new"
    /\ \A p \in Publish : call[p].at = "sending" => life[call[p].client] # "new"
    /\ \A p \in Publish \ Corrupt : \A c \in call[p].dead : life[c] \in {"dead", "gone"}
    /\ \A p \in Publish : /\ call[p].at = "idle" => call[p].due = {}
                          /\ \A c \in call[p].due : life[c] # "new"

\* A connection that is over stays so, and one that has not begun was not before.
LEMMA LifeMoves ==
    ASSUME TypeInv, [Next]_vars, NEW c \in Client
    PROVE  /\ life[c] \in {"dead", "gone"} => life'[c] \in {"dead", "gone"}
           /\ life'[c] = "new" => life[c] = "new"
           /\ life'[c] = "live" => life[c] \in {"new", "live"}
  <1> life \in [Client -> Life]
    BY DEF TypeInv, TypeOK
  <1>1. ASSUME NEW d \in Client, NEW ch \in Channel, Subscribe(d, ch)
        PROVE  life' = [life EXCEPT ![d] = "live"] /\ life[d] = "new"
    BY <1>1 DEF Subscribe
  <1>2. ASSUME NEW d \in Client, Disconnect(d)
        PROVE  life' = [life EXCEPT ![d] = Ended(@)]
    BY <1>2 DEF Disconnect
  <1>3. ASSUME NEW d \in Client, Unsubscribe(d)
        PROVE  /\ life[d] \in {"live", "dead"}
               /\ life' = [life EXCEPT ![d] = IF @ = "live" THEN "left" ELSE "gone"]
    BY <1>3 DEF Unsubscribe
  <1>4. CASE CloseStart \/ CloseNext
    <2>1. \E k \in CloseCall : CloseFrom(k)
      BY <1>4 DEF CloseStart, CloseNext, TypeInv, TypeOK, CloseCall, Registered
    <2>2. life'[c] \in {life[c], Ended(life[c])}
      BY <2>1, CloseType
    <2>3. QED
      BY <2>2 DEF Ended
  <1>5. ASSUME NEW p \in Publish, Progress(p) \/ \E ch \in Channel : PublishStart(p, ch)
        PROVE  life' = life
    BY <1>5 DEF Progress, SendFails, SendEnds, PublishStart
  <1>6. QED
    BY <1>1, <1>2, <1>3, <1>4, <1>5 DEF Next, Ended, vars

\* A step of close() or of a client changes no call.
LEMMA OthersMove ==
    ASSUME TypeInv, [Next]_vars,
           ~\E p \in Publish : Progress(p) \/ \E ch \in Channel : PublishStart(p, ch)
    PROVE  /\ UNCHANGED <<call, got>>
           /\ \A s \in SetObject, c \in Client :
                /\ c \in members'[s] => c \in members[s] \/ life'[c] # "new"
                /\ c \in members[s] /\ life'[c] = "live" /\ Referenced(s) => c \in members'[s]
  <1> /\ life \in [Client -> Life] /\ members \in [SetObject -> SUBSET Client]
      /\ channels \in [Channel -> SetObject \cup {None}]
    BY DEF TypeInv, TypeOK
  <1>1. ASSUME NEW d \in Client, NEW ch \in Channel, Subscribe(d, ch)
        PROVE  /\ UNCHANGED <<call, got>>
               /\ \A s \in SetObject, c \in Client :
                    /\ c \in members'[s] => c \in members[s] \/ life'[c] # "new"
                    /\ c \in members[s] /\ life'[c] = "live" /\ Referenced(s) => c \in members'[s]
    <2>1. UNCHANGED <<call, got>> /\ life'[d] = "live"
      BY <1>1 DEF Subscribe
    <2>2. CASE channels[ch] # None
      BY <1>1, <2>1, <2>2 DEF Subscribe
    <2>3. CASE channels[ch] = None
      <3>1. members' = [members EXCEPT ![NewSet] = {d}] /\ ~Referenced(NewSet)
        BY <1>1, <2>3, NewSetFree DEF Subscribe
      <3>2. QED
        BY <2>1, <3>1
    <2>4. QED
      BY <2>2, <2>3
  <1>2. ASSUME NEW d \in Client, Unsubscribe(d)
        PROVE  /\ UNCHANGED <<call, got>>
               /\ \A s \in SetObject, c \in Client :
                    /\ c \in members'[s] => c \in members[s]
                    /\ c \in members[s] /\ life'[c] = "live" => c \in members'[s]
    <2>1. UNCHANGED <<call, got>> /\ life'[d] # "live"
      BY <1>2 DEF Unsubscribe
    <2>2. members' = members \/ members' = [members EXCEPT ![channels[topic[d]]] = @ \ {d}]
      BY <1>2 DEF Unsubscribe
    <2>3. QED
      BY <2>1, <2>2
  <1>3. ASSUME \/ CloseStart \/ CloseNext \/ UNCHANGED vars
               \/ \E d \in Client : Disconnect(d)
        PROVE  UNCHANGED <<call, got, members>>
    BY <1>3 DEF CloseStart, CloseNext, vars, Disconnect
  <1>4. QED
    BY <1>1, <1>2, <1>3 DEF Next

\* What one turn of a publish's loop does to its call, and what it removes.
LEMMA DeliverReach ==
    ASSUME TypeInv, DeadInv, NEW p \in Publish, NEW k, LoopCall(k), k.at \in {"idle", "sending"},
           \A c \in k.dead : p \in Corrupt \/ life[c] \in {"dead", "gone"},
           Deliver(p, k)
    PROVE  /\ call'[p].due = k.due
           /\ \A c \in call'[p].dead : p \in Corrupt \/ life[c] \in {"dead", "gone"}
           /\ \A c \in Client : c \in got[p] => c \in got'[p]
           /\ \A q \in Publish : q # p => got'[q] = got[q]
           /\ call'[p].at = "sending" => /\ life[call'[p].client] # "new" /\ members' = members
                                         /\ call'[p].set = k.set /\ k.dead \subseteq call'[p].dead
           /\ call'[p].at = "done" =>
                /\ k.dead \subseteq call'[p].dead
                /\ \A c \in members[k.set] \ k.visited : ~IsAlive(c)
                /\ \A s \in SetObject : members[s] \ call'[p].dead \subseteq members'[s] /\ members'[s] \subseteq members[s]
           /\ call'[p].at = "sending" /\ p \notin Corrupt =>
                \A c \in Client : c \in members[k.set] \ k.visited /\ IsAlive(c) =>
                    c \in got'[p] \/ c \in members[k.set] \ call'[p].visited
  <1> DEFINE fresh == members[k.set] \ k.visited
             alive == {c \in fresh : IsAlive(c)}
             dead == k.dead \cup (fresh \ alive)
  <1>1. /\ call \in [Publish -> PublishCall] /\ members \in [SetObject -> SUBSET Client]
        /\ got \in [Publish -> SUBSET Client] /\ life \in [Client -> Life]
        /\ k \in PublishCall /\ k.set \in SetObject
    BY DEF TypeInv, TypeOK, LoopCall
  <1>2. \A c \in fresh : c \in Client /\ life[c] # "new"
    BY <1>1 DEF DeadInv
  <1>3. \A c \in dead : p \in Corrupt \/ life[c] \in {"dead", "gone"}
    BY <1>1, <1>2 DEF IsAlive, Life
  <1>4. CASE alive = {}
    <2>1. /\ call' = [call EXCEPT ![p] = Returned(k, dead)]
          /\ members' = [members EXCEPT ![k.set] = @ \ dead] /\ got' = got
      BY <1>4 DEF Deliver
    <2>2. \A c \in fresh : ~IsAlive(c)
      BY <1>4
    <2>3. k.dead \subseteq dead
      OBVIOUS
    <2>4. fresh = members[k.set] \ k.visited
      OBVIOUS
    <2> HIDE DEF fresh, alive, dead
    <2>5. call'[p] = [at |-> "done", channel |-> None, set |-> None, client |-> None,
                      visited |-> {}, dead |-> dead, due |-> k.due]
      BY <1>1, <2>1 DEF Returned
    <2>6. QED
      BY <1>1, <1>3, <2>1, <2>2, <2>3, <2>4, <2>5
  <1>5. CASE alive # {}
    <2>1. PICK c \in alive :
            /\ call' = [call EXCEPT ![p] = [k EXCEPT !.at = "sending", !.client = c, !.dead = dead,
                                                     !.visited = @ \cup (fresh \ alive) \cup {c}]]
            /\ got' = IF p \in Corrupt THEN got ELSE [got EXCEPT ![p] = @ \cup {c}]
            /\ members' = members
      BY <1>5 DEF Deliver
    <2>2. c \in fresh /\ life[c] # "new" /\ c \in Client
      BY <1>2, <2>1
    <2>3. \A b \in fresh : IsAlive(b) => b \notin fresh \ alive
      OBVIOUS
    <2>4. k.dead \subseteq dead /\ fresh = members[k.set] \ k.visited
      OBVIOUS
    <2> DEFINE visited == k.visited \cup (fresh \ alive) \cup {c}
    <2>5. \A b \in fresh : IsAlive(b) => b = c \/ b \in members[k.set] \ visited
      BY <2>3, <2>4
    <2>6. call'[p] = [k EXCEPT !.at = "sending", !.client = c, !.dead = dead, !.visited = visited]
      BY <1>1, <2>1
    <2> HIDE DEF fresh, alive, dead, visited
    <2>7. /\ call'[p].at = "sending" /\ call'[p].client = c /\ call'[p].dead = dead
          /\ call'[p].visited = visited /\ call'[p].due = k.due /\ call'[p].set = k.set
      BY <1>1, <2>6 DEF PublishCall
    <2>8. p \notin Corrupt => c \in got'[p]
      BY <1>1, <2>1
    <2>9. /\ \A b \in Client : b \in got[p] => b \in got'[p]
          /\ \A q \in Publish : q # p => got'[q] = got[q]
      BY <1>1, <2>1
    <2>10. QED
      BY <1>3, <2>1, <2>2, <2>4, <2>5, <2>7, <2>8, <2>9
  <1>6. QED
    BY <1>4, <1>5

\* A turn of a publish's loop keeps its own reach and that of the others.
LEMMA LoopReach ==
    ASSUME TypeInv, DeadInv, ReachInv, NEW p \in Publish, NEW k, LoopCall(k), k.at \in {"idle", "sending"},
           \A c \in k.dead : p \in Corrupt \/ life[c] \in {"dead", "gone"},
           call[p].dead \subseteq k.dead,
           \A c \in k.due : life[c] # "new",
           p \notin Corrupt => \A c \in Client : c \in k.due /\ life[c] = "live" /\ ~TakenForDead(c) =>
                                   c \in got[p] \/ c \in members[k.set] \ k.visited,
           Deliver(p, k), UNCHANGED life
    PROVE  DeadInv' /\ ReachInv'
  <1>1. /\ \A q \in Publish \ {p} : call'[q] = call[q]
        /\ \/ call'[p].at = "sending" /\ LoopCall(call'[p])
           \/ call'[p].at = "done"
    BY DeliverType
  <1>2. /\ call'[p].due = k.due
        /\ \A c \in call'[p].dead : p \in Corrupt \/ life[c] \in {"dead", "gone"}
        /\ \A c \in Client : c \in got[p] => c \in got'[p]
        /\ \A q \in Publish : q # p => got'[q] = got[q]
        /\ call'[p].at = "sending" => /\ life[call'[p].client] # "new" /\ members' = members
                                      /\ call'[p].set = k.set /\ k.dead \subseteq call'[p].dead
        /\ call'[p].at = "done" =>
             /\ k.dead \subseteq call'[p].dead
             /\ \A c \in members[k.set] \ k.visited : ~IsAlive(c)
             /\ \A s \in SetObject : members[s] \ call'[p].dead \subseteq members'[s] /\ members'[s] \subseteq members[s]
        /\ call'[p].at = "sending" /\ p \notin Corrupt =>
             \A c \in Client : c \in members[k.set] \ k.visited /\ IsAlive(c) =>
                 c \in got'[p] \/ c \in members[k.set] \ call'[p].visited
    BY DeliverReach
  <1>3. DeadInv'
    <2>1. \A s \in SetObject : members'[s] \subseteq members[s]
      BY <1>1, <1>2
    <2>2. \A q \in Publish : call'[q].at = "sending" => life'[call'[q].client] # "new"
      BY <1>1, <1>2 DEF DeadInv
    <2>3. \A q \in Publish \ Corrupt : \A c \in call'[q].dead : life'[c] \in {"dead", "gone"}
      BY <1>1, <1>2 DEF DeadInv
    <2>4. \A q \in Publish : /\ call'[q].at = "idle" => call'[q].due = {}
                             /\ \A c \in call'[q].due : life'[c] # "new"
      BY <1>1, <1>2 DEF DeadInv
    <2>5. QED
      BY <2>1, <2>2, <2>3, <2>4 DEF DeadInv
  <1>4. \A c \in Client : TakenForDead(c) => TakenForDead(c)'
    <2>1. ASSUME NEW c \in Client, NEW q \in Corrupt, c \in call[q].dead PROVE c \in call'[q].dead
      BY <1>1, <1>2, <2>1, ChannelsAssumption
    <2>2. QED
      BY <2>1 DEF TakenForDead
  <1>5. ASSUME NEW q \in Publish \ Corrupt, NEW c \in Client,
               c \in call'[q].due, life'[c] = "live", ~TakenForDead(c)'
        PROVE  /\ call'[q].at = "sending" => c \in got'[q] \/ c \in members'[call'[q].set] \ call'[q].visited
               /\ call'[q].at = "done" => c \in got'[q]
    <2>1. life[c] = "live" /\ ~TakenForDead(c) /\ IsAlive(c)
      BY <1>4, <1>5 DEF IsAlive
    <2>2. CASE q = p
      BY <1>1, <1>2, <1>5, <2>1, <2>2
    <2>3. CASE q # p
      <3>1. call'[q] = call[q] /\ got'[q] = got[q]
        BY <1>1, <1>2, <2>3
      <3>2. c \notin call'[p].dead \/ call'[p].at = "sending"
        <4>1. CASE p \in Corrupt
          BY <1>5, <4>1 DEF TakenForDead
        <4>2. CASE p \notin Corrupt
          BY <1>2, <2>1, <4>2
        <4>3. QED
          BY <4>1, <4>2
      <3>3. call[q].at = "sending" => call[q].set \in SetObject
        BY DEF TypeInv, LoopCall
      <3>4. call[q].at = "sending" /\ c \in members[call[q].set] => c \in members'[call[q].set]
        BY <1>1, <1>2, <3>2, <3>3
      <3>5. QED
        BY <1>5, <2>1, <3>1, <3>4 DEF ReachInv
    <2>4. QED
      BY <2>2, <2>3
  <1>6. QED
    BY <1>3, <1>5 DEF ReachInv

\* Every step keeps the reach of the publishes under way.
LEMMA ReachStep == TypeInv /\ DeadInv /\ ReachInv /\ [Next]_vars => DeadInv' /\ ReachInv'
  <1> SUFFICES ASSUME TypeInv, DeadInv, ReachInv, [Next]_vars PROVE DeadInv' /\ ReachInv'
    OBVIOUS
  <1>1. ASSUME NEW p \in Publish, NEW ch \in Channel, PublishStart(p, ch) PROVE DeadInv' /\ ReachInv'
    <2>1. CASE channels[ch] = None
      <3>1. call' = [call EXCEPT ![p].at = "done"] /\ UNCHANGED <<members, life, got>>
        BY <1>1, <2>1 DEF PublishStart
      <3>2. call[p].due = {} /\ call[p].at = "idle"
        BY <1>1 DEF PublishStart, DeadInv
      <3>3. /\ call'[p].at = "done"
            /\ \A q \in Publish : /\ call'[q].due = call[q].due /\ call'[q].dead = call[q].dead
                                  /\ q # p => call'[q] = call[q]
        BY <3>1 DEF TypeInv, TypeOK, PublishCall
      <3>4. DeadInv'
        BY <3>1, <3>2, <3>3 DEF DeadInv
      <3>5. \A c \in Client : TakenForDead(c) => TakenForDead(c)'
        BY <3>3, ChannelsAssumption DEF TakenForDead
      <3>6. ReachInv'
        BY <3>1, <3>2, <3>3, <3>5 DEF ReachInv
      <3>7. QED
        BY <3>4, <3>6
    <2>2. CASE channels[ch] # None
      <3> DEFINE k == [call[p] EXCEPT !.channel = ch, !.set = channels[ch], !.due = members[channels[ch]]]
      <3>1. /\ LoopCall(k) /\ k.at = "idle" /\ k.due = members[k.set] /\ k.dead = {} /\ k.visited = {}
            /\ Deliver(p, k) /\ UNCHANGED life /\ call[p].dead = {}
        BY <1>1, <2>2, StartCall DEF PublishStart, TypeInv
      <3> HIDE DEF k
      <3>2. \A c \in k.due : life[c] # "new"
        BY <3>1 DEF LoopCall, DeadInv
      <3>3. QED
        BY <3>1, <3>2, LoopReach
    <2>3. QED
      BY <2>1, <2>2
  <1>2. ASSUME NEW p \in Publish, SendFails(p) PROVE DeadInv' /\ ReachInv'
    <2> DEFINE k == [call[p] EXCEPT !.dead = @ \cup {call[p].client}]
    <2>1. call[p].at = "sending" /\ Deliver(p, k) /\ UNCHANGED life /\ (p \in Corrupt \/ ~IsAlive(call[p].client))
      BY <1>2 DEF SendFails
    <2>2. /\ LoopCall(k) /\ k.at = "sending" /\ k.set = call[p].set /\ k.due = call[p].due
          /\ k.visited = call[p].visited /\ k.dead = call[p].dead \cup {call[p].client}
          /\ call[p].client \in Client
      BY <2>1, NextCall
    <2> HIDE DEF k
    <2>3. p \in Corrupt \/ life[call[p].client] \in {"dead", "gone"}
      BY <2>1, <2>2 DEF IsAlive, DeadInv, TypeInv, TypeOK, Life
    <2>4. \A c \in k.dead : p \in Corrupt \/ life[c] \in {"dead", "gone"}
      BY <2>2, <2>3 DEF DeadInv
    <2>5. \A c \in k.due : life[c] # "new"
      BY <2>2 DEF DeadInv
    <2>6. p \notin Corrupt => \A c \in Client : c \in k.due /\ life[c] = "live" /\ ~TakenForDead(c) =>
                                 c \in got[p] \/ c \in members[k.set] \ k.visited
      BY <2>1, <2>2 DEF ReachInv
    <2>7. QED
      BY <2>1, <2>2, <2>4, <2>5, <2>6, LoopReach
  <1>3. ASSUME NEW p \in Publish, SendEnds(p) PROVE DeadInv' /\ ReachInv'
    <2>1. call[p].at = "sending" /\ Deliver(p, call[p]) /\ UNCHANGED life /\ LoopCall(call[p])
      BY <1>3, NextCall DEF SendEnds
    <2>2. \A c \in call[p].dead : p \in Corrupt \/ life[c] \in {"dead", "gone"}
      BY DEF DeadInv
    <2>3. \A c \in call[p].due : life[c] # "new"
      BY DEF DeadInv
    <2>4. p \notin Corrupt => \A c \in Client : c \in call[p].due /\ life[c] = "live" /\ ~TakenForDead(c) =>
                                 c \in got[p] \/ c \in members[call[p].set] \ call[p].visited
      BY <2>1 DEF ReachInv
    <2>5. QED
      BY <2>1, <2>2, <2>3, <2>4, LoopReach
  <1>4. CASE ~\E p \in Publish : Progress(p) \/ \E ch \in Channel : PublishStart(p, ch)
    <2>1. /\ UNCHANGED <<call, got>>
          /\ \A s \in SetObject, c \in Client :
               /\ c \in members'[s] => c \in members[s] \/ life'[c] # "new"
               /\ c \in members[s] /\ life'[c] = "live" /\ Referenced(s) => c \in members'[s]
      BY <1>4, OthersMove
    <2>2. \A s \in SetObject : members'[s] \subseteq Client
      BY TypeStep DEF TypeInv, TypeOK
    <2>3. \A p \in Publish : /\ call[p].dead \subseteq Client /\ call[p].due \subseteq Client
                             /\ call[p].at = "sending" =>
                                  call[p].client \in Client /\ call[p].set \in SetObject /\ Referenced(call[p].set)
      BY DEF TypeInv, TypeOK, PublishCall, LoopCall, Referenced
    <2>4. DeadInv'
      <3>1. \A s \in SetObject : \A c \in members'[s] : life'[c] # "new"
        BY <2>1, <2>2, LifeMoves DEF DeadInv
      <3>2. \A p \in Publish : call'[p].at = "sending" => life'[call'[p].client] # "new"
        BY <2>1, <2>3, LifeMoves DEF DeadInv
      <3>3. \A p \in Publish \ Corrupt : \A c \in call'[p].dead : life'[c] \in {"dead", "gone"}
        BY <2>1, <2>3, LifeMoves DEF DeadInv
      <3>4. \A p \in Publish : /\ call'[p].at = "idle" => call'[p].due = {}
                               /\ \A c \in call'[p].due : life'[c] # "new"
        BY <2>1, <2>3, LifeMoves DEF DeadInv
      <3>5. QED
        BY <3>1, <3>2, <3>3, <3>4 DEF DeadInv
    <2>5. ASSUME NEW p \in Publish \ Corrupt, NEW c \in Client,
                 c \in call'[p].due, life'[c] = "live", ~TakenForDead(c)'
          PROVE  /\ call'[p].at = "sending" => c \in got'[p] \/ c \in members'[call'[p].set] \ call'[p].visited
                 /\ call'[p].at = "done" => c \in got'[p]
      <3>1. life[c] # "new"
        BY <2>1, <2>5 DEF DeadInv
      <3>2. life[c] = "live" /\ ~TakenForDead(c)
        BY <2>1, <2>5, <3>1, LifeMoves DEF TakenForDead
      <3>3. QED
        BY <2>1, <2>3, <2>5, <3>2 DEF ReachInv
    <2>6. QED
      BY <2>4, <2>5 DEF ReachInv
  <1>5. QED
    BY <1>1, <1>2, <1>3, <1>4 DEF Progress

\* Every publish that returned reached the clients that were registered from its
\* beginning on, while others subscribed, left, died or were removed.
THEOREM PublishReaches == Spec => []PublishReachesStable
  <1>1. Init => DeadInv /\ ReachInv
    BY DEF Init, DeadInv, ReachInv
  <1>2. ReachInv /\ TypeInv => PublishReachesStable
    BY DEF ReachInv, PublishReachesStable, TypeInv, TypeOK, PublishCall
  <1>3. QED
    BY <1>1, <1>2, TypeInit, TypeStep, ReachStep, PTL DEF Spec

=============================================================================
