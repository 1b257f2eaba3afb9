------------------------- MODULE RedisChannelsProofs -------------------------
(* Theorems about RedisChannels and the routes that use it, Streams and       *)
(* WsMessages, for any clients, messages, Set objects, frames and handlers.   *)
EXTENDS Streams, WsMessages, FiniteSetTheorems, SequenceTheorems, TLAPS

\* What may be on its way back as long as Redis has rejected nothing.
Calm == {a \in Arrival : a.kind # "error"}

\* RedisFollowsMap with the types of the connection's two streams.
Inv ==
    /\ commands \in Seq(Command)
    /\ failures \in Nat
    /\ failures = 0 => inbox \in Seq(Calm)
    /\ RedisFollowsMap

-----------------------------------------------------------------------------
\* A message taken out of the inbox leaves a sequence of the same kind.
LEMMA RemoveAtType ==
    ASSUME NEW S, NEW s \in Seq(S), NEW i \in 1..Len(s)
    PROVE  RemoveAt(s, i) \in Seq(S)
  <1>1. SubSeq(s, 1, i - 1) \in Seq(S)
    <2>1. \A k \in 1..(i - 1) : s[k] \in S BY ElementOfSeq, LenProperties
    <2> QED BY <2>1, SubSeqProperties
  <1>2. SubSeq(s, i + 1, Len(s)) \in Seq(S)
    <2>1. \A k \in (i + 1)..Len(s) : s[k] \in S BY ElementOfSeq, LenProperties
    <2> QED BY <2>1, SubSeqProperties, LenProperties
  <1> QED BY <1>1, <1>2, ConcatProperties DEF RemoveAt

\* A sent command becomes the last one.
LEMMA SentIsLast ==
    ASSUME NEW s \in Seq(Command), NEW k \in Command
    PROVE  /\ Append(s, k) \in Seq(Command) /\ Append(s, k) # <<>>
           /\ Append(s, k)[Len(Append(s, k))] = k
  <1>1. Len(s) \in Nat BY LenProperties
  <1> QED BY <1>1

\* Executing or refusing a command does not change which one is the last.
LEMMA TailKeepsLast ==
    ASSUME NEW s \in Seq(Command), s # <<>>
    PROVE  /\ Tail(s) \in Seq(Command)
           /\ Tail(s) = <<>> => s[Len(s)] = Head(s)
           /\ Tail(s) # <<>> => Tail(s)[Len(Tail(s))] = s[Len(s)]
  <1>1. Len(s) \in Nat \ {0} BY EmptySeq
  <1>2. Tail(s) \in Seq(Command) /\ Len(Tail(s)) = Len(s) - 1
    BY HeadTailProperties
  <1>3. ASSUME Tail(s) = <<>> PROVE s[Len(s)] = Head(s)
    <2> DEFINE t == Tail(s)
    <2>1. t = <<>> /\ Len(t) = Len(s) - 1 BY <1>2, <1>3
    <2> HIDE DEF t
    <2>2. Len(s) - 1 = 0
      <3>1. Len(t) = 0 BY <2>1, EmptySeq
      <3> QED BY <2>1, <3>1
    <2>3. Len(s) = 1 BY <1>1, <2>2
    <2> QED BY <2>3
  <1>4. ASSUME Tail(s) # <<>> PROVE Tail(s)[Len(Tail(s))] = s[Len(s)]
    <2>1. Len(s) - 1 \in 1..Len(Tail(s)) BY <1>1, <1>2, <1>4, EmptySeq
    <2> QED BY <1>1, <1>2, <2>1, HeadTailProperties
  <1> QED BY <1>2, <1>3, <1>4

\* The entry leaves the map with its last client, and Redis is told.
LEMMA ReleaseFollows ==
    ASSUME commands \in Seq(Command), NEW left, Release(left),
           RedisFollowsMap, UNCHANGED <<held, failures>>
    PROVE  commands' \in Seq(Command) /\ RedisFollowsMap'
  <1>1. CASE left = {}
    <2> DEFINE k == [op |-> "unsubscribe"]
    <2>1. k \in Command BY DEF Command
    <2>2. commands' = Append(commands, k) /\ local' = None BY <1>1 DEF Release
    <2>3. k.op # "subscribe" OBVIOUS
    <2> QED BY <2>1, <2>2, <2>3, SentIsLast DEF RedisFollowsMap
  <1>2. CASE left # {}
    BY <1>2 DEF Release, RedisFollowsMap
  <1> QED BY <1>1, <1>2

\* A step of the loop of handleMessage.
LEMMA DeliverFollows ==
    ASSUME commands \in Seq(Command), NEW m, NEW h, Deliver(m, h),
           RedisFollowsMap, UNCHANGED <<held, failures>>
    PROVE  commands' \in Seq(Command) /\ RedisFollowsMap'
  <1>1. CASE UNCHANGED <<local, members, commands>>
    BY <1>1 DEF RedisFollowsMap
  <1>2. CASE \E left : Release(left)
    BY <1>2, ReleaseFollows
  <1> QED BY <1>1, <1>2 DEF Deliver

-----------------------------------------------------------------------------
\* Nothing is sent and nothing is subscribed initially.
LEMMA InvInit == Init => Inv
  <1> SUFFICES ASSUME Init PROVE Inv OBVIOUS
  <1>1. commands \in Seq(Command) /\ inbox \in Seq(Calm)
    BY EmptySeq DEF Init
  <1>2. failures \in Nat /\ RedisFollowsMap BY DEF Init, RedisFollowsMap
  <1> QED BY <1>1, <1>2 DEF Inv

\* Every step keeps the map and the last command in agreement: the map changes
\* only with a command, or with the error that ends the premise.
LEMMA InvStep == Inv /\ [Next]_vars => Inv'
  <1> SUFFICES ASSUME Inv, [Next]_vars PROVE Inv' OBVIOUS
  <1>1. ASSUME NEW c \in Client, SubscribeFirst(c) PROVE Inv'
    <2> DEFINE k == [op |-> "subscribe", client |-> c]
    <2>1. k \in Command BY DEF Command
    <2>2. commands' = Append(commands, k) BY <1>1 DEF SubscribeFirst
    <2>3. local' # None
      <3>1. Free # {} /\ local' = CHOOSE s \in Free : TRUE BY <1>1 DEF SubscribeFirst
      <3>2. local' \in Free BY <3>1
      <3> QED BY <3>2, RedisAssumption DEF Free
    <2>4. commands' \in Seq(Command) /\ commands' # <<>> /\ commands'[Len(commands')] = k
      BY <2>1, <2>2, SentIsLast DEF Inv
    <2>5. RedisFollowsMap' BY <2>3, <2>4 DEF RedisFollowsMap
    <2> QED BY <1>1, <2>4, <2>5 DEF SubscribeFirst, Inv
  <1>2. ASSUME NEW c \in Client, SubscribeNext(c) PROVE Inv'
    BY <1>2 DEF SubscribeNext, Inv, RedisFollowsMap
  <1>3. ASSUME NEW c \in Client, Disconnect(c) PROVE Inv'
    BY <1>3 DEF Disconnect, Inv, RedisFollowsMap
  <1>4. ASSUME NEW c \in Client, Unsubscribe(c) PROVE Inv'
    <2>1. UNCHANGED <<inbox, held, failures>> BY <1>4 DEF Unsubscribe
    <2>2. CASE UNCHANGED <<local, members, commands>>
      BY <2>1, <2>2 DEF Inv, RedisFollowsMap
    <2>3. CASE \E left : Release(left)
      <3>1. commands' \in Seq(Command) /\ RedisFollowsMap'
        BY <2>1, <2>3, ReleaseFollows DEF Inv
      <3> QED BY <2>1, <3>1 DEF Inv
    <2> QED BY <1>4, <2>2, <2>3 DEF Unsubscribe
  <1>5. ASSUME NEW m \in Message, Push(m) PROVE Inv'
    <2> DEFINE a == [kind |-> "message", of |-> m]
    <2>1. a \in Calm BY DEF Calm, Arrival
    <2>2. inbox' = Append(inbox, a) BY <1>5 DEF Push
    <2>3. failures = 0 => inbox' \in Seq(Calm) BY <2>1, <2>2 DEF Inv
    <2> QED BY <1>5, <2>3 DEF Push, Inv, RedisFollowsMap
  <1>6. ASSUME NEW m \in Message, SendSettles(m) PROVE Inv'
    <2>1. UNCHANGED <<inbox, held, failures>> BY <1>6 DEF SendSettles
    <2>2. PICK h : Deliver(m, h) BY <1>6 DEF SendSettles
    <2>3. commands' \in Seq(Command) /\ RedisFollowsMap'
      BY <2>1, <2>2, DeliverFollows DEF Inv
    <2> QED BY <2>1, <2>3 DEF Inv
  <1>7. ASSUME Execute PROVE Inv'
    <2> DEFINE a == [kind |-> "ack", of |-> Head(commands)]
    <2>1. commands # <<>> /\ commands' = Tail(commands) /\ inbox' = Append(inbox, a)
          /\ held' = (Head(commands).op = "subscribe") /\ UNCHANGED <<local, failures>>
      BY <1>7 DEF Execute
    <2>2. commands' \in Seq(Command)
          /\ (commands' = <<>> => commands[Len(commands)] = Head(commands))
          /\ (commands' # <<>> => commands'[Len(commands')] = commands[Len(commands)])
      BY <2>1, TailKeepsLast DEF Inv
    <2>3. Head(commands) \in Command BY <2>1, HeadTailProperties DEF Inv
    <2>4. a \in Calm BY <2>3 DEF Calm, Arrival
    <2>5. failures = 0 => inbox' \in Seq(Calm) BY <2>1, <2>4 DEF Inv
    <2>6. RedisFollowsMap' BY <2>1, <2>2 DEF Inv, RedisFollowsMap
    <2> QED BY <2>1, <2>2, <2>5, <2>6 DEF Inv
  <1>8. ASSUME RefuseCommand PROVE Inv'
    <2>1. commands # <<>> /\ commands' = Tail(commands) /\ failures' = failures + 1
      BY <1>8 DEF RefuseCommand
    <2>2. commands' \in Seq(Command) BY <2>1, TailKeepsLast DEF Inv
    <2>3. failures' \in Nat /\ failures' # 0 BY <2>1 DEF Inv
    <2> QED BY <2>2, <2>3 DEF Inv, RedisFollowsMap
  <1>9. ASSUME NEW kind \in {"ack", "error"}, NEW op \in {"subscribe", "unsubscribe"},
               ArrivesFor(kind, op),
               UNCHANGED local \/ kind = "error", UNCHANGED <<commands, held, failures>>
        PROVE  Inv'
    <2>1. inbox # <<>> /\ inbox' = Tail(inbox) /\ Head(inbox).kind = kind
      BY <1>9 DEF ArrivesFor
    <2>2. failures = 0 => inbox' \in Seq(Calm) /\ kind # "error"
      BY <2>1, HeadTailProperties DEF Inv, Calm
    <2>3. RedisFollowsMap' BY <1>9, <2>2 DEF Inv, RedisFollowsMap
    <2> QED BY <1>9, <2>2, <2>3 DEF Inv
  <1>10. ASSUME SubscribeAcked PROVE Inv'
    BY <1>10, <1>9 DEF SubscribeAcked
  <1>11. ASSUME SubscribeRefused PROVE Inv'
    BY <1>11, <1>9 DEF SubscribeRefused
  <1>12. ASSUME UnsubscribeReplied PROVE Inv'
    BY <1>12, <1>9 DEF UnsubscribeReplied
  <1>13. ASSUME MessageArrives PROVE Inv'
    <2>1. PICK n \in NextMessage :
            /\ inbox' = RemoveAt(inbox, n)
            /\ UNCHANGED <<local, members, commands>>
                 \/ \E m, h : Deliver(m, h)
            /\ UNCHANGED <<held, failures>>
      BY <1>13 DEF MessageArrives
    <2>2. n \in 1..Len(inbox) BY DEF NextMessage
    <2>3. failures = 0 => inbox' \in Seq(Calm)
      BY <2>1, <2>2, RemoveAtType DEF Inv
    <2>4. commands' \in Seq(Command) /\ RedisFollowsMap'
      <3>1. CASE UNCHANGED <<local, members, commands>>
        BY <2>1, <3>1 DEF Inv, RedisFollowsMap
      <3>2. CASE \E m, h : Deliver(m, h)
        BY <2>1, <3>2, DeliverFollows DEF Inv
      <3> QED BY <2>1, <3>1, <3>2
    <2> QED BY <2>1, <2>3, <2>4 DEF Inv
  <1>14. CASE UNCHANGED vars
    BY <1>14 DEF vars, Inv, RedisFollowsMap
  <1> QED
    BY <1>1, <1>2, <1>3, <1>4, <1>5, <1>6, <1>7, <1>8, <1>10, <1>11, <1>12, <1>13, <1>14
       DEF Next, Receive

\* As long as no command was rejected, the last command sent to Redis agrees with
\* the local map: a channel is subscribed exactly while it has local clients.
THEOREM SubscriptionFollows == Spec => []RedisFollowsMap
  <1>1. Inv => RedisFollowsMap BY DEF Inv
  <1> QED BY <1>1, InvInit, InvStep, PTL DEF Spec

-----------------------------------------------------------------------------
(* WsMessages. *)

\* The entries for the event of a frame, a missing method's included.
Mine(f) == {n \in 1..Len(Handlers) : Event[f] # NoEvent /\ Handlers[n][2] = Event[f]}

\* What a frame keeps.
Looping == [at : {"coming", "handling", "user", "done"}, next : Nat \ {0}, dispatched : BOOLEAN]

\* What a frame can be handed to.
Sides == {Handlers[n][1] : n \in 1..Len(Handlers)} \cup {"onMessage"}

\* A frame in the loop was given to entries of its own that the loop is past,
\* each once; a frame past the loop to entries of its own or to onMessage.
OneSide(f) ==
    /\ frame[f].at = "coming" => frame[f].next = 1 /\ ~frame[f].dispatched /\ given[f] = <<>>
    /\ frame[f].at = "handling" => frame[f].dispatched /\ Mine(f) # {}
    /\ frame[f].at \in {"coming", "handling"} =>
          \A i \in DOMAIN given[f] :
             \E n \in Mine(f) : n < frame[f].next /\ given[f][i] = Handlers[n][1]
    /\ frame[f].at \in {"user", "done"} =>
          IF Mine(f) = {} THEN HasOnMessage => given[f] = <<"onMessage">>
                          ELSE \A i \in DOMAIN given[f] : given[f][i] # "onMessage"
    /\ \A i, j \in DOMAIN given[f] : i # j => given[f][i] # given[f][j]

FrameInv ==
    /\ frame \in [Frame -> Looping]
    /\ given \in [Frame -> Seq(Sides)]
    /\ \A f \in Frame : OneSide(f)

\* No frame has been given to anything.
LEMMA FramesInitial == FramesInit => FrameInv
<1>1. <<>> \in Seq(Sides) /\ DOMAIN <<>> = {}
  BY EmptySeq
<1>2. QED BY <1>1 DEF FramesInit, NoFrame, FrameInv, Looping, OneSide

\* One more that a frame is given to.
LEMMA GivenToo ==
    ASSUME NEW s \in Seq(Sides), NEW side \in Sides
    PROVE  /\ Append(s, side) \in Seq(Sides) /\ DOMAIN Append(s, side) = DOMAIN s \cup {Len(s) + 1}
           /\ Len(s) + 1 \notin DOMAIN s /\ Append(s, side)[Len(s) + 1] = side
           /\ \A i \in DOMAIN s : Append(s, side)[i] = s[i]
<1>1. Len(s) \in Nat /\ DOMAIN s = 1..Len(s)
  BY LenProperties
<1>2. QED BY <1>1, AppendProperties, LenProperties

\* A step of one frame leaves the others alone.
LEMMA OthersOneSide ==
    ASSUME NEW g \in Frame, OneSide(g), frame'[g] = frame[g], given'[g] = given[g]
    PROVE  OneSide(g)'
BY DEF OneSide, Mine

\* What a frame past the loop was given to.
Ended(f) ==
    /\ IF Mine(f) = {} THEN HasOnMessage => given[f] = <<"onMessage">>
                       ELSE \A i \in DOMAIN given[f] : given[f][i] # "onMessage"
    /\ \A i, j \in DOMAIN given[f] : i # j => given[f][i] # given[f][j]

\* That is all that OneSide asks of it.
LEMMA EndedOneSide ==
    ASSUME NEW f \in Frame, frame'[f].at \in {"user", "done"}, Ended(f)'
    PROVE  OneSide(f)'
BY DEF OneSide, Ended, Mine

\* Past the loop: the route's own onMessage, if nothing was dispatched.
LEMMA FallThroughOneSide ==
    ASSUME FrameInv, NEW f \in Frame, NEW dispatched, FallThrough(f, dispatched),
           frame[f].at \in {"coming", "handling"},
           dispatched <=> Mine(f) # {}
    PROVE  FrameInv'
<1>1. OneSide(f) /\ given[f] \in Seq(Sides)
  BY DEF FrameInv, Looping
<1>2. \A i \in DOMAIN given[f] : given[f][i] # "onMessage"
  BY <1>1, FrameAssumption DEF OneSide, Mine
<1>3. Mine(f) = {} => given[f] = <<>>
  <2>1. Len(given[f]) \in Nat /\ DOMAIN given[f] = 1..Len(given[f])
    BY <1>1, LenProperties
  <2>2. given[f] # <<>> => 1 \in DOMAIN given[f]
    BY <1>1, <2>1, EmptySeq
  <2>3. QED BY <1>1, <2>2 DEF OneSide
<1>4. \E at \in {"user", "done"} :
         /\ frame' = [frame EXCEPT ![f].at = at]
         /\ IF dispatched \/ ~HasOnMessage THEN given' = given
                                          ELSE given' = [given EXCEPT ![f] = Append(@, "onMessage")]
  BY DEF FallThrough
<1>5. PICK at \in {"user", "done"} : frame' = [frame EXCEPT ![f].at = at]
  BY <1>4
<1>6. /\ frame' \in [Frame -> Looping]
      /\ frame'[f].at \in {"user", "done"}
      /\ \A g \in Frame : g # f => frame'[g] = frame[g]
  <2>1. frame[f] \in Looping
    BY DEF FrameInv, Looping
  <2>2. frame'[f] = [frame[f] EXCEPT !.at = at]
    BY <1>5 DEF FrameInv, Looping
  <2>3. QED BY <1>5, <2>1, <2>2 DEF FrameInv, Looping
<1>7. /\ given' \in [Frame -> Seq(Sides)]
      /\ \A g \in Frame : g # f => given'[g] = given[g]
      /\ given'[f] = IF dispatched \/ ~HasOnMessage THEN given[f] ELSE Append(given[f], "onMessage")
  <2>1. "onMessage" \in Sides
    BY DEF Sides
  <2>2. Append(given[f], "onMessage") \in Seq(Sides)
    BY <1>1, <2>1, GivenToo
  <2>3. QED BY <1>1, <1>4, <2>2 DEF FrameInv
<1>8. OneSide(f)'
  <2>1. CASE dispatched \/ ~HasOnMessage
    <3>1. given'[f] = given[f]
      BY <1>7, <2>1
    <3>2. Ended(f)'
      BY <1>1, <1>2, <1>3, <2>1, <3>1 DEF OneSide, Ended, Mine
    <3>3. QED BY <1>6, <3>2, EndedOneSide
  <2>2. CASE ~(dispatched \/ ~HasOnMessage)
    <3>1. Mine(f) = {} /\ given[f] = <<>>
      BY <1>3, <2>2
    <3>2. given'[f] = <<"onMessage">>
      BY <1>7, <2>2, <3>1
    <3>3. Ended(f)'
      BY <3>1, <3>2 DEF Ended, Mine
    <3>4. QED BY <1>6, <3>3, EndedOneSide
  <2>3. QED BY <2>1, <2>2
<1>9. \A g \in Frame : g # f => OneSide(g)'
  BY <1>6, <1>7, OthersOneSide DEF FrameInv, Looping
<1>10. QED BY <1>6, <1>7, <1>8, <1>9 DEF FrameInv, Looping

\* The loop goes on to an entry that is there.
LEMMA LeastIs ==
    ASSUME NEW ns \in SUBSET Nat, ns # {}
    PROVE  Least(ns) \in ns
<1>1. PICK n \in ns : \A k \in ns : <<k, n>> \notin OpToRel(<, Nat)
  BY NatLessThanWellFounded, WFMin
<1>2. ASSUME NEW k \in ns PROVE n <= k
  <2>1. ~(k < n)
    BY <1>1 DEF OpToRel
  <2>2. QED BY <2>1
<1>3. QED BY <1>2 DEF Least

\* The frame goes on to the first entry of its own from where it is, or past
\* the loop.
LEMMA GoOnOneSide ==
    ASSUME FrameInv, NEW f \in Frame, GoOn(f), frame[f].at \in {"coming", "handling"}
    PROVE  FrameInv'
<1> DEFINE i == frame[f].next
           n == Least(Matching(f, i))
<1>1. i \in Nat \ {0} /\ (frame[f].at = "coming" => i = 1 /\ ~frame[f].dispatched)
  BY DEF FrameInv, Looping, OneSide
<1>2. CASE Matching(f, i) = {}
  <2>1. FallThrough(f, frame[f].dispatched \/ Named(f, i, Len(Handlers)))
    BY <1>2 DEF GoOn
  <2>2. CASE frame[f].at = "coming"
    <3>1. Named(f, i, Len(Handlers)) <=> Mine(f) # {}
      BY <1>1, <2>2 DEF Named, Mine
    <3>2. (frame[f].dispatched \/ Named(f, i, Len(Handlers))) <=> Mine(f) # {}
      BY <1>1, <2>2, <3>1
    <3>3. QED BY <2>1, <2>2, <3>2, FallThroughOneSide
  <2>3. CASE frame[f].at = "handling"
    <3>1. frame[f].dispatched /\ Mine(f) # {}
      BY <2>3 DEF FrameInv, Looping, OneSide
    <3>2. QED BY <2>1, <2>3, <3>1, FallThroughOneSide
  <2>4. QED BY <2>2, <2>3
<1>3. CASE Matching(f, i) # {}
  <2>1. n \in Matching(f, i)
    BY <1>1, <1>3, LeastIs, FrameAssumption DEF Matching
  <2>2. n \in Mine(f) /\ n >= i /\ n \in 1..Len(Handlers)
    BY <1>1, <2>1, FrameAssumption DEF Matching, Mine
  <2>3. /\ frame' = [frame EXCEPT ![f] = [at |-> "handling", next |-> n + 1, dispatched |-> TRUE]]
        /\ given' = [given EXCEPT ![f] = Append(@, Handlers[n][1])]
    BY <1>3 DEF GoOn
  <2> HIDE DEF n
  <2>4. /\ DOMAIN frame' = Frame
        /\ frame'[f] = [at |-> "handling", next |-> n + 1, dispatched |-> TRUE]
        /\ given'[f] = Append(given[f], Handlers[n][1])
        /\ \A g \in Frame : g # f => frame'[g] = frame[g] /\ given'[g] = given[g]
    BY <2>3 DEF FrameInv, Looping
  <2>5. Handlers[n][1] \in Sides /\ given[f] \in Seq(Sides)
    BY <2>2 DEF Sides, FrameInv, Looping
  <2>6. given' \in [Frame -> Seq(Sides)]
    BY <2>3, <2>5, GivenToo DEF FrameInv, Looping
  <2>7. ASSUME NEW j \in DOMAIN given[f]
        PROVE  \E k \in Mine(f) : k < i /\ given[f][j] = Handlers[k][1]
    BY DEF FrameInv, Looping, OneSide
  <2>8. ASSUME NEW j \in DOMAIN given[f] PROVE given[f][j] # Handlers[n][1]
    <3>1. PICK k \in Mine(f) : k < i /\ given[f][j] = Handlers[k][1]
      BY <2>7
    <3>2. k \in 1..Len(Handlers) /\ k # n
      BY <1>1, <2>2, <3>1, FrameAssumption DEF Mine
    <3>3. QED BY <2>2, <3>1, <3>2, FrameAssumption
  <2>9. \A j, k \in DOMAIN given'[f] : j # k => given'[f][j] # given'[f][k]
    <3>1. \A j, k \in DOMAIN given[f] : j # k => given[f][j] # given[f][k]
      BY DEF FrameInv, Looping, OneSide
    <3>2. QED BY <2>4, <2>5, <2>8, <3>1, GivenToo
  <2>10. \A j \in DOMAIN given'[f] : \E k \in Mine(f) : k < n + 1 /\ given'[f][j] = Handlers[k][1]
    <3>1. ASSUME NEW j \in DOMAIN given[f]
          PROVE  \E k \in Mine(f) : k < n + 1 /\ given[f][j] = Handlers[k][1]
      <4>1. PICK k \in Mine(f) : k < i /\ given[f][j] = Handlers[k][1]
        BY <2>7
      <4>2. k < n + 1
        BY <1>1, <2>2, <4>1, FrameAssumption DEF Mine
      <4>3. QED BY <4>1, <4>2
    <3>2. n < n + 1
      BY <2>2, FrameAssumption
    <3>3. given'[f][Len(given[f]) + 1] = Handlers[n][1]
      BY <2>4, <2>5, GivenToo
    <3>4. \A j \in DOMAIN given[f] : given'[f][j] = given[f][j]
      BY <2>4, <2>5, GivenToo
    <3>5. DOMAIN given'[f] = DOMAIN given[f] \cup {Len(given[f]) + 1}
      BY <2>4, <2>5, GivenToo
    <3>6. QED BY <2>2, <3>1, <3>2, <3>3, <3>4, <3>5
  <2>11. OneSide(f)'
    <3>1. n + 1 \in Nat \ {0}
      BY <2>2, FrameAssumption
    <3>2. QED BY <2>2, <2>4, <2>9, <2>10, <3>1 DEF OneSide, Mine
  <2>12. \A g \in Frame : g # f => OneSide(g)'
    BY <2>4, OthersOneSide DEF FrameInv, Looping
  <2>13. frame' \in [Frame -> Looping]
    BY <2>2, <2>3, FrameAssumption DEF FrameInv, Looping
  <2>14. QED BY <2>6, <2>11, <2>12, <2>13 DEF FrameInv, Looping
<1>4. QED BY <1>2, <1>3

\* A step of one frame.
LEMMA FramesStep == FrameInv /\ [FramesNext]_frameVars => FrameInv'
<1> SUFFICES ASSUME FrameInv, [FramesNext]_frameVars PROVE FrameInv'
  OBVIOUS
<1>1. ASSUME NEW f \in Frame, Receives(f) PROVE FrameInv'
  BY <1>1, GoOnOneSide DEF Receives
<1>2. ASSUME NEW f \in Frame, HandlerReturns(f) PROVE FrameInv'
  BY <1>2, GoOnOneSide DEF HandlerReturns
<1>3. ASSUME NEW f \in Frame, HandlerRejects(f) PROVE FrameInv'
  <2>1. frame[f].dispatched /\ Mine(f) # {}
    BY <1>3 DEF HandlerRejects, FrameInv, Looping, OneSide
  <2>2. QED BY <1>3, <2>1, FallThroughOneSide DEF HandlerRejects
<1>4. ASSUME NEW f \in Frame, UserEnds(f) PROVE FrameInv'
  <2>1. given' = given /\ frame' = [frame EXCEPT ![f].at = "done"] /\ frame[f].at = "user"
    BY <1>4 DEF UserEnds
  <2>2. /\ frame' \in [Frame -> Looping]
        /\ frame'[f].at = "done" /\ \A g \in Frame : g # f => frame'[g] = frame[g]
    BY <2>1 DEF FrameInv, Looping
  <2>3. OneSide(f)'
    <3>1. OneSide(f)
      BY DEF FrameInv
    <3>2. Ended(f)'
      BY <2>1, <3>1 DEF OneSide, Ended, Mine
    <3>3. QED BY <2>2, <3>2, EndedOneSide
  <2>4. \A g \in Frame : g # f => OneSide(g)'
    BY <2>1, <2>2, OthersOneSide DEF FrameInv, Looping
  <2>5. QED BY <2>1, <2>2, <2>3, <2>4 DEF FrameInv, Looping
<1>5. CASE UNCHANGED frameVars
  <2>1. \A f \in Frame : OneSide(f)'
    BY <1>5, OthersOneSide DEF frameVars, FrameInv
  <2>2. QED BY <1>5, <2>1 DEF frameVars, FrameInv
<1>6. QED BY <1>1, <1>2, <1>3, <1>4, <1>5 DEF FramesNext

\* A frame is handed to its handlers, each once, or to the route's own
\* onMessage, and one that nobody asks for to the latter: the loop of onMessage
\* in route-builder.ts, whatever its handlers do.
THEOREM EachFrameToOneSide == FramesSpec => []FrameToOneSide
<1>1. FrameInv => FrameToOneSide
  <2> SUFFICES ASSUME FrameInv, NEW f \in Frame
               PROVE  /\ Mine(f) # {} => \A i \in DOMAIN given[f] : given[f][i] # "onMessage"
                      /\ Mine(f) = {} /\ HasOnMessage /\ frame[f].at = "done" => given[f] = <<"onMessage">>
                      /\ \A i, j \in DOMAIN given[f] : i # j => given[f][i] # given[f][j]
    BY DEF FrameToOneSide, Mine
  <2>1. OneSide(f)
    BY DEF FrameInv, Looping
  <2>2. ASSUME frame[f].at \in {"coming", "handling"}, NEW i \in DOMAIN given[f]
        PROVE  given[f][i] # "onMessage"
    BY <2>1, <2>2, FrameAssumption DEF OneSide, Mine
  <2>3. frame[f].at \in {"coming", "handling", "user", "done"}
    BY DEF FrameInv, Looping
  <2>4. QED BY <2>1, <2>2, <2>3 DEF OneSide
<1>2. QED BY <1>1, FramesInitial, FramesStep, PTL DEF FramesSpec

-----------------------------------------------------------------------------
(* Streams: what is on the connection, counted. *)

\* How often a member of T occurs in s.
Places(s, T) == {n \in 1..Len(s) : s[n] \in T}
Count(s, T) == Cardinality(Places(s, T))

\* t is s without its i-th element.
Lacks(t, s, i) ==
    i \in 1..Len(s) /\ Len(t) = Len(s) - 1 /\ \A n \in 1..Len(t) : t[n] = s[IF n < i THEN n ELSE n + 1]

\* A count is a number, and positive if there is something to count.
LEMMA CountType ==
    ASSUME NEW S, NEW s \in Seq(S), NEW T
    PROVE  /\ IsFiniteSet(Places(s, T)) /\ Count(s, T) \in Nat
           /\ \A n \in 1..Len(s) : s[n] \in T => Count(s, T) > 0
<1>1. IsFiniteSet(1..Len(s)) /\ Places(s, T) \in SUBSET (1..Len(s))
  BY FS_Interval, LenProperties DEF Places
<1>2. IsFiniteSet(Places(s, T))
  BY <1>1, FS_Subset
<1>3. Count(s, T) \in Nat /\ (Count(s, T) = 0 <=> Places(s, T) = {})
  BY <1>2, FS_CardinalityType, FS_EmptySet DEF Count
<1>4. ASSUME NEW n \in 1..Len(s), s[n] \in T PROVE Count(s, T) > 0
  <2>1. n \in Places(s, T)
    BY <1>4 DEF Places
  <2>2. QED BY <1>3, <2>1
<1>5. QED BY <1>2, <1>3, <1>4

\* Nothing in the empty sequence.
LEMMA CountEmpty == ASSUME NEW T PROVE Count(<<>>, T) = 0
<1>1. Places(<<>>, T) = {}
  BY EmptySeq DEF Places
<1>2. QED BY <1>1, FS_EmptySet DEF Count

\* One more at the end.
LEMMA CountAppend ==
    ASSUME NEW S, NEW s \in Seq(S), NEW x \in S, NEW T
    PROVE  Count(Append(s, x), T) = Count(s, T) + IF x \in T THEN 1 ELSE 0
<1>1. Len(s) \in Nat /\ Len(Append(s, x)) = Len(s) + 1
  BY LenProperties, AppendProperties
<1>2. Append(s, x)[Len(s) + 1] = x /\ \A n \in 1..Len(s) : Append(s, x)[n] = s[n]
  BY AppendProperties
<1>3. 1..(Len(s) + 1) = 1..Len(s) \cup {Len(s) + 1} /\ Len(s) + 1 \notin 1..Len(s)
  BY <1>1
<1>4. Places(Append(s, x), T) = Places(s, T) \cup (IF x \in T THEN {Len(s) + 1} ELSE {})
  BY <1>1, <1>2, <1>3 DEF Places
<1>5. Len(s) + 1 \notin Places(s, T)
  BY <1>3 DEF Places
<1>6. IsFiniteSet(Places(s, T)) /\ Count(s, T) \in Nat
  BY CountType
<1>7. CASE x \in T
  <2>1. Places(Append(s, x), T) = Places(s, T) \cup {Len(s) + 1}
    BY <1>4, <1>7
  <2>2. Cardinality(Places(s, T) \cup {Len(s) + 1}) = Cardinality(Places(s, T)) + 1
    BY <1>5, <1>6, FS_AddElement
  <2>3. QED BY <1>7, <2>1, <2>2 DEF Count
<1>8. CASE x \notin T
  BY <1>4, <1>6, <1>8 DEF Count
<1>9. QED BY <1>7, <1>8

\* One less, wherever it was.
LEMMA CountLacks ==
    ASSUME NEW S, NEW s \in Seq(S), NEW t \in Seq(S), NEW i, Lacks(t, s, i), NEW T
    PROVE  Count(s, T) = Count(t, T) + IF s[i] \in T THEN 1 ELSE 0
<1>1. Len(s) \in Nat /\ Len(t) \in Nat /\ i \in 1..Len(s) /\ Len(t) = Len(s) - 1
      /\ \A n \in 1..Len(t) : t[n] = s[IF n < i THEN n ELSE n + 1]
  BY LenProperties DEF Lacks
<1> DEFINE rest == Places(s, T) \ {i}
           f == [n \in Places(t, T) |-> IF n < i THEN n ELSE n + 1]
<1>2. IsFiniteSet(Places(s, T)) /\ IsFiniteSet(Places(t, T)) /\ Count(s, T) \in Nat /\ Count(t, T) \in Nat
  BY CountType
<1>3. f \in Bijection(Places(t, T), rest)
  <2>1. ASSUME NEW n \in Places(t, T) PROVE (IF n < i THEN n ELSE n + 1) \in rest
    BY <1>1 DEF Places
  <2>2. ASSUME NEW m \in Places(t, T), NEW n \in Places(t, T), f[m] = f[n] PROVE m = n
    BY <1>1, <2>2 DEF Places
  <2>3. ASSUME NEW k \in rest PROVE \E n \in Places(t, T) : f[n] = k
    <3>1. k \in 1..Len(s) /\ k # i /\ s[k] \in T
      BY DEF Places
    <3>2. CASE k < i
      <4>1. k \in 1..Len(t) /\ t[k] = s[k]
        BY <1>1, <3>1, <3>2
      <4>2. k \in Places(t, T)
        BY <3>1, <4>1 DEF Places
      <4>3. QED BY <3>2, <4>2
    <3>3. CASE ~(k < i)
      <4>1. k - 1 \in 1..Len(t) /\ ~(k - 1 < i) /\ (k - 1) + 1 = k
        BY <1>1, <3>1, <3>3
      <4>2. t[k - 1] = s[k]
        BY <1>1, <4>1
      <4>3. k - 1 \in Places(t, T)
        BY <3>1, <4>1, <4>2 DEF Places
      <4>4. QED BY <4>1, <4>3
    <3>4. QED BY <3>2, <3>3
  <2>4. f \in [Places(t, T) -> rest]
    BY <2>1
  <2> HIDE DEF f
  <2>5. QED BY <2>2, <2>3, <2>4 DEF Bijection, Injection, Surjection, IsInjective
<1> HIDE DEF f
<1>4. Cardinality(rest) = Count(t, T)
  BY <1>2, <1>3, FS_Bijection DEF ExistsBijection, Count
<1>5. Cardinality(rest) = IF i \in Places(s, T) THEN Count(s, T) - 1 ELSE Count(s, T)
  BY <1>2, FS_RemoveElement DEF Count
<1>6. i \in Places(s, T) <=> s[i] \in T
  BY <1>1 DEF Places
<1>7. QED BY <1>2, <1>4, <1>5, <1>6

\* The head taken off.
LEMMA TailLacks ==
    ASSUME NEW S, NEW s \in Seq(S), s # <<>>
    PROVE  Tail(s) \in Seq(S) /\ Head(s) \in S /\ Head(s) = s[1] /\ Lacks(Tail(s), s, 1)
<1>1. Len(s) \in Nat \ {0}
  BY EmptySeq
<1>2. Head(s) \in S /\ Head(s) = s[1] /\ Tail(s) \in Seq(S) /\ Len(Tail(s)) = Len(s) - 1
      /\ \A n \in 1..Len(Tail(s)) : Tail(s)[n] = s[n + 1]
  BY <1>1, HeadTailProperties
<1>3. \A n \in 1..Len(Tail(s)) : ~(n < 1)
  BY <1>1, <1>2
<1>4. QED BY <1>1, <1>2, <1>3 DEF Lacks

\* One less at the front.
LEMMA CountTail ==
    ASSUME NEW S, NEW s \in Seq(S), s # <<>>, NEW T
    PROVE  Count(s, T) = Count(Tail(s), T) + IF Head(s) \in T THEN 1 ELSE 0
<1> DEFINE t == Tail(s)
           h == Head(s)
<1>1. t \in Seq(S) /\ h = s[1] /\ Lacks(t, s, 1)
  BY TailLacks
<1> HIDE DEF t, h
<1>2. Count(s, T) = Count(t, T) + IF s[1] \in T THEN 1 ELSE 0
  BY <1>1, CountLacks
<1>3. Count(s, T) = Count(t, T) + IF h \in T THEN 1 ELSE 0
  BY <1>1, <1>2
<1>4. QED BY <1>3 DEF t, h

\* A message taken out of the middle.
LEMMA RemoveLacks ==
    ASSUME NEW S, NEW s \in Seq(S), NEW i \in 1..Len(s)
    PROVE  RemoveAt(s, i) \in Seq(S) /\ Lacks(RemoveAt(s, i), s, i)
<1> DEFINE before == SubSeq(s, 1, i - 1)
           after == SubSeq(s, i + 1, Len(s))
<1>1. Len(s) \in Nat /\ \A k \in 1..Len(s) : s[k] \in S
  BY LenProperties, ElementOfSeq
<1>2. before \in Seq(S) /\ Len(before) = i - 1 /\ \A k \in 1..(i - 1) : before[k] = s[k]
  <2>1. \A k \in 1..(i - 1) : s[k] \in S
    BY <1>1
  <2>2. /\ before \in Seq(S)
        /\ Len(before) = IF 1 <= i - 1 THEN (i - 1) - 1 + 1 ELSE 0
        /\ \A k \in 1..((i - 1) - 1 + 1) : before[k] = s[1 + k - 1]
    BY <1>1, <2>1, SubSeqProperties
  <2>3. (i - 1) - 1 + 1 = i - 1 /\ (~(1 <= i - 1) => i - 1 = 0) /\ \A k \in 1..(i - 1) : 1 + k - 1 = k
    BY <1>1
  <2>4. QED BY <2>2, <2>3
<1>3. after \in Seq(S) /\ Len(after) = Len(s) - i /\ \A k \in 1..(Len(s) - i) : after[k] = s[i + k]
  <2>1. \A k \in (i + 1)..Len(s) : s[k] \in S
    BY <1>1
  <2>2. /\ after \in Seq(S)
        /\ Len(after) = IF i + 1 <= Len(s) THEN Len(s) - (i + 1) + 1 ELSE 0
        /\ \A k \in 1..(Len(s) - (i + 1) + 1) : after[k] = s[(i + 1) + k - 1]
    BY <1>1, <2>1, SubSeqProperties
  <2>3. Len(s) - (i + 1) + 1 = Len(s) - i /\ (~(i + 1 <= Len(s)) => Len(s) - i = 0)
        /\ \A k \in 1..(Len(s) - i) : (i + 1) + k - 1 = i + k
    BY <1>1
  <2>4. QED BY <2>2, <2>3
<1> HIDE DEF before, after
<1>4. /\ before \o after \in Seq(S) /\ Len(before \o after) = Len(before) + Len(after)
      /\ \A n \in 1..(Len(before) + Len(after)) :
            (before \o after)[n] = IF n <= Len(before) THEN before[n] ELSE after[n - Len(before)]
  BY <1>2, <1>3, ConcatProperties
<1>5. RemoveAt(s, i) = before \o after
  BY DEF RemoveAt, before, after
<1>6. Len(before) + Len(after) = Len(s) - 1
  BY <1>1, <1>2, <1>3
<1>7. ASSUME NEW n \in 1..(Len(s) - 1) PROVE (before \o after)[n] = s[IF n < i THEN n ELSE n + 1]
  <2>1. (before \o after)[n] = IF n <= i - 1 THEN before[n] ELSE after[n - (i - 1)]
    BY <1>2, <1>4, <1>6
  <2>2. CASE n < i
    BY <1>1, <1>2, <2>1, <2>2
  <2>3. CASE ~(n < i)
    <3>1. n - (i - 1) \in 1..(Len(s) - i) /\ i + (n - (i - 1)) = n + 1
      BY <1>1, <2>3
    <3>2. (before \o after)[n] = after[n - (i - 1)]
      BY <1>1, <2>1, <2>3
    <3>3. QED BY <1>3, <2>3, <3>1, <3>2
  <2>4. QED BY <2>2, <2>3
<1>8. QED BY <1>4, <1>5, <1>6, <1>7 DEF Lacks

Subscribing(c) == [op |-> "subscribe", client |-> c]
Unsubscribing == [op |-> "unsubscribe"]
Replies(k) == {[kind |-> kind, of |-> k] : kind \in {"ack", "error"}}

\* How often a command is on the connection, or its reply on its way back.
OnTheWay(k) == Count(commands, {k}) + Count(inbox, Replies(k))

Streaming == commands \in Seq(Command) /\ inbox \in Seq(Arrival)

\* A reply belongs to one command.
LEMMA RepliesApart ==
    ASSUME NEW a \in Arrival, a.kind \in {"ack", "error"}
    PROVE  a.of \in Command /\ \A k \in Command : a \in Replies(k) <=> k = a.of
BY DEF Arrival, Replies

\* A message is no reply.
LEMMA MessageApart ==
    ASSUME NEW a \in Arrival, a.kind = "message", NEW k
    PROVE  a.of \in Message /\ a \notin Replies(k)
BY DEF Arrival, Replies

\* The count of a command does not say of which; it is a number.
LEMMA OnTheWayType ==
    ASSUME Streaming, NEW k
    PROVE  OnTheWay(k) \in Nat /\ Count(commands, {k}) \in Nat /\ Count(inbox, Replies(k)) \in Nat
BY CountType DEF Streaming, OnTheWay

\* A command is sent.
LEMMA SentOnTheWay ==
    ASSUME Streaming, NEW j \in Command, commands' = Append(commands, j), inbox' = inbox
    PROVE  /\ Streaming'
           /\ \A k \in Command : OnTheWay(k)' = OnTheWay(k) + IF k = j THEN 1 ELSE 0
<1>1. commands' \in Seq(Command)
  BY AppendProperties DEF Streaming
<1>2. ASSUME NEW k \in Command PROVE OnTheWay(k)' = OnTheWay(k) + IF k = j THEN 1 ELSE 0
  <2>1. Count(commands', {k}) = Count(commands, {k}) + IF j \in {k} THEN 1 ELSE 0
    BY CountAppend DEF Streaming
  <2>2. OnTheWay(k)' = Count(commands', {k}) + Count(inbox, Replies(k))
    BY DEF OnTheWay, Replies
  <2>3. QED BY <2>1, <2>2, OnTheWayType DEF OnTheWay
<1>3. QED BY <1>1, <1>2 DEF Streaming

\* Redis executes or refuses a command: the reply takes its place.
LEMMA AnsweredOnTheWay ==
    ASSUME Streaming, commands # <<>>, commands' = Tail(commands),
           NEW kind \in {"ack", "error"}, inbox' = Append(inbox, [kind |-> kind, of |-> Head(commands)])
    PROVE  /\ Streaming'
           /\ \A k \in Command : OnTheWay(k)' = OnTheWay(k)
<1> DEFINE reply == [kind |-> kind, of |-> Head(commands)]
<1>1. Tail(commands) \in Seq(Command) /\ Head(commands) \in Command
  BY TailLacks DEF Streaming
<1>2. reply \in Arrival
  BY <1>1 DEF Arrival
<1>3. Streaming'
  BY <1>1, <1>2, AppendProperties DEF Streaming
<1>4. ASSUME NEW k \in Command PROVE OnTheWay(k)' = OnTheWay(k)
  <2>1. Count(commands, {k}) = Count(Tail(commands), {k}) + IF Head(commands) \in {k} THEN 1 ELSE 0
    BY CountTail DEF Streaming
  <2>2. Count(inbox', Replies(k)) = Count(inbox, Replies(k)) + IF reply \in Replies(k) THEN 1 ELSE 0
    BY <1>2, CountAppend DEF Streaming
  <2>3. reply \in Replies(k) <=> k = Head(commands)
    BY <1>2, RepliesApart
  <2>4. Count(Tail(commands), {k}) \in Nat /\ Count(inbox, Replies(k)) \in Nat
    BY <1>1, CountType DEF Streaming
  <2>5. OnTheWay(k)' = Count(Tail(commands), {k}) + Count(inbox', Replies(k))
    BY DEF OnTheWay, Replies
  <2> HIDE DEF reply
  <2>6. QED BY <2>1, <2>2, <2>3, <2>4, <2>5 DEF OnTheWay
<1>5. QED BY <1>3, <1>4

\* A reply arrives.
LEMMA ArrivedOnTheWay ==
    ASSUME Streaming, commands' = commands, NEW kind \in {"ack", "error"}, NEW op, ArrivesFor(kind, op)
    PROVE  /\ Streaming' /\ Head(inbox).of \in Command /\ Head(inbox).of.op = op
           /\ OnTheWay(Head(inbox).of) > 0
           /\ \A k \in Command : OnTheWay(k)' = OnTheWay(k) - IF k = Head(inbox).of THEN 1 ELSE 0
<1>1. inbox # <<>> /\ inbox' = Tail(inbox) /\ Head(inbox).kind = kind /\ Head(inbox).of.op = op
  BY DEF ArrivesFor
<1>2. Tail(inbox) \in Seq(Arrival) /\ Head(inbox) \in Arrival
  BY <1>1, TailLacks DEF Streaming
<1>3. Head(inbox).of \in Command /\ \A k \in Command : Head(inbox) \in Replies(k) <=> k = Head(inbox).of
  BY <1>1, <1>2, RepliesApart
<1>4. ASSUME NEW k \in Command
      PROVE  /\ OnTheWay(k)' = OnTheWay(k) - IF k = Head(inbox).of THEN 1 ELSE 0
             /\ k = Head(inbox).of => OnTheWay(k) > 0
  <2>1. Count(inbox, Replies(k)) = Count(Tail(inbox), Replies(k)) + IF Head(inbox) \in Replies(k) THEN 1 ELSE 0
    BY <1>1, CountTail DEF Streaming
  <2>2. Count(Tail(inbox), Replies(k)) \in Nat /\ Count(commands, {k}) \in Nat
    BY <1>2, CountType DEF Streaming
  <2>3. OnTheWay(k)' = Count(commands, {k}) + Count(Tail(inbox), Replies(k))
    BY <1>1 DEF OnTheWay, Replies
  <2>4. QED BY <1>3, <2>1, <2>2, <2>3 DEF OnTheWay
<1>5. QED BY <1>1, <1>2, <1>3, <1>4 DEF Streaming

\* A message is pushed.
LEMMA PushedOnTheWay ==
    ASSUME Streaming, commands' = commands, NEW m \in Message,
           inbox' = Append(inbox, [kind |-> "message", of |-> m])
    PROVE  /\ Streaming'
           /\ \A k \in Command : OnTheWay(k)' = OnTheWay(k)
<1> DEFINE pushed == [kind |-> "message", of |-> m]
<1>1. pushed \in Arrival /\ pushed.kind = "message"
  BY DEF Arrival
<1>2. Streaming'
  BY <1>1, AppendProperties DEF Streaming
<1>3. ASSUME NEW k \in Command PROVE OnTheWay(k)' = OnTheWay(k)
  <2>1. Count(inbox', Replies(k)) = Count(inbox, Replies(k)) + IF pushed \in Replies(k) THEN 1 ELSE 0
    BY <1>1, CountAppend DEF Streaming
  <2>2. pushed \notin Replies(k)
    BY <1>1, MessageApart
  <2>3. OnTheWay(k)' = Count(commands, {k}) + Count(inbox', Replies(k))
    BY DEF OnTheWay, Replies
  <2> HIDE DEF pushed
  <2>4. QED BY <2>1, <2>2, <2>3, OnTheWayType DEF OnTheWay
<1>4. QED BY <1>2, <1>3

\* A message may be taken out, ahead of replies that are part of the same read,
\* and an UNSUBSCRIBE may be sent.
LEMMA HandledOnTheWay ==
    ASSUME Streaming,
           inbox' = inbox \/ \E n \in NextMessage : inbox' = RemoveAt(inbox, n),
           commands' \in {commands, Append(commands, Unsubscribing)}
    PROVE  /\ Streaming' /\ Append(commands, Unsubscribing) # commands
           /\ \A k \in Command :
                 OnTheWay(k)' = OnTheWay(k) + IF commands' # commands /\ k = Unsubscribing THEN 1 ELSE 0
<1>1. Unsubscribing \in Command
  BY DEF Unsubscribing, Command
<1>2. Append(commands, Unsubscribing) \in Seq(Command) /\ Append(commands, Unsubscribing) # commands
  <2>1. Len(commands) \in Nat /\ Len(Append(commands, Unsubscribing)) = Len(commands) + 1
    BY <1>1, LenProperties, AppendProperties DEF Streaming
  <2>2. Append(commands, Unsubscribing) \in Seq(Command)
    BY <1>1, AppendProperties DEF Streaming
  <2>3. QED BY <2>1, <2>2
<1>3. inbox' \in Seq(Arrival) /\ \A k \in Command : Count(inbox', Replies(k)) = Count(inbox, Replies(k))
  <2>1. ASSUME NEW n \in NextMessage, inbox' = RemoveAt(inbox, n), NEW k \in Command
        PROVE  inbox' \in Seq(Arrival) /\ Count(inbox', Replies(k)) = Count(inbox, Replies(k))
    <3>1. n \in 1..Len(inbox) /\ inbox[n].kind = "message" /\ inbox[n] \in Arrival
      BY ElementOfSeq DEF NextMessage, Streaming
    <3>2. inbox' \in Seq(Arrival) /\ Lacks(inbox', inbox, n)
      BY <2>1, <3>1, RemoveLacks DEF Streaming
    <3>3. inbox[n] \notin Replies(k)
      BY <3>1, MessageApart
    <3>4. Count(inbox, Replies(k)) = Count(inbox', Replies(k)) + IF inbox[n] \in Replies(k) THEN 1 ELSE 0
      BY <3>2, CountLacks DEF Streaming
    <3>5. Count(inbox', Replies(k)) \in Nat
      BY <3>2, CountType
    <3>6. QED BY <3>2, <3>3, <3>4, <3>5
  <2>2. QED BY <1>1, <2>1 DEF Streaming
<1>4. ASSUME NEW k \in Command
      PROVE  Count(commands', {k}) = Count(commands, {k})
                + IF commands' # commands /\ k = Unsubscribing THEN 1 ELSE 0
  <2>1. CASE commands' = commands
    BY <2>1, OnTheWayType
  <2>2. CASE commands' = Append(commands, Unsubscribing)
    <3>1. Count(Append(commands, Unsubscribing), {k})
             = Count(commands, {k}) + IF Unsubscribing \in {k} THEN 1 ELSE 0
      BY <1>1, CountAppend DEF Streaming
    <3>2. Unsubscribing \in {k} <=> k = Unsubscribing
      OBVIOUS
    <3>3. QED BY <1>2, <2>2, <3>1, <3>2
  <2>3. QED BY <2>1, <2>2
<1>5. ASSUME NEW k \in Command
      PROVE  OnTheWay(k)' = OnTheWay(k) + IF commands' # commands /\ k = Unsubscribing THEN 1 ELSE 0
  <2>1. OnTheWay(k)' = Count(commands', {k}) + Count(inbox', Replies(k))
    BY DEF OnTheWay, Replies
  <2>2. QED BY <1>3, <1>4, <2>1, OnTheWayType DEF OnTheWay
<1>6. QED BY <1>2, <1>3, <1>5 DEF Streaming

-----------------------------------------------------------------------------
(* Streams: the routes and the clients they register. *)

ConnectionInv ==
    /\ Streaming
    /\ local \in SetObject \cup {None} /\ members \in [SetObject -> SUBSET Client]
    /\ DOMAIN life = Client /\ DOMAIN open = Client /\ DOMAIN stream = Client
    /\ owed \in Seq(Client \cup {None})

\* Each UNSUBSCRIBE has one who awaits it, and that one does nothing else.
OwedInv ==
    /\ OnTheWay(Unsubscribing) = Len(owed)
    /\ \A n \in 1..Len(owed) : owed[n] # None => stream[owed[n]] \in {"leaving", "ended"}

\* A client's route, its subscription, and its SUBSCRIBE: sent once and under
\* way exactly while the client is joining.
RouteInv(c) ==
    /\ OnTheWay(Subscribing(c)) = IF life[c] \in {"joining", "quitting"} THEN 1 ELSE 0
    /\ life[c] = "new" => stream[c] \in {"idle", "handling", "ended"} /\ ~Registered(c)
    /\ stream[c] \in {"idle", "handling"} => life[c] = "new"
    /\ life[c] = "joining" => stream[c] = "waiting"
    /\ life[c] = "quitting" => c \in early /\ ~open[c] /\ stream[c] \in {"leaving", "ended"}
    /\ c \in Sse /\ stream[c] = "waiting" => life[c] \in {"joining", "joined"}
    /\ stream[c] = "aborted" => life[c] = "joined"
    /\ stream[c] \in {"leaving", "ended"} /\ Registered(c) => c \in early /\ ~open[c]

StreamInv == ConnectionInv /\ OwedInv /\ \A c \in Client : RouteInv(c)

\* Two commands are not the same.
LEMMA CommandsApart ==
    /\ Unsubscribing \in Command
    /\ \A c \in Client : Subscribing(c) \in Command /\ Subscribing(c) # Unsubscribing
    /\ \A c, d \in Client : Subscribing(c) = Subscribing(d) => c = d
BY DEF Subscribing, Unsubscribing, Command

\* Nothing is subscribed and nobody is connected.
LEMMA StreamInitial == StreamInit => StreamInv
<1> SUFFICES ASSUME StreamInit PROVE StreamInv
  OBVIOUS
<1>1. /\ commands = <<>> /\ inbox = <<>> /\ owed = <<>> /\ local = None
      /\ members = [s \in SetObject |-> {}] /\ life = [c \in Client |-> "new"]
      /\ open = [c \in Client |-> TRUE] /\ stream = [c \in Client |-> "idle"]
  BY DEF StreamInit, Init
<1>2. ConnectionInv
  BY <1>1, EmptySeq DEF ConnectionInv, Streaming
<1>3. \A k : OnTheWay(k) = 0
  BY <1>1, CountEmpty DEF OnTheWay
<1>4. OwedInv
  BY <1>1, <1>3, EmptySeq DEF OwedInv
<1>5. \A c \in Client : RouteInv(c)
  BY <1>1, <1>3 DEF RouteInv, Registered
<1>6. QED BY <1>2, <1>4, <1>5 DEF StreamInv

\* A client whose route and subscription stay: it may be disconnected or dropped.
LEMMA RouteKept ==
    ASSUME NEW c \in Client, RouteInv(c), life'[c] = life[c], stream'[c] = stream[c],
           early \subseteq early', open'[c] => open[c],
           OnTheWay(Subscribing(c))' = OnTheWay(Subscribing(c)),
           Registered(c)' => Registered(c)
    PROVE  RouteInv(c)'
<1>1. OnTheWay(Subscribing(c))' = IF life'[c] \in {"joining", "quitting"} THEN 1 ELSE 0
  BY DEF RouteInv
<1>2. QED BY <1>1 DEF RouteInv, Subscribing

\* What is owed stays owed while those who await it stay where they are.
LEMMA OwedKept ==
    ASSUME ConnectionInv, OwedInv, owed' = owed, OnTheWay(Unsubscribing)' = OnTheWay(Unsubscribing),
           \A c \in Client : stream[c] \in {"leaving", "ended"} => stream'[c] \in {"leaving", "ended"}
    PROVE  OwedInv'
<1>1. \A n \in 1..Len(owed) : owed[n] # None => owed[n] \in Client
  BY ElementOfSeq DEF ConnectionInv
<1>2. OnTheWay(Unsubscribing)' = Len(owed')
  BY DEF OwedInv
<1>3. QED BY <1>1, <1>2 DEF OwedInv, Unsubscribing

\* A step that may send an UNSUBSCRIBE, and who awaits its reply.
LEMMA OweIs ==
    ASSUME ConnectionInv, OwedInv, NEW who \in Client \cup {None}, Owe(who),
           inbox' = inbox \/ \E n \in NextMessage : inbox' = RemoveAt(inbox, n),
           commands' \in {commands, Append(commands, Unsubscribing)},
           \A c \in Client : stream[c] \in {"leaving", "ended"} => stream'[c] \in {"leaving", "ended"},
           who # None /\ commands' # commands => stream'[who] \in {"leaving", "ended"}
    PROVE  /\ Streaming' /\ owed' \in Seq(Client \cup {None}) /\ OwedInv'
           /\ owed' = owed <=> commands' = commands
           /\ \A c \in Client : OnTheWay(Subscribing(c))' = OnTheWay(Subscribing(c))
<1>1. /\ Streaming' /\ Append(commands, Unsubscribing) # commands
      /\ \A k \in Command :
            OnTheWay(k)' = OnTheWay(k) + IF commands' # commands /\ k = Unsubscribing THEN 1 ELSE 0
  BY HandledOnTheWay DEF ConnectionInv
<1>2. \A k : OnTheWay(k) \in Nat
  BY OnTheWayType DEF ConnectionInv
<1>3. ASSUME NEW c \in Client PROVE OnTheWay(Subscribing(c))' = OnTheWay(Subscribing(c))
  <2>1. Subscribing(c) \in Command /\ Subscribing(c) # Unsubscribing
    BY CommandsApart
  <2>2. OnTheWay(Subscribing(c))' = OnTheWay(Subscribing(c)) + 0
    BY <1>1, <2>1 DEF Subscribing
  <2>3. QED BY <1>2, <2>2
<1>4. owed \in Seq(Client \cup {None}) /\ Len(owed) \in Nat
  BY LenProperties DEF ConnectionInv
<1>5. CASE commands' = commands
  <2>1. owed' = owed
    BY <1>1, <1>5 DEF Owe, Unsubscribing
  <2>2. OnTheWay(Unsubscribing)' = OnTheWay(Unsubscribing)
    <3>1. OnTheWay(Unsubscribing)' = OnTheWay(Unsubscribing) + 0
      BY <1>1, <1>5, CommandsApart DEF Unsubscribing
    <3>2. QED BY <1>2, <3>1
  <2>3. QED BY <1>1, <1>3, <1>4, <1>5, <2>1, <2>2, OwedKept
<1>6. CASE commands' # commands
  <2>1. owed' = Append(owed, who)
    BY <1>6 DEF Owe, Unsubscribing
  <2>2. /\ owed' \in Seq(Client \cup {None}) /\ Len(owed') = Len(owed) + 1
        /\ owed'[Len(owed) + 1] = who /\ \A n \in 1..Len(owed) : owed'[n] = owed[n]
    BY <1>4, <2>1, AppendProperties
  <2>3. owed' # owed
    BY <1>4, <2>2
  <2>4. OnTheWay(Unsubscribing)' = Len(owed')
    <3>1. OnTheWay(Unsubscribing)' = OnTheWay(Unsubscribing) + 1
      BY <1>1, <1>6, CommandsApart DEF Unsubscribing
    <3>2. QED BY <2>2, <3>1 DEF OwedInv
  <2>5. ASSUME NEW n \in 1..Len(owed'), owed'[n] # None PROVE stream'[owed'[n]] \in {"leaving", "ended"}
    <3>1. CASE n = Len(owed) + 1
      BY <1>6, <2>2, <2>5, <3>1
    <3>2. CASE n # Len(owed) + 1
      <4>1. n \in 1..Len(owed) /\ owed'[n] = owed[n]
        BY <1>4, <2>2, <3>2
      <4>2. owed[n] \in Client
        BY <1>4, <2>5, <4>1, ElementOfSeq
      <4>3. QED BY <2>5, <4>1, <4>2 DEF OwedInv
    <3>3. QED BY <3>1, <3>2
  <2>6. OwedInv'
    BY <2>4, <2>5 DEF OwedInv, Unsubscribing
  <2>7. QED BY <1>1, <1>3, <1>6, <2>2, <2>3, <2>6
<1>7. QED BY <1>5, <1>6

\* A step of handleMessage drops clients, the entry with the last of them.
LEMMA DeliverIs ==
    ASSUME ConnectionInv, NEW m, NEW h, Deliver(m, h)
    PROVE  /\ members' \in [SetObject -> SUBSET Client]
           /\ \A s \in SetObject : members'[s] \subseteq members[s]
           /\ local' \in {local, None}
           /\ commands' \in {commands, Append(commands, Unsubscribing)}
<1>1. CASE UNCHANGED <<local, members, commands>>
  BY <1>1 DEF ConnectionInv
<1>2. CASE \E dead, left : members' = [members EXCEPT ![h.set] = @ \ dead] /\ Release(left)
  <2>1. PICK dead, left : members' = [members EXCEPT ![h.set] = @ \ dead] /\ Release(left)
    BY <1>2
  <2>2. local' \in {local, None} /\ commands' \in {commands, Append(commands, Unsubscribing)}
    BY <2>1 DEF Release, Unsubscribing
  <2>3. members \in [SetObject -> SUBSET Client]
    BY DEF ConnectionInv
  <2>4. QED BY <2>1, <2>2, <2>3
<1>3. QED BY <1>1, <1>2 DEF Deliver

\* A message that arrives, or a send that settles.
LEMMA EventStream ==
    ASSUME StreamInv, Owe(None), UNCHANGED <<life, open, stream, early>>,
           inbox' = inbox \/ \E n \in NextMessage : inbox' = RemoveAt(inbox, n),
           commands' \in {commands, Append(commands, Unsubscribing)},
           members' \in [SetObject -> SUBSET Client],
           \A s \in SetObject : members'[s] \subseteq members[s],
           local' \in {local, None}
    PROVE  StreamInv'
<1>1. ConnectionInv /\ OwedInv /\ \A c \in Client : RouteInv(c)
  BY DEF StreamInv
<1>2. /\ Streaming' /\ owed' \in Seq(Client \cup {None}) /\ OwedInv'
      /\ \A c \in Client : OnTheWay(Subscribing(c))' = OnTheWay(Subscribing(c))
  BY <1>1, OweIs
<1>3. ConnectionInv'
  BY <1>1, <1>2 DEF ConnectionInv
<1>4. \A c \in Client : Registered(c)' => Registered(c)
  BY <1>1 DEF Registered, ConnectionInv
<1>5. \A c \in Client : RouteInv(c)'
  BY <1>1, <1>2, <1>4, RouteKept
<1>6. QED BY <1>2, <1>3, <1>5 DEF StreamInv

\* The handling of what comes from Redis moves no route.
LEMMA HandlerStream == ASSUME StreamInv, EventArrives \/ \E m \in Message : EventSent(m) PROVE StreamInv'
<1>1. ConnectionInv
  BY DEF StreamInv
<1>2. CASE EventArrives
  <2>1. Owe(None) /\ UNCHANGED <<life, open, stream, early>>
    BY <1>2 DEF EventArrives, MessageArrives
  <2>2. PICK n \in NextMessage :
          /\ inbox' = RemoveAt(inbox, n)
          /\ UNCHANGED <<local, members, commands>> \/ \E m, h : Deliver(m, h)
    BY <1>2 DEF EventArrives, MessageArrives
  <2>3. CASE UNCHANGED <<local, members, commands>>
    BY <1>1, <2>1, <2>2, <2>3, EventStream DEF ConnectionInv
  <2>4. CASE \E m, h : Deliver(m, h)
    BY <1>1, <2>1, <2>2, <2>4, DeliverIs, EventStream
  <2>5. QED BY <2>2, <2>3, <2>4
<1>3. CASE \E m \in Message : EventSent(m)
  <2>1. Owe(None) /\ UNCHANGED <<life, open, stream, early, inbox>> /\ \E m, h : Deliver(m, h)
    BY <1>3 DEF EventSent, SendSettles
  <2>2. QED BY <1>1, <2>1, DeliverIs, EventStream
<1>4. QED BY <1>2, <1>3

\* Redis executes, refuses, pushes.
LEMMA RedisStream == ASSUME StreamInv, RedisActs PROVE StreamInv'
<1>1. ConnectionInv /\ OwedInv /\ \A c \in Client : RouteInv(c)
  BY DEF StreamInv
<1>2. UNCHANGED <<local, members, life, open, stream, owed, early>>
  BY DEF RedisActs, Execute, RefuseCommand, Push
<1>3. Streaming' /\ \A k \in Command : OnTheWay(k)' = OnTheWay(k)
  <2>1. CASE Execute \/ RefuseCommand
    BY <1>1, <2>1, AnsweredOnTheWay DEF Execute, RefuseCommand, ConnectionInv
  <2>2. CASE \E m \in Message : Push(m)
    BY <1>1, <2>2, PushedOnTheWay DEF Push, ConnectionInv
  <2>3. QED BY <2>1, <2>2 DEF RedisActs
<1>4. ConnectionInv'
  BY <1>1, <1>2, <1>3 DEF ConnectionInv
<1>5. OwedInv'
  <2>1. OnTheWay(Unsubscribing)' = OnTheWay(Unsubscribing)
    BY <1>3, CommandsApart DEF Unsubscribing
  <2>2. QED BY <1>1, <1>2, <2>1, OwedKept
<1>6. ASSUME NEW c \in Client PROVE RouteInv(c)'
  <2>1. OnTheWay(Subscribing(c))' = OnTheWay(Subscribing(c))
    BY <1>3, CommandsApart DEF Subscribing
  <2>2. Registered(c)' => Registered(c)
    BY <1>2 DEF Registered
  <2>3. QED BY <1>1, <1>2, <2>1, <2>2, RouteKept
<1>7. QED BY <1>4, <1>5, <1>6 DEF StreamInv

\* A route that steps on its own: opened, failed, or told of the abort.
LEMMA RouteStream ==
    ASSUME StreamInv, NEW c \in Client, Open(c) \/ HandlerThrows(c) \/ Abort(c)
    PROVE  StreamInv'
<1>1. ConnectionInv /\ OwedInv /\ \A d \in Client : RouteInv(d)
  BY DEF StreamInv
<1>2. /\ UNCHANGED <<local, members, life, commands, inbox, owed, early>>
      /\ \A d \in Client : open'[d] => open[d]
      /\ DOMAIN open' = Client /\ DOMAIN stream' = Client
      /\ \A d \in Client : d # c => stream'[d] = stream[d]
      /\ stream[c] \in {"idle", "handling", "waiting"}
      /\ \/ stream'[c] = stream[c]
         \/ stream[c] \in {"idle", "handling"} /\ stream'[c] \in {"handling", "ended"}
         \/ life[c] = "joined" /\ stream'[c] = "aborted"
  BY <1>1 DEF Open, HandlerThrows, Abort, Disconnect, Becomes, vars, ConnectionInv
<1>3. /\ \A d \in Client : OnTheWay(Subscribing(d))' = OnTheWay(Subscribing(d))
      /\ OnTheWay(Unsubscribing)' = OnTheWay(Unsubscribing)
      /\ \A d \in Client : Registered(d)' => Registered(d)
  BY <1>2 DEF OnTheWay, Subscribing, Unsubscribing, Replies, Registered
<1>4. ConnectionInv'
  BY <1>1, <1>2 DEF ConnectionInv, Streaming
<1>5. OwedInv'
  BY <1>1, <1>2, <1>3, OwedKept
<1>6. \A d \in Client : d # c => RouteInv(d)'
  BY <1>1, <1>2, <1>3, RouteKept
<1>7. RouteInv(c)'
  <2>1. CASE stream'[c] = stream[c]
    BY <1>1, <1>2, <1>3, <2>1, RouteKept
  <2>2. OnTheWay(Subscribing(c))' = IF life'[c] \in {"joining", "quitting"} THEN 1 ELSE 0
    BY <1>1, <1>2, <1>3 DEF RouteInv
  <2>3. CASE stream[c] \in {"idle", "handling"} /\ stream'[c] \in {"handling", "ended"}
    BY <1>1, <1>2, <1>3, <2>2, <2>3 DEF RouteInv, Subscribing
  <2>4. CASE life[c] = "joined" /\ stream'[c] = "aborted"
    BY <1>1, <1>2, <1>3, <2>2, <2>4 DEF RouteInv, Subscribing
  <2>5. QED BY <1>2, <2>1, <2>3, <2>4
<1>8. QED BY <1>4, <1>5, <1>6, <1>7 DEF StreamInv

\* The route subscribes: the first client asks Redis, another one is added.
LEMMA JoinStream == ASSUME StreamInv, NEW c \in Client, Join(c) PROVE StreamInv'
<1>1. ConnectionInv /\ OwedInv /\ \A d \in Client : RouteInv(d)
  BY DEF StreamInv
<1>2. /\ UNCHANGED <<open, inbox, owed, early>> /\ life[c] = "new" /\ stream[c] = "handling"
      /\ DOMAIN stream' = Client /\ stream'[c] = "waiting"
      /\ \A d \in Client : d # c => stream'[d] = stream[d]
  BY <1>1 DEF Join, SubscribeFirst, SubscribeNext, Becomes, ConnectionInv
<1>3. OnTheWay(Subscribing(c)) = 0
  BY <1>1, <1>2 DEF RouteInv
<1>4. CASE SubscribeFirst(c)
  <2>1. /\ life' = [life EXCEPT ![c] = "joining"] /\ commands' = Append(commands, Subscribing(c))
        /\ Free # {} /\ local' = (CHOOSE s \in Free : TRUE) /\ members' = [members EXCEPT ![local'] = {}]
    BY <1>4 DEF SubscribeFirst, Subscribing
  <2>2. local' \in SetObject
    <3>1. local' \in Free
      BY <2>1
    <3>2. QED BY <3>1 DEF Free
  <2>3. members' \in [SetObject -> SUBSET Client] /\ members'[local'] = {}
    BY <1>1, <2>1, <2>2 DEF ConnectionInv
  <2>4. \A d \in Client : ~Registered(d)'
    BY <2>3 DEF Registered
  <2>5. Streaming' /\ \A k \in Command : OnTheWay(k)' = OnTheWay(k) + IF k = Subscribing(c) THEN 1 ELSE 0
    BY <1>1, <1>2, <2>1, CommandsApart, SentOnTheWay DEF ConnectionInv
  <2>6. \A k : OnTheWay(k) \in Nat
    BY <1>1, OnTheWayType DEF ConnectionInv
  <2>7. DOMAIN life' = Client /\ life'[c] = "joining" /\ \A d \in Client : d # c => life'[d] = life[d]
    BY <1>1, <2>1 DEF ConnectionInv
  <2>8. ConnectionInv'
    BY <1>1, <1>2, <2>2, <2>3, <2>5, <2>7 DEF ConnectionInv
  <2>9. OwedInv'
    <3>1. OnTheWay(Unsubscribing)' = OnTheWay(Unsubscribing) + 0
      BY <2>5, CommandsApart DEF Unsubscribing
    <3>2. QED BY <1>1, <1>2, <2>6, <3>1, OwedKept
  <2>10. ASSUME NEW d \in Client, d # c PROVE RouteInv(d)'
    <3>1. OnTheWay(Subscribing(d))' = OnTheWay(Subscribing(d)) + 0
      BY <2>5, <2>10, CommandsApart DEF Subscribing
    <3>2. QED BY <1>1, <1>2, <2>4, <2>6, <2>7, <2>10, <3>1, RouteKept
  <2>11. RouteInv(c)'
    <3>1. OnTheWay(Subscribing(c))' = 1
      <4>1. OnTheWay(Subscribing(c))' = OnTheWay(Subscribing(c)) + 1
        BY <2>5, CommandsApart DEF Subscribing
      <4>2. QED BY <1>3, <4>1
    <3>2. QED BY <1>2, <2>4, <2>7, <3>1 DEF RouteInv, Subscribing
  <2>12. QED BY <2>8, <2>9, <2>10, <2>11 DEF StreamInv
<1>5. CASE SubscribeNext(c)
  <2>1. /\ life' = [life EXCEPT ![c] = "joined"] /\ UNCHANGED <<commands, local>>
        /\ local # None /\ members' = [members EXCEPT ![local] = @ \cup {c}]
    BY <1>5 DEF SubscribeNext
  <2>2. members' \in [SetObject -> SUBSET Client] /\ \A d \in Client : d # c => (Registered(d)' => Registered(d))
    BY <1>1, <2>1 DEF ConnectionInv, Registered
  <2>3. \A k : OnTheWay(k)' = OnTheWay(k)
    BY <1>2, <2>1 DEF OnTheWay, Replies
  <2>4. DOMAIN life' = Client /\ life'[c] = "joined" /\ \A d \in Client : d # c => life'[d] = life[d]
    BY <1>1, <2>1 DEF ConnectionInv
  <2>5. ConnectionInv'
    BY <1>1, <1>2, <2>1, <2>2, <2>4 DEF ConnectionInv, Streaming
  <2>6. OwedInv'
    <3>1. OnTheWay(Unsubscribing)' = OnTheWay(Unsubscribing)
      BY <1>2, <2>1 DEF OnTheWay, Replies, Unsubscribing
    <3>2. QED BY <1>1, <1>2, <3>1, OwedKept
  <2>7. ASSUME NEW d \in Client PROVE OnTheWay(Subscribing(d))' = OnTheWay(Subscribing(d))
    BY <1>2, <2>1 DEF OnTheWay, Replies, Subscribing
  <2>8. \A d \in Client : d # c => RouteInv(d)'
    BY <1>1, <1>2, <2>2, <2>4, <2>7, RouteKept
  <2>9. RouteInv(c)'
    <3>1. OnTheWay(Subscribing(c))' = 0
      BY <1>3, <2>7
    <3>2. QED BY <1>2, <2>4, <3>1 DEF RouteInv, Subscribing
  <2>10. QED BY <2>5, <2>6, <2>8, <2>9 DEF StreamInv
<1>6. QED BY <1>4, <1>5 DEF Join

\* The route unsubscribes; a socket's may do so while its subscribe is under way.
LEMMA LeaveStream == ASSUME StreamInv, NEW c \in Client, Leave(c) PROVE StreamInv'
<1>1. ConnectionInv /\ OwedInv /\ \A d \in Client : RouteInv(d)
  BY DEF StreamInv
<1>2. /\ UNCHANGED <<open, inbox>>
      /\ stream[c] \in {"aborted", "waiting"} /\ (stream[c] = "waiting" => ~open[c])
      /\ early' = IF life[c] = "joining" THEN early \cup {c} ELSE early
      /\ life' = [life EXCEPT ![c] = IF @ = "joining" THEN "quitting" ELSE "left"]
      /\ life[c] \in {"joining", "joined", "refused", "broken"}
      /\ Owe(c) /\ stream' = [stream EXCEPT ![c] = IF owed' = owed THEN "ended" ELSE "leaving"]
  BY DEF Leave, Unsubscribe, Becomes
<1>3. /\ members' \in [SetObject -> SUBSET Client] /\ local' \in {local, None}
      /\ \A d \in Client : Registered(d)' => Registered(d)
      /\ ~Registered(c)'
      /\ commands' \in {commands, Append(commands, Unsubscribing)}
  <2>1. CASE local = None
    <3>1. UNCHANGED <<local, members, commands>>
      BY <2>1 DEF Leave, Unsubscribe
    <3>2. QED BY <1>1, <2>1, <3>1 DEF ConnectionInv, Registered
  <2>2. CASE local # None
    <3>1. /\ members' = [members EXCEPT ![local] = @ \ {c}]
          /\ Release(members[local] \ {c})
      BY <2>2 DEF Leave, Unsubscribe
    <3>2. QED BY <1>1, <2>2, <3>1 DEF ConnectionInv, Registered, Release, Unsubscribing
  <2>3. QED BY <2>1, <2>2
<1>4. /\ DOMAIN life' = Client /\ life'[c] = (IF life[c] = "joining" THEN "quitting" ELSE "left")
      /\ \A d \in Client : d # c => life'[d] = life[d] /\ stream'[d] = stream[d]
      /\ DOMAIN stream' = Client /\ stream'[c] \in {"leaving", "ended"}
  BY <1>1, <1>2 DEF ConnectionInv
<1>5. /\ Streaming' /\ owed' \in Seq(Client \cup {None}) /\ OwedInv'
      /\ \A d \in Client : OnTheWay(Subscribing(d))' = OnTheWay(Subscribing(d))
  BY <1>1, <1>2, <1>3, <1>4, OweIs
<1>6. ConnectionInv'
  BY <1>1, <1>2, <1>3, <1>4, <1>5 DEF ConnectionInv
<1>7. \A d \in Client : d # c => RouteInv(d)'
  BY <1>1, <1>2, <1>3, <1>4, <1>5, RouteKept
<1>8. RouteInv(c)'
  <2>1. OnTheWay(Subscribing(c))' = IF life'[c] \in {"joining", "quitting"} THEN 1 ELSE 0
    BY <1>1, <1>2, <1>4, <1>5 DEF RouteInv
  <2>2. life'[c] = "quitting" => c \in early' /\ ~open'[c]
    BY <1>1, <1>2, <1>4 DEF RouteInv
  <2>3. QED BY <1>2, <1>3, <1>4, <2>1, <2>2 DEF RouteInv, Subscribing
<1>9. QED BY <1>5, <1>6, <1>7, <1>8 DEF StreamInv

\* The reply to a SUBSCRIBE: one client's subscribe() resolves or rejects.
LEMMA SubscribeStream == ASSUME StreamInv, SubscribeSettled PROVE StreamInv'
<1>1. ConnectionInv /\ OwedInv /\ \A d \in Client : RouteInv(d)
  BY DEF StreamInv
<1>2. /\ UNCHANGED <<open, commands, owed, early>>
      /\ stream' = [d \in Client |-> IF d \in Sse /\ stream[d] = "waiting" /\ life'[d] \in {"refused", "broken"}
                                       THEN "ended" ELSE stream[d]]
  BY DEF SubscribeSettled, SubscribeAcked, SubscribeRefused
<1>3. /\ Streaming' /\ Head(inbox).of \in Command /\ Head(inbox).of.op = "subscribe"
      /\ OnTheWay(Head(inbox).of) > 0
      /\ \A k \in Command : OnTheWay(k)' = OnTheWay(k) - IF k = Head(inbox).of THEN 1 ELSE 0
  BY <1>1, <1>2, ArrivedOnTheWay DEF SubscribeSettled, SubscribeAcked, SubscribeRefused, ConnectionInv
<1>4. PICK c \in Client : Head(inbox).of = Subscribing(c) /\ Head(inbox).of.client = c
  BY <1>3 DEF Command, Subscribing
<1>5. life[c] \in {"joining", "quitting"} /\ OnTheWay(Subscribing(c)) = 1
  BY <1>1, <1>3, <1>4 DEF RouteInv
<1>6. \E at \in {"left", "broken", "joined", "refused"} :
         /\ life' = [life EXCEPT ![c] = at]
         /\ life[c] = "quitting" <=> at = "left"
         /\ at \in {"broken", "refused"} => local' = None
         /\ local' \in {local, None}
         /\ members' = members \/ members' = [members EXCEPT ![local] = @ \cup {c}]
  BY <1>4, <1>5 DEF SubscribeSettled, SubscribeAcked, SubscribeRefused
<1>7. PICK at \in {"left", "broken", "joined", "refused"} :
         /\ life' = [life EXCEPT ![c] = at]
         /\ life[c] = "quitting" <=> at = "left"
         /\ at \in {"broken", "refused"} => local' = None
         /\ local' \in {local, None}
         /\ members' = members \/ members' = [members EXCEPT ![local] = @ \cup {c}]
  BY <1>6
<1>8. /\ members' \in [SetObject -> SUBSET Client]
      /\ \A d \in Client : d # c => (Registered(d)' => Registered(d))
  BY <1>1, <1>4, <1>7 DEF ConnectionInv, Registered
<1>9. DOMAIN life' = Client /\ life'[c] = at /\ \A d \in Client : d # c => life'[d] = life[d]
  BY <1>1, <1>4, <1>7 DEF ConnectionInv
<1>10. /\ DOMAIN stream' = Client /\ \A d \in Client : d # c => stream'[d] = stream[d]
       /\ \A d \in Client : stream[d] \in {"leaving", "ended"} => stream'[d] \in {"leaving", "ended"}
  BY <1>1, <1>2, <1>9 DEF RouteInv
<1>11. ConnectionInv'
  BY <1>1, <1>2, <1>3, <1>7, <1>8, <1>9, <1>10 DEF ConnectionInv
<1>12. \A k : OnTheWay(k) \in Nat
  BY <1>1, OnTheWayType DEF ConnectionInv
<1>13. OwedInv'
  <2>1. OnTheWay(Unsubscribing)' = OnTheWay(Unsubscribing) - 0
    BY <1>3, <1>4, CommandsApart DEF Unsubscribing
  <2>2. QED BY <1>1, <1>2, <1>10, <1>12, <2>1, OwedKept
<1>14. ASSUME NEW d \in Client, d # c PROVE RouteInv(d)'
  <2>1. OnTheWay(Subscribing(d))' = OnTheWay(Subscribing(d)) - 0
    BY <1>3, <1>4, <1>14, CommandsApart DEF Subscribing
  <2>2. QED BY <1>1, <1>2, <1>8, <1>9, <1>10, <1>12, <1>14, <2>1, RouteKept
<1>15. RouteInv(c)'
  <2>1. OnTheWay(Subscribing(c))' = 0
    <3>1. OnTheWay(Subscribing(c))' = OnTheWay(Subscribing(c)) - 1
      BY <1>3, <1>4, CommandsApart DEF Subscribing
    <3>2. QED BY <1>5, <3>1
  <2>2. CASE life[c] = "quitting"
    <3>1. c \in early' /\ ~open'[c] /\ stream'[c] \in {"leaving", "ended"} /\ life'[c] = "left"
      BY <1>1, <1>2, <1>4, <1>7, <1>9, <1>10, <2>2 DEF RouteInv
    <3>2. QED BY <2>1, <3>1 DEF RouteInv, Subscribing
  <2>3. CASE life[c] = "joining"
    <3>1. stream[c] = "waiting" /\ at \in {"broken", "joined", "refused"}
      BY <1>1, <1>4, <1>7, <2>3 DEF RouteInv
    <3>2. stream'[c] = IF c \in Sse /\ at \in {"refused", "broken"} THEN "ended" ELSE "waiting"
      BY <1>2, <1>4, <1>9, <3>1
    <3>3. at \in {"refused", "broken"} => ~Registered(c)'
      BY <1>7 DEF Registered
    <3>4. QED BY <1>9, <2>1, <3>1, <3>2, <3>3 DEF RouteInv, Subscribing
  <2>4. QED BY <1>5, <2>2, <2>3
<1>16. QED BY <1>11, <1>13, <1>14, <1>15 DEF StreamInv

\* The reply to an UNSUBSCRIBE: the one who awaits it is the first that does.
LEMMA UnsubscribeStream == ASSUME StreamInv, UnsubscribeSettled PROVE StreamInv'
<1>1. ConnectionInv /\ OwedInv /\ \A d \in Client : RouteInv(d)
  BY DEF StreamInv
<1>2. /\ UNCHANGED <<local, members, life, open, commands, early>> /\ owed' = Tail(owed)
      /\ stream' = IF Head(owed) = None THEN stream ELSE [stream EXCEPT ![Head(owed)] = "ended"]
  BY DEF UnsubscribeSettled, UnsubscribeReplied, Becomes
<1>3. /\ Streaming' /\ Head(inbox).of \in Command /\ Head(inbox).of.op = "unsubscribe"
      /\ OnTheWay(Head(inbox).of) > 0
      /\ \A k \in Command : OnTheWay(k)' = OnTheWay(k) - IF k = Head(inbox).of THEN 1 ELSE 0
  BY <1>1, <1>2, ArrivedOnTheWay DEF UnsubscribeSettled, UnsubscribeReplied, ConnectionInv
<1>4. Head(inbox).of = Unsubscribing
  BY <1>3 DEF Command, Unsubscribing
<1>5. /\ owed # <<>> /\ owed \in Seq(Client \cup {None})
  BY <1>1, <1>3, <1>4, EmptySeq DEF OwedInv, ConnectionInv
<1> DEFINE first == Head(owed)
           rest == Tail(owed)
<1>6. /\ rest \in Seq(Client \cup {None}) /\ Len(rest) = Len(owed) - 1 /\ Len(owed) \in Nat \ {0}
      /\ first = owed[1] /\ first \in Client \cup {None} /\ \A n \in 1..Len(rest) : rest[n] = owed[n + 1]
  BY <1>5, HeadTailProperties, EmptySeq
<1>7. owed' = rest /\ stream' = IF first = None THEN stream ELSE [stream EXCEPT ![first] = "ended"]
  BY <1>2
<1> HIDE DEF first, rest
<1>8. first # None => stream[first] \in {"leaving", "ended"}
  BY <1>1, <1>6 DEF OwedInv
<1>9. /\ DOMAIN stream' = Client
      /\ \A d \in Client : stream'[d] = stream[d] \/ (stream[d] \in {"leaving", "ended"} /\ stream'[d] = "ended")
  <2>1. CASE first = None
    BY <1>1, <1>7, <2>1 DEF ConnectionInv
  <2>2. CASE first # None
    <3>1. stream' = [stream EXCEPT ![first] = "ended"]
      BY <1>7, <2>2
    <3>2. QED BY <1>1, <1>8, <2>2, <3>1 DEF ConnectionInv
  <2>3. QED BY <2>1, <2>2
<1>10. ConnectionInv'
  BY <1>1, <1>2, <1>3, <1>6, <1>7, <1>9 DEF ConnectionInv
<1>11. \A k : OnTheWay(k) \in Nat
  BY <1>1, OnTheWayType DEF ConnectionInv
<1>12. OwedInv'
  <2>1. OnTheWay(Unsubscribing)' = OnTheWay(Unsubscribing) - 1
    BY <1>3, <1>4, CommandsApart DEF Unsubscribing
  <2>2. OnTheWay(Unsubscribing)' = Len(rest)
    BY <1>1, <1>6, <2>1 DEF OwedInv
  <2>3. ASSUME NEW n \in 1..Len(rest), rest[n] # None PROVE stream'[rest[n]] \in {"leaving", "ended"}
    <3>1. n + 1 \in 1..Len(owed) /\ rest[n] = owed[n + 1]
      BY <1>6
    <3>2. stream[rest[n]] \in {"leaving", "ended"} /\ rest[n] \in Client
      BY <1>1, <1>5, <2>3, <3>1, ElementOfSeq DEF OwedInv
    <3>3. QED BY <1>9, <3>2
  <2>4. QED BY <1>7, <2>2, <2>3 DEF OwedInv, Unsubscribing
<1>13. ASSUME NEW d \in Client PROVE RouteInv(d)'
  <2>1. OnTheWay(Subscribing(d))' = OnTheWay(Subscribing(d))
    <3>1. OnTheWay(Subscribing(d))' = OnTheWay(Subscribing(d)) - 0
      BY <1>3, <1>4, CommandsApart DEF Subscribing
    <3>2. QED BY <1>11, <3>1
  <2>2. Registered(d)' => Registered(d)
    BY <1>2 DEF Registered
  <2>3. CASE stream'[d] = stream[d]
    BY <1>1, <1>2, <2>1, <2>2, <2>3, RouteKept
  <2>4. CASE stream[d] \in {"leaving", "ended"} /\ stream'[d] = "ended"
    <3>1. OnTheWay(Subscribing(d))' = IF life'[d] \in {"joining", "quitting"} THEN 1 ELSE 0
      BY <1>1, <1>2, <2>1 DEF RouteInv
    <3>2. QED BY <1>1, <1>2, <2>2, <2>4, <3>1 DEF RouteInv, Subscribing
  <2>5. QED BY <1>9, <2>3, <2>4
<1>14. QED BY <1>10, <1>12, <1>13 DEF StreamInv

\* Every step of the routes.
LEMMA StreamStep == StreamInv /\ [StreamNext]_streamVars => StreamInv'
<1> SUFFICES ASSUME StreamInv, [StreamNext]_streamVars PROVE StreamInv'
  OBVIOUS
<1>1. ASSUME UNCHANGED streamVars PROVE StreamInv'
  <2>1. ConnectionInv /\ OwedInv /\ \A c \in Client : RouteInv(c)
    BY DEF StreamInv
  <2>2. UNCHANGED <<local, members, life, open, commands, inbox, stream, owed, early>>
    BY <1>1 DEF streamVars, vars
  <2>3. ConnectionInv'
    BY <2>1, <2>2 DEF ConnectionInv, Streaming
  <2>4. OwedInv'
    <3>1. OnTheWay(Unsubscribing)' = OnTheWay(Unsubscribing)
      BY <2>2 DEF OnTheWay, Replies, Unsubscribing
    <3>2. QED BY <2>1, <2>2, <3>1, OwedKept
  <2>5. ASSUME NEW c \in Client PROVE RouteInv(c)'
    <3>1. OnTheWay(Subscribing(c))' = OnTheWay(Subscribing(c)) /\ (Registered(c)' => Registered(c))
      BY <2>2 DEF OnTheWay, Replies, Subscribing, Registered
    <3>2. QED BY <2>1, <2>2, <3>1, RouteKept
  <2>6. QED BY <2>3, <2>4, <2>5 DEF StreamInv
<1>2. QED
  BY <1>1, RouteStream, JoinStream, LeaveStream, SubscribeStream, UnsubscribeStream, HandlerStream, RedisStream
     DEF StreamNext, Arrive

\* When a route's work for a connection is over, the adapter has no client of
\* it, but for a socket that closed while its subscribe was under way: the
\* `finally` and onClose of route-builder.ts and the adapter under them,
\* whatever Redis rejects and in whatever order its replies and messages come.
THEOREM EndedForgotten == StreamSpec => []EndedIsForgotten
<1>1. StreamInv => EndedIsForgotten
  BY DEF StreamInv, RouteInv, EndedIsForgotten
<1>2. QED BY <1>1, StreamInitial, StreamStep, PTL DEF StreamSpec

\* The routes only call what the adapter offers: each of their steps is one of
\* RedisChannels or none, and so what holds of it holds under them.
LEMMA RoutesCallTheAdapter == [StreamNext]_streamVars => [Next]_vars
<1> SUFFICES ASSUME [StreamNext]_streamVars PROVE [Next]_vars
  OBVIOUS
<1>1. ASSUME NEW c \in Client, Open(c) \/ HandlerThrows(c) PROVE UNCHANGED vars
  BY <1>1 DEF Open, HandlerThrows
<1>2. ASSUME NEW c \in Client, Join(c) \/ Abort(c) \/ Leave(c) PROVE Next
  BY <1>2 DEF Join, Abort, Leave, Next
<1>3. ASSUME NEW m \in Message, EventSent(m) PROVE Next
  BY <1>3 DEF EventSent, Next
<1>4. ASSUME Arrive PROVE Next
  BY <1>4 DEF Arrive, SubscribeSettled, UnsubscribeSettled, EventArrives, Next, Receive
<1>5. ASSUME RedisActs PROVE Next
  BY <1>5 DEF RedisActs, Next
<1>6. ASSUME UNCHANGED streamVars PROVE UNCHANGED vars
  BY <1>6 DEF streamVars
<1>7. QED BY <1>1, <1>2, <1>3, <1>4, <1>5, <1>6 DEF StreamNext

\* The subscription follows the local map under the routes as well.
THEOREM RoutesFollow == StreamSpec => []RedisFollowsMap
<1>1. StreamInit => Init
  BY DEF StreamInit
<1>2. StreamSpec => Spec
  BY <1>1, RoutesCallTheAdapter, PTL DEF StreamSpec, Spec
<1>3. QED BY <1>2, SubscriptionFollows, PTL

-----------------------------------------------------------------------------
(* RedisChannels: an entry is backed by a subscription. *)

\* A SUBSCRIBE rejected, on its way back.
Rejected == {a \in Arrival : a.kind = "error" /\ a.of.op = "subscribe"}

\* NotPoisoned, with the place of the SUBSCRIBE: it is the last command, or it
\* was executed or rejected and nothing was sent after it.
Backed ==
    local # None => IF commands # <<>> THEN commands[Len(commands)].op = "subscribe"
                                      ELSE held \/ \E n \in 1..Len(inbox) : inbox[n] \in Rejected

BackedInv == Streaming /\ Backed

\* A rejection stays in the inbox when something else is taken out of it.
LEMMA LacksKeeps ==
    ASSUME NEW S, NEW s \in Seq(S), NEW t \in Seq(S), NEW i, Lacks(t, s, i), NEW T, s[i] \notin T,
           \E n \in 1..Len(s) : s[n] \in T
    PROVE  \E n \in 1..Len(t) : t[n] \in T
<1>1. PICK n \in 1..Len(s) : s[n] \in T
  OBVIOUS
<1>2. Len(s) \in Nat /\ i \in 1..Len(s) /\ Len(t) = Len(s) - 1
      /\ \A k \in 1..Len(t) : t[k] = s[IF k < i THEN k ELSE k + 1]
  BY LenProperties DEF Lacks
<1>3. CASE n < i
  <2>1. n \in 1..Len(t) /\ t[n] = s[n]
    BY <1>2, <1>3
  <2>2. QED BY <1>1, <2>1
<1>4. CASE n > i
  <2>1. n - 1 \in 1..Len(t) /\ ~(n - 1 < i) /\ (n - 1) + 1 = n
    BY <1>2, <1>4
  <2>2. t[n - 1] = s[n]
    BY <1>2, <2>1
  <2>3. QED BY <1>1, <2>1, <2>2
<1>5. n # i
  BY <1>1
<1>6. QED BY <1>2, <1>3, <1>4, <1>5

\* An UNSUBSCRIBE leaves no entry behind.
LEMMA ReleaseBacked ==
    ASSUME Streaming, NEW left, Release(left)
    PROVE  commands' \in Seq(Command) /\ (local' = None \/ UNCHANGED <<local, commands>>)
<1>1. [op |-> "unsubscribe"] \in Command
  BY DEF Command
<1>2. QED BY <1>1, AppendProperties DEF Release, Streaming

\* A delivery leaves the map alone, or takes its last client out of it.
LEMMA DeliverBacked ==
    ASSUME Streaming, NEW m, NEW h, Deliver(m, h)
    PROVE  commands' \in Seq(Command) /\ (local' = None \/ UNCHANGED <<local, commands>>)
<1>1. CASE UNCHANGED <<local, members, commands>>
  BY <1>1 DEF Streaming
<1>2. CASE \E left : Release(left)
  BY <1>2, ReleaseBacked
<1>3. QED BY <1>1, <1>2 DEF Deliver

\* The inbox loses what is no rejection, and an entry may go.
LEMMA HandledBacked ==
    ASSUME BackedInv, held' = held, commands' \in Seq(Command),
           local' = None \/ UNCHANGED <<local, commands>>,
           inbox' = inbox
             \/ \E i : inbox' \in Seq(Arrival) /\ Lacks(inbox', inbox, i) /\ inbox[i] \notin Rejected
    PROVE  BackedInv'
<1>1. inbox' \in Seq(Arrival)
  BY DEF BackedInv, Streaming
<1>2. (\E n \in 1..Len(inbox) : inbox[n] \in Rejected) => \E n \in 1..Len(inbox') : inbox'[n] \in Rejected
  BY LacksKeeps DEF BackedInv, Streaming
<1>3. CASE local' = None
  BY <1>1, <1>3 DEF BackedInv, Streaming, Backed
<1>4. CASE UNCHANGED <<local, commands>>
  BY <1>1, <1>2, <1>4 DEF BackedInv, Streaming, Backed, Rejected
<1>5. QED BY <1>3, <1>4

\* A step of Redis: the SUBSCRIBE is executed, or its rejection is sent back.
LEMMA ServerBacked ==
    ASSUME BackedInv, Execute \/ RefuseCommand
    PROVE  BackedInv'
<1>1. PICK kind \in {"ack", "error"} :
        /\ commands # <<>> /\ commands' = Tail(commands) /\ local' = local
        /\ inbox' = Append(inbox, [kind |-> kind, of |-> Head(commands)])
        /\ kind = "ack" => held' = (Head(commands).op = "subscribe")
  BY DEF Execute, RefuseCommand
<1> DEFINE reply == [kind |-> kind, of |-> Head(commands)]
<1>2. /\ Tail(commands) \in Seq(Command)
      /\ Tail(commands) = <<>> => commands[Len(commands)] = Head(commands)
      /\ Tail(commands) # <<>> => Tail(commands)[Len(Tail(commands))] = commands[Len(commands)]
  BY <1>1, TailKeepsLast DEF BackedInv, Streaming
<1>3. Head(commands) \in Command
  BY <1>1, TailLacks DEF BackedInv, Streaming
<1>4. reply \in Arrival
  BY <1>3 DEF Arrival
<1>5. inbox' \in Seq(Arrival) /\ Len(inbox) \in Nat /\ Len(inbox') = Len(inbox) + 1 /\ inbox'[Len(inbox) + 1] = reply
  BY <1>1, <1>4, AppendProperties, LenProperties DEF BackedInv, Streaming
<1>6. CASE Tail(commands) # <<>>
  BY <1>1, <1>2, <1>5, <1>6 DEF BackedInv, Streaming, Backed
<1>7. CASE Tail(commands) = <<>>
  <2>1. local # None => Head(commands).op = "subscribe"
    BY <1>1, <1>2, <1>7 DEF BackedInv, Backed
  <2>2. CASE kind = "ack"
    BY <1>1, <1>2, <1>5, <1>7, <2>1, <2>2 DEF BackedInv, Streaming, Backed
  <2>3. CASE kind = "error"
    <3>1. local # None => inbox'[Len(inbox) + 1] \in Rejected
      BY <1>4, <1>5, <2>1, <2>3 DEF Rejected
    <3>2. Len(inbox) + 1 \in 1..Len(inbox')
      BY <1>5
    <3>3. QED BY <1>1, <1>2, <1>5, <1>7, <3>1, <3>2 DEF BackedInv, Streaming, Backed, Rejected
  <2>4. QED BY <2>2, <2>3
<1>8. QED BY <1>6, <1>7

\* Every step of the adapter and of Redis.
LEMMA BackedStep == BackedInv /\ [Next]_vars => BackedInv'
<1> SUFFICES ASSUME BackedInv, [Next]_vars PROVE BackedInv'
  OBVIOUS
<1>1. Streaming
  BY DEF BackedInv
<1>2. ASSUME NEW c \in Client, SubscribeFirst(c) PROVE BackedInv'
  <2>1. commands' = Append(commands, Subscribing(c)) /\ inbox' = inbox
    BY <1>2 DEF SubscribeFirst, Subscribing
  <2>2. commands' \in Seq(Command) /\ commands' # <<>> /\ commands'[Len(commands')] = Subscribing(c)
    BY <1>1, <2>1, SentIsLast, CommandsApart DEF Streaming
  <2>3. QED BY <1>1, <2>1, <2>2 DEF BackedInv, Streaming, Backed, Subscribing
<1>3. ASSUME NEW c \in Client, SubscribeNext(c) \/ Disconnect(c) PROVE BackedInv'
  BY <1>1, <1>3, HandledBacked DEF SubscribeNext, Disconnect, Streaming
<1>4. ASSUME NEW c \in Client, Unsubscribe(c) PROVE BackedInv'
  <2>1. commands' \in Seq(Command) /\ (local' = None \/ UNCHANGED <<local, commands>>)
    BY <1>1, <1>4, ReleaseBacked DEF Unsubscribe, Streaming
  <2>2. QED BY <1>4, <2>1, HandledBacked DEF Unsubscribe
<1>5. ASSUME NEW m \in Message, Push(m) PROVE BackedInv'
  <2>1. /\ UNCHANGED <<local, commands, held>> /\ [kind |-> "message", of |-> m] \in Arrival
        /\ inbox' = Append(inbox, [kind |-> "message", of |-> m])
    BY <1>5 DEF Push, Arrival
  <2>2. inbox' \in Seq(Arrival) /\ Len(inbox) \in Nat /\ Len(inbox') = Len(inbox) + 1
        /\ \A n \in 1..Len(inbox) : inbox'[n] = inbox[n]
    BY <1>1, <2>1, AppendProperties, LenProperties DEF Streaming
  <2>3. \A n \in 1..Len(inbox) : n \in 1..Len(inbox')
    BY <2>2
  <2>4. QED BY <2>1, <2>2, <2>3 DEF BackedInv, Streaming, Backed, Rejected
<1>6. ASSUME NEW m \in Message, SendSettles(m) PROVE BackedInv'
  <2>1. UNCHANGED <<inbox, held>> /\ \E h : Deliver(m, h)
    BY <1>6 DEF SendSettles
  <2>2. QED BY <1>1, <2>1, DeliverBacked, HandledBacked
<1>7. ASSUME NEW kind \in {"ack", "error"}, NEW op \in {"subscribe", "unsubscribe"}, ArrivesFor(kind, op),
             kind = "ack" \/ op = "unsubscribe" \/ local' = None,
             local' = None \/ local' = local, UNCHANGED <<commands, held>>
      PROVE  BackedInv'
  <2>1. inbox # <<>> /\ inbox' = Tail(inbox) /\ Head(inbox).kind = kind /\ Head(inbox).of.op = op
    BY <1>7 DEF ArrivesFor
  <2>2. inbox' \in Seq(Arrival) /\ Lacks(inbox', inbox, 1) /\ Head(inbox) = inbox[1]
    BY <1>1, <2>1, TailLacks DEF Streaming
  <2>3. CASE local' = None
    BY <1>1, <1>7, <2>2, <2>3 DEF BackedInv, Streaming, Backed
  <2>4. CASE kind = "ack" \/ op = "unsubscribe"
    <3>1. inbox[1] \notin Rejected
      BY <2>1, <2>2, <2>4 DEF Rejected
    <3>2. QED BY <1>1, <1>7, <2>2, <3>1, HandledBacked DEF Streaming
  <2>5. QED BY <1>7, <2>3, <2>4
<1>8. ASSUME SubscribeAcked \/ SubscribeRefused \/ UnsubscribeReplied PROVE BackedInv'
  BY <1>7, <1>8 DEF SubscribeAcked, SubscribeRefused, UnsubscribeReplied
<1>9. ASSUME MessageArrives PROVE BackedInv'
  <2>1. PICK n \in NextMessage :
          /\ inbox' = RemoveAt(inbox, n) /\ held' = held
          /\ UNCHANGED <<local, members, commands>> \/ \E m, h : Deliver(m, h)
    BY <1>9 DEF MessageArrives
  <2>2. n \in 1..Len(inbox) /\ inbox[n].kind = "message"
    BY DEF NextMessage
  <2>3. inbox' \in Seq(Arrival) /\ Lacks(inbox', inbox, n) /\ inbox[n] \notin Rejected
    BY <1>1, <2>1, <2>2, RemoveLacks DEF Streaming, Rejected
  <2>4. commands' \in Seq(Command) /\ (local' = None \/ UNCHANGED <<local, commands>>)
    BY <1>1, <2>1, DeliverBacked DEF Streaming
  <2>5. QED BY <2>1, <2>3, <2>4, HandledBacked
<1>10. ASSUME UNCHANGED vars PROVE BackedInv'
  BY <1>10 DEF vars, BackedInv, Streaming, Backed, Rejected
<1>11. QED
  BY <1>2, <1>3, <1>4, <1>5, <1>6, <1>8, <1>9, <1>10, ServerBacked DEF Next, Receive

\* An entry that later subscribers join unasked is backed by a subscription or
\* is about to be rolled back: the rollback of subscribe() in redis.adapter.ts,
\* whatever commands are rejected and however clients come and go.
THEOREM NeverPoisoned == Spec => []NotPoisoned
<1>1. Init => BackedInv
  BY EmptySeq DEF Init, BackedInv, Streaming, Backed
<1>2. BackedInv => NotPoisoned
  <2> SUFFICES ASSUME BackedInv, local # None PROVE NotPoisoned
    BY DEF NotPoisoned
  <2>1. CASE commands # <<>>
    <3>1. Len(commands) \in 1..Len(commands)
      BY <2>1, EmptySeq DEF BackedInv, Streaming
    <3>2. QED BY <2>1, <3>1 DEF BackedInv, Backed, NotPoisoned
  <2>2. CASE commands = <<>>
    BY <2>2 DEF BackedInv, Backed, NotPoisoned, Rejected
  <2>3. QED BY <2>1, <2>2
<1>3. QED BY <1>1, <1>2, BackedStep, PTL DEF Spec

=============================================================================
