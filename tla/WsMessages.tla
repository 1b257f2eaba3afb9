----------------------------- MODULE WsMessages -----------------------------
(***************************************************************************)
(* @OnWsMessage (core/route-builder.ts, decorators/websocket.ts): the      *)
(* frames of one socket.  Each frame is a call of onMessage of its own,    *)
(* which awaits the handlers one after the other, so that the frames of a  *)
(* socket overlap.                                                         *)
(***************************************************************************)
EXTENDS Naturals, Sequences

CONSTANTS
    Frame,     \* the frames received
    Event,     \* [Frame -> the event of its envelope, NoEvent if it is not one]
    Handlers,  \* Object.entries(wsMsgMap): <<method, event>> pairs, in order
    Missing,   \* the methods that are not functions
    HasOnMessage,  \* whether the route returned an onMessage of its own
    NoEvent

\* The keys of an object are distinct, and none stands for the route's own
\* onMessage in `given`.
ASSUME FrameAssumption ==
    /\ Len(Handlers) \in Nat /\ DOMAIN Handlers = 1..Len(Handlers)
    /\ \A i, j \in 1..Len(Handlers) : i # j => Handlers[i][1] # Handlers[j][1]
    /\ \A n \in 1..Len(Handlers) : Handlers[n][1] # "onMessage"

VARIABLES
    frame,    \* each frame: its step, the handlers gone through, dispatched
    given     \* history: what each frame was handed to, in order

frameVars == <<frame, given>>

NoFrame == [at |-> "coming", next |-> 1, dispatched |-> FALSE]

FramesInit ==
    /\ frame = [f \in Frame |-> NoFrame]
    /\ given = [f \in Frame |-> <<>>]

\* The first entry at or after i that asks for the frame's event and is there.
Matching(f, i) ==
    {n \in i..Len(Handlers) : Event[f] # NoEvent /\ Handlers[n][2] = Event[f] /\ Handlers[n][1] \notin Missing}
Least(ns) == CHOOSE n \in ns : \A k \in ns : n <= k

\* Whether an entry for the event was met, a missing method's included.
Named(f, i, j) == \E n \in i..j : Event[f] # NoEvent /\ Handlers[n][2] = Event[f]

\* After the loop, or after the catch.
FallThrough(f, dispatched) ==
    IF dispatched \/ ~HasOnMessage
      THEN frame' = [frame EXCEPT ![f].at = "done"] /\ UNCHANGED given
      ELSE /\ frame' = [frame EXCEPT ![f].at = "user"]
           /\ given' = [given EXCEPT ![f] = Append(@, "onMessage")]

\* Mutant: `dispatched` is set when the handler has returned.
GoOnLate(f) ==
    LET i == frame[f].next
        seen == frame[f].dispatched \/ (i > 1 /\ frame[f].at = "handling")
    IN  IF Matching(f, i) = {} THEN FallThrough(f, seen)
        ELSE LET n == Least(Matching(f, i)) IN
             /\ frame' = [frame EXCEPT ![f] = [at |-> "handling", next |-> n + 1, dispatched |-> seen]]
             /\ given' = [given EXCEPT ![f] = Append(@, Handlers[n][1])]

\* The loop goes on to the next handler, called and awaited.
GoOn(f) ==
    LET i == frame[f].next
        seen == frame[f].dispatched
    IN  IF Matching(f, i) = {} THEN FallThrough(f, seen \/ Named(f, i, Len(Handlers)))
        ELSE LET n == Least(Matching(f, i)) IN
             /\ frame' = [frame EXCEPT ![f] = [at |-> "handling", next |-> n + 1, dispatched |-> TRUE]]
             /\ given' = [given EXCEPT ![f] = Append(@, Handlers[n][1])]

Receives(f) == frame[f].at = "coming" /\ GoOn(f)

HandlerReturns(f) == frame[f].at = "handling" /\ GoOn(f)

\* What a handler throws is caught with the errors of JSON.parse.
HandlerRejects(f) == frame[f].at = "handling" /\ FallThrough(f, frame[f].dispatched)

\* The route's own onMessage resolves or rejects.
UserEnds(f) == frame[f].at = "user" /\ frame' = [frame EXCEPT ![f].at = "done"] /\ UNCHANGED given

FramesNext == \E f \in Frame : Receives(f) \/ HandlerReturns(f) \/ HandlerRejects(f) \/ UserEnds(f)

FramesSpec == FramesInit /\ [][FramesNext]_frameVars

-----------------------------------------------------------------------------
\* A frame is handed to its handlers, each once and in their order, or else to
\* the route's own onMessage, never to both, though a handler throws or is
\* missing; and a frame nobody asks for reaches the route's own onMessage.
FrameToOneSide ==
    \A f \in Frame :
        LET mine == {n \in 1..Len(Handlers) : Event[f] # NoEvent /\ Handlers[n][2] = Event[f]} IN
        /\ mine # {} => \A i \in DOMAIN given[f] : given[f][i] # "onMessage"
        /\ mine = {} /\ HasOnMessage /\ frame[f].at = "done" => given[f] = <<"onMessage">>
        /\ \A i, j \in DOMAIN given[f] : i # j => given[f][i] # given[f][j]

=============================================================================
