----------------------------- MODULE MCStreams ------------------------------
(***************************************************************************)
(* Two SSE streams and a socket on one channel, and the frames of another  *)
(* socket.  The two share no state: `part` chooses the one that steps.     *)
(***************************************************************************)
EXTENDS Streams, WsMessages, TLC
CONSTANTS join, typing, leave, onJoin, onJoinToo, onTyping, gone, f1, f2, f3, f4

Envelopes == f1 :> join @@ f2 :> typing @@ f3 :> leave @@ f4 :> NoEvent
Entries == <<<<onJoin, join>>, <<onTyping, typing>>, <<onJoinToo, join>>, <<gone, leave>>>>

VARIABLE part

allVars == <<part, streamVars, frameVars>>

PartsInit == part \in {"channel", "frames"} /\ StreamInit /\ FramesInit

ChannelStep(A) == part = "channel" /\ A /\ UNCHANGED <<part, frameVars>>
FramesStep(A) == part = "frames" /\ A /\ UNCHANGED <<part, streamVars>>

PartsNext == ChannelStep(StreamNext) \/ FramesStep(FramesNext)

\* StreamFair, for the part that runs.
PartsSpec ==
    /\ PartsInit /\ [][PartsNext]_allVars
    /\ \A c \in Client : WF_allVars(ChannelStep(HandlerThrows(c) \/ Join(c)))
                           /\ WF_allVars(ChannelStep(Leave(c)))
    /\ WF_allVars(ChannelStep(Execute /\ UNCHANGED <<stream, owed, early>>))
    /\ WF_allVars(ChannelStep(Arrive))
=============================================================================
