SPECIFICATION PartsSpec
CONSTANTS
    join = join
    typing = typing
    leave = leave
    onJoin = onJoin
    onJoinToo = onJoinToo
    onTyping = onTyping
    gone = gone
    f1 = f1
    f2 = f2
    f3 = f3
    f4 = f4
    Client = {c1, c2, w1}
    Sse = {c1, c2}
    Ws = {w1}
    Message = {m1}
    SetObject = {s1, s2, s3}
    MaxFailures = 1
    Frame = {f1, f2, f3, f4}
    Event <- Envelopes
    Handlers <- Entries
    Missing = {gone}
    HasOnMessage = TRUE
    None = None
    NoEvent = NoEvent
PROPERTIES
    DisconnectEnds
CHECK_DEADLOCK FALSE
