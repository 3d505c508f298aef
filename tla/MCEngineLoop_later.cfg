\* A flush and a message that is accepted after it
CONSTANTS
    Peers = {p1}
    Callers = {c1, c2}
    MailLanes = {"Reliable"}
    Sizes = {1}
    QueueBytes = 1
    MediaQueueMessages = 1
    io = io
    Sockets = {s1}
    NoSocket = none
    Posted = {}
    MayEnd = FALSE
    MaxEpochs = 1
    MaxPosts = 1
    MaxAccepted = 2
SPECIFICATION Spec
CHECK_DEADLOCK FALSE
INVARIANT FlushWaitsForEarlierOnly
