\* One application thread, a Media and an acknowledged lane with messages of two sizes
CONSTANTS
    Peers = {p1}
    Callers = {c1}
    MailLanes = {"Reliable", "Media"}
    Sizes = {1, 2}
    QueueBytes = 2
    MediaQueueMessages = 1
    io = io
    Sockets = {s1}
    NoSocket = none
    Posted = {"Shutdown"}
    MayEnd = TRUE
    MaxEpochs = 1
    MaxPosts = 1
    MaxAccepted = 2
SPECIFICATION FairSpec
CHECK_DEADLOCK FALSE
INVARIANTS BytesExact NoMissedNotify
PROPERTIES WaitersReturn DisconnectEnds
