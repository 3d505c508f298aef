\* No session: two application threads, commands, a stop, two sockets in a row
CONSTANTS
    Peers = {p1}
    Callers = {c1, c2}
    MailLanes = {"Reliable"}
    Sizes = {1}
    QueueBytes = 1
    MediaQueueMessages = 1
    io = io
    Sockets = {s1, s2}
    NoSocket = none
    Posted = {"Connect", "Shutdown"}
    MayEnd = TRUE
    MaxEpochs = 0
    MaxPosts = 1
    MaxAccepted = 0
SPECIFICATION FairSpec
CHECK_DEADLOCK FALSE
INVARIANT NoLostWakeup
PROPERTY CommandsAreTaken
