\* Two sessions in a row with one peer, a lane with room for one message, two application threads
CONSTANTS
    Peers = {p1}
    Callers = {c1, c2}
    MailLanes = {"Reliable"}
    Sizes = {1}
    QueueBytes = 1
    MediaQueueMessages = 1
    io = io
    Sockets = {s1}
    NoSocket = none
    Posted = {"Disconnect", "Shutdown"}
    MayEnd = FALSE
    MaxEpochs = 2
    MaxPosts = 1
    MaxAccepted = 2
SPECIFICATION Spec
SYMMETRY CallerSymmetry
CHECK_DEADLOCK FALSE
INVARIANTS
    TypeOK
    NoMissedNotify
    FlushTruthful
    FlushWillBeTold
    NeverIntoAnotherSession
    PublishedMatches
