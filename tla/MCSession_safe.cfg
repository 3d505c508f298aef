\* Both may connect, one disconnects, the other sends
CONSTANTS
    Engines = {1, 2}
    AutoAccept = {}
    MayShutdown = {}
    MaxStreams = 3
    MaxConnects = 1
    MaxPosted <- TwoForTheHigherID
    Connectors = {1, 2}
    Disconnectors = {2}
    Senders = {1}
    MaxData = 2
SPECIFICATION Spec
CHECK_DEADLOCK FALSE
INVARIANTS
    EventsInOrder
    PublishedFits
    ConnectIsAnswered
    ConnectedAgree
    AcknowledgedIsKept
