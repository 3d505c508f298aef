\* Both may connect, one stops
CONSTANTS
    Engines = {1, 2}
    AutoAccept = {}
    MayShutdown = {1}
    MaxStreams = 3
    MaxConnects = 1
    MaxPosted <- TwoCommands
    Connectors = {1, 2}
    Disconnectors = {}
    Senders = {}
    MaxData = 1
SPECIFICATION FairSpec
CHECK_DEADLOCK FALSE
INVARIANTS
    EventsInOrder
    PublishedFits
PROPERTIES
    ConnectEnds
    ShutdownFinishes
