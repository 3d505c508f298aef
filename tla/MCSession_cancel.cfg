\* Both connect at once, and the one with the lower ID thinks better of it
CONSTANTS
    Engines = {1, 2}
    AutoAccept = {}
    MayShutdown = {}
    MaxStreams = 3
    MaxConnects = 1
    MaxPosted <- TwoCommands
    Connectors = {1, 2}
    Disconnectors = {1}
    Senders = {}
    MaxData = 1
SPECIFICATION Spec
CHECK_DEADLOCK FALSE
INVARIANT EventsInOrder
