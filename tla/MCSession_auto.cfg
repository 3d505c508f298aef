\* An engine that accepts every request also connects itself
CONSTANTS
    Engines = {1, 2}
    AutoAccept = {1}
    MayShutdown = {}
    MaxStreams = 3
    MaxConnects = 1
    MaxPosted <- TwoCommands
    Connectors = {1, 2}
    Disconnectors = {}
    Senders = {}
    MaxData = 1
SPECIFICATION Spec
CHECK_DEADLOCK FALSE
INVARIANT ConnectIsAnswered
