\* A Hello of an earlier session arrives once more
CONSTANTS
    Engines = {1, 2}
    AutoAccept = {}
    MayShutdown = {}
    MaxStreams = 4
    MaxConnects = 1
    MaxPosted <- OneCommand
    Connectors = {1, 2}
    Disconnectors = {}
    Senders = {}
    MaxData = 1
SPECIFICATION Spec
CHECK_DEADLOCK FALSE
PROPERTY ReplacedOnlyIfDropped
