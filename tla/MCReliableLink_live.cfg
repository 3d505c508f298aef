\* One lane under fairness: losses, early timeouts, refusals and pauses, each a few times
CONSTANTS
    Lanes = {"Reliable"}
    Window <- SmallWindow
    SerialSpan = 6
    FastRetransmitThreshold = 1
    InitialCwnd = 2
    MinCwnd = 1
    MaxCwnd = 2
    FixedCwnd = 0
    CwndUnit = 1
    Supervised = FALSE
    BudgetLimit = 2
    MaxAckRanges = 1
    FragCounts = {2}
    MaxMessages = 1
    MaxTransmissions = 6
    MaxAcksInTransit = 1
    MaxAckSerial = 5
    Duplicates = FALSE
    MaxLosses = 1
    MaxSpurious = 0
    MaxHolds = 2
    ReceiverMayFail = FALSE
SPECIFICATION FairSpec
CHECK_DEADLOCK FALSE
PROPERTIES
    EverythingArrives
