\* Two lanes that share the congestion window, the loss detection and the budget
CONSTANTS
    Lanes = {"Reliable", "Bulk"}
    Window <- SmallWindow
    SerialSpan = 8
    FastRetransmitThreshold = 1
    InitialCwnd = 2
    MinCwnd = 1
    MaxCwnd = 2
    FixedCwnd = 0
    CwndUnit = 1
    Supervised = FALSE
    BudgetLimit = 2
    MaxAckRanges = 1
    FragCounts = {2}
    MaxMessages = 1
    MaxTransmissions = 5
    MaxAcksInTransit = 2
    MaxAckSerial = 2
    Duplicates = TRUE
    MaxLosses = 0
    MaxSpurious = 4
    MaxHolds = 0
    ReceiverMayFail = TRUE
SPECIFICATION Spec
CHECK_DEADLOCK FALSE
INVARIANTS
    NothingForgotten
    OldestIsOnTheWire
    BudgetExact
PROPERTIES
    DeliversInOrder
