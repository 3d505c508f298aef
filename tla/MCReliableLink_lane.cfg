\* One lane with messages of one and two packets, and a budget for one message
CONSTANTS
    Lanes = {"Reliable"}
    Window <- SmallWindow
    SerialSpan = 8
    FastRetransmitThreshold = 1
    InitialCwnd = 4
    MinCwnd = 1
    MaxCwnd = 4
    FixedCwnd = 0
    CwndUnit = 1
    Supervised = FALSE
    BudgetLimit = 2
    MaxAckRanges = 1
    FragCounts = {1, 2}
    MaxMessages = 3
    MaxTransmissions = 4
    MaxAcksInTransit = 2
    MaxAckSerial = 2
    Duplicates = TRUE
    MaxLosses = 0
    MaxSpurious = 4
    MaxHolds = 1
    ReceiverMayFail = TRUE
SPECIFICATION Spec
CHECK_DEADLOCK FALSE
INVARIANTS
    TypeOK
    NothingForgotten
    OldestIsOnTheWire
    OnTheWireExact
    AckedIsHeld
    AheadOnlyWhilePaused
    NeverOutOfWindow
    WaitsOnlyForBudget
    BudgetExact
    ProgressClockExact
PROPERTIES
    LostIsFifo
    OneReductionPerRound
    DeliversInOrder
