SPECIFICATION MCSpec
CONSTANTS
    Key <- MCKey
    Above <- MCAbove
    Value = {"1", "12", "1/b=12"}
    Empty = ""
    FirstLine <- MCFirstLine
    More <- MCMore
    Cuts <- MCCuts
    OldDumps <- MCOldDumps
    MaxSubscriptions = 2
INVARIANTS
    TreesClosed
    CleanIsSaved
    DisconnectIsFinal
    SubscriptionsSurvive
PROPERTIES
    IsStore
    PendingIsDumped
    LossIsRepaired
\* The client stops when the application has disconnected.
CHECK_DEADLOCK FALSE
