SPECIFICATION FairTimeSpec
CONSTANTS
    Worker = {w1, w2}
    MaxWait = 3
    Slow = 2
    LockTimeouts = FALSE
PROPERTIES
    DisconnectedIsDeleted
