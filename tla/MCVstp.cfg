SPECIFICATION MCSpec
CONSTANTS
    Conn = {k1, k2, k3}
    NoConn = NoConn
    NoId = NoId
    Worker = {w1, w2}
    Setting <- MCSetting
    Goroutine = {"g1", "g2", "g3"}
    ConnOf <- MCConnOf
    Name <- MCName
    Before <- MCBefore
    Found <- MCFound
    Occurs <- MCOccurs
    CallSetting <- MCCallSetting
SYMMETRY MCSymmetry
INVARIANTS
    Reachable
    FiledUnderClaim
    GoneIsForgotten
    OnlyUnseenHangs
    SuccessIsOwn
    LockIsExclusive
CHECK_DEADLOCK FALSE
