SPECIFICATION CallsOnly
CONSTANTS
    Conn = {k1, k2}
    NoConn = NoConn
    NoId = NoId
    Worker = {w1, w2}
    Setting <- MCOverlap
    Goroutine = {"g1", "g2", "g3"}
    ConnOf <- MCConnOf
    Name <- MCName
    Before <- MCBefore
    Found <- MCFound
    Occurs <- MCOccurs
    CallSetting <- MCVstpCalls
INVARIANTS
    AnsweredIsReported
CHECK_DEADLOCK FALSE
