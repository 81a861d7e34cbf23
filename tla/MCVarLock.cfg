SPECIFICATION FairSpec
CONSTANTS
    Client = {c1, c2}
    Var = {v1, v2}
    NoVar = NoVar
    Value = {x1}
    Empty = Empty
    Request <- MCAll
    WordSize = 32
    UnitsPerMs = 2
    DefaultWait = 4
    TimeoutMs = {0, 1, 31}
    MaxSleepMs = 1
INVARIANTS
    LockExclusive
    HeldIsLocked
PROPERTIES
    OnlyFailedLockLeaks
    WaitedLongEnough
    CallReturns
