SPECIFICATION MCSpec
CONSTANTS
    Client = {c1, c2}
    MaxChanges = 2
    MaxCommands = 3
    Proc = {p1, p2, p3}
    Name = {n1, n2}
    NoName = NoName
INVARIANTS
    MutualExclusion
    TokenConserved
PROPERTIES
    SectionSpec
    TimedCallStopsWaiting
    UntimedCallRuns
    
    
CHECK_DEADLOCK FALSE
