SPECIFICATION Spec
CONSTANTS
    Worker = {w1, w2}
    Client = {c1, c2}
    Var = {v1}
    Meta = {m1}
    NoMeta = NoMeta
    NoClient = NoClient
    NoVar = NoVar
    Setting <- MCSetting
SYMMETRY MCSymmetry
INVARIANTS
    NoDuplicate
    ListedIsObserving
    TwoSidesAgree
PROPERTIES
    RemovesOnlyOwn
CHECK_DEADLOCK FALSE
