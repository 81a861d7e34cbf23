SPECIFICATION DirectOnly
CONSTANTS
    Key <- MCKey
    Above <- MCAbove
    Request <- MCRequest
    Dump <- MCDump
    HttpRequest <- MCHttpRequest
    Rival <- MCRival
    Index <- MCIndex
    Slot <- MCSlot
    Object = "{}"
    ValueWord = "_value"
    True = "1"
    Trye = "trye"
    Value = {"0", "1"}
    Empty = ""
    Locked = "1"
    Unlocked = "0"
    HiddenWord = {"_lock", "_value"}
    LockWord = "_lock"
    Client = {c1, c2}
    MaxCalls = 3
    Worker = {w1, w2}
    Reader = w1
    MaxWait = 3
    Slow = 3
    LockTimeouts = TRUE
INVARIANTS
    IncrementSetsAll
\* The clients may stop calling, and the bound stops them.
CHECK_DEADLOCK FALSE
