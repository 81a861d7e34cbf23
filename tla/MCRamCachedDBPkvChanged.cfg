SPECIFICATION Spec
CONSTANTS
    Key <- MCKey
    Above <- MCAbove
    Value = {"v1", "v2"}
    Empty = ""
    OldDumps <- MCOldDumps
INVARIANTS
    ChangedIsSaved
