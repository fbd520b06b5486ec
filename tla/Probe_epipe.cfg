SPECIFICATION Spec
CONSTANTS
    Cap = 1
    MaxScript = 3
    MaxLines = 3
    Value = {"0", "1"}
INVARIANT
    BailOutHasRow
CHECK_DEADLOCK FALSE
