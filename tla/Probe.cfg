SPECIFICATION FairSpec
CONSTANTS
    Cap = 1
    MaxScript = 3
    MaxLines = 3
    Value = {"0", "1"}
INVARIANTS
    TypeOK
    PassIsEarned
    NoSilentCase
PROPERTIES
    OnlyAWedgeHangs
CHECK_DEADLOCK FALSE
