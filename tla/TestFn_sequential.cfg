SPECIFICATION Spec
CONSTANTS
    F1 = F1
    F2 = F2
    L = L
    H1 = H1
    H2 = H2
    None = None
    Blank = Blank
    Function = {F1, F2}
    Case = {1, 2, 3}
    FnOf <- MCFnOf
    Leaf = {L}
    Alike <- MCAlike
    Hash = {H1, H2}
    Invocation = {p1, p2}
    InitScalars <- MCInitScalars
    Request <- SequentialRequests
    InitCases <- SequentialCases
    Overlap = FALSE
    EnvOps = {"seed"}
    MaxEnv = 1
INVARIANTS
    LatestVerdictStands
    BatchSkipsTagged
CHECK_DEADLOCK FALSE
