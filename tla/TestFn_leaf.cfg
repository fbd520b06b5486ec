SPECIFICATION Spec
CONSTANTS
    F1 = F1
    F2 = F2
    L = L
    H1 = H1
    H2 = H2
    None = None
    Blank = Blank
    Function = {F1, F2}
    Case = {1, 2, 3}
    FnOf <- MCFnOf
    Leaf = {L}
    Alike <- MCAlike
    Hash = {H1, H2}
    Invocation = {p1}
    InitScalars <- MCInitScalars
    Request <- LeafRequests
    InitCases <- LeafCases
    Overlap = FALSE
    EnvOps = {}
    MaxEnv = 1
INVARIANT
    VerifiedOnFullSuite
CHECK_DEADLOCK FALSE
