SPECIFICATION GenSpec
CONSTANTS
    F1 = F1
    F2 = F2
    L = L
    M = M
    None = None
    Blank = Blank
    Function = {F1, F2}
    Case = {1, 2, 3}
    FnOf <- MCFnOf
    Leaf = {L, M}
    Alike <- MCAlike
    Hash = {}
    Catalogues <- MCCatalogues
    Sections <- MCSections
    MaxWrites = 1
CONSTRAINT Bounded
INVARIANTS
    TypeOK
    ReportIsOfTheBatch
    BacklogRegardless
    AxesAgree
    GenTypeOK
    EveryFunctionPlaced
    QuietReportAddsUp
    DocumentMatchesCoverage
CHECK_DEADLOCK FALSE
