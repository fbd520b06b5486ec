SPECIFICATION TextSpec
CONSTANTS
    Q1 = Q1
    Q2 = Q2
    D1 = D1
    D2 = D2
    NoLabel = NoLabel
    NoRow = NoRow
    Key = {Q1, Q2}
    Datum = {D1, D2}
INVARIANTS
    SplitFindsStatements
    ProbesFitCases
    CastingIsIdempotent
    EchoesBindOwnRows
    RewriteKeepsStatements
    FoldedLinesDispatch
CHECK_DEADLOCK FALSE
