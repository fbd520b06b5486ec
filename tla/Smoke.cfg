SPECIFICATION SmokeSpec
CONSTANTS
    Targets = {"duckdb", "ducklink"}
    Cases = 2
    Expectations <- MCExpectations
    Outputs <- MCOutputs
    NoFile = NoFile
INVARIANTS
    SmokeTypeOK
    StatusTellsVerdicts
    PassShowsExpected
    HandEditsChangeNothing
    LeftoversAreOfPreprocessing
CHECK_DEADLOCK FALSE
