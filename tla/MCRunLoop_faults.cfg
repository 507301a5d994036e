SPECIFICATION FairSpec
CONSTANTS
    MaxSteps = 2
    MaxTokens = 2
    MaxCents = 0
    SameActionCycles = 1
    ActionsPerTrial = 1
    MaxRefunds = 1
    InputLists <- FewInputs
    Followups = 1
    MaxCalls = 2
    Bills <- OneToken
    GateMode = "incremental"
    Full = FALSE
    Compaction = TRUE
    WallCap = TRUE
    LogMayFail = TRUE
    TreeMayFail = TRUE
INVARIANTS
    WriteAhead
    FramesPaired
    SpendBounded
PROPERTIES
    Termination
