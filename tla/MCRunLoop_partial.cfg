SPECIFICATION Spec
CONSTANTS
    MaxSteps = 2
    MaxTokens = 0
    MaxCents = 0
    SameActionCycles = 0
    ActionsPerTrial = 0
    MaxRefunds = 1
    InputLists <- OneText
    Followups = 0
    MaxCalls = 3
    Bills <- NoBills
    GateMode = "incremental"
    Full = TRUE
    Compaction = FALSE
    WallCap = FALSE
    LogMayFail = FALSE
    TreeMayFail = FALSE
INVARIANT FailedBatchReverted
