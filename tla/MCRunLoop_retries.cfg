SPECIFICATION Spec
CONSTANTS
    MaxSteps = 3
    MaxTokens = 0
    MaxCents = 0
    SameActionCycles = 0
    ActionsPerTrial = 0
    MaxRefunds = 1
    InputLists <- OneText
    Followups = 0
    MaxCalls = 1
    Bills <- NoBills
    GateMode = "uniform"
    Full = TRUE
    Compaction = FALSE
    WallCap = FALSE
    LogMayFail = FALSE
    TreeMayFail = FALSE
INVARIANT FreshStepHasFullRetries
