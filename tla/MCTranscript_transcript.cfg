SPECIFICATION Spec
CONSTANTS
    a = a
    b = b
    CallIds <- TwoIds
    TrialCap = 4
    DirectiveCap = 3
    NudgeCap = 2
    MaxCalls = 2
    MaxBatches = 2
    MaxInputs = 1
    MaxFollowups = 1
SYMMETRY SwapIds
CHECK_DEADLOCK FALSE
INVARIANTS
    NothingForgotten
    WireWellFormed
    DurableText
    DirectivesOnce
    AnchorExact
