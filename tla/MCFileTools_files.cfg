SPECIFICATION Spec
CONSTANTS
    Scenes <- AllScenes
    Foreign <- Meddled
    NameOrder <- Order
    ViewCap = 4
    OutCap = 3
    HeadCap = 2
    TailCap = 2
    KeptCap = 3
    TailLines = 2
    FileCap = 6
    ReplaceCap = 5
    ReadCap = 6
    Allowlist <- Allowed
    MaxHits = 5
    MaxLines = 6
    MaxHops = 2
INVARIANTS
    
    EditOneSpan
    ReadsWhole
    
    
CHECK_DEADLOCK FALSE
