SPECIFICATION FairSpec
CONSTANTS
    Requests <- MCRequests
    Ceiling = 8
    HasKnob = TRUE
    Refreshable = TRUE
    ColdUrl = FALSE
    Texts <- MCTexts
    Asks <- MCAsks
    Bills <- MCBills
INVARIANTS
    RungsBounded
    AttemptsBounded
    TruncatedShapeNotResent
PROPERTIES
    ImplementsCall
