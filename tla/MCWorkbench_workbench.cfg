SPECIFICATION FairSpec
CONSTANTS
    Paths <- ThreePaths
    Ignored <- LastIgnored
    Contents <- FourContents
    Binary <- BinaryOnly
    Crlf <- CrlfOnly
    Lf <- LfOf
    Large <- LargeOnly
    WorkTrees <- Trees
    Options <- SomeOptions
    MaxBatches = 2
    MaxCalls = 1
    MaxWrites = 1
    MaxKids = 1
    Outputs = {0, 1}
    KidKinds = {"pipe", "quiet", "away"}
    MayStage = TRUE
INVARIANTS
    
    
    
    GroupsKilled
PROPERTIES
    CallReturns
