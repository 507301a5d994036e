SPECIFICATION FairSpec
CONSTANTS
    i1 = i1
    i2 = i2
    Slice <- TwoInstances
    HasImage <- FirstOnly
    MaxPasses = 2
    MaxFaults = 1
CHECK_DEADLOCK FALSE
INVARIANTS
    
    
    
    NoBoxLeft
PROPERTIES
    PassEnds
