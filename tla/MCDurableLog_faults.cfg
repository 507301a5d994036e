SPECIFICATION Spec
CONSTANTS
    MaxRows = 4
    Large <- SecondLarge
    IoMayFail = TRUE
INVARIANTS AckedOnDisk ReadableAtAnyCut ClosedComplete
