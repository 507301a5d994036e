SPECIFICATION Spec
CONSTANTS
    MaxRows = 4
    Large <- SecondLarge
    IoMayFail = TRUE
INVARIANT ClosedLogReadable
