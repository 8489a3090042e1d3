SPECIFICATION Spec
CONSTANTS
    Compression = TRUE
    Capacity = 2
    MaxItems = 2
    MaxFaults = 2
INVARIANTS
    TypeOK
    ItemsConserved
    
    AckedAreKept
PROPERTY HistoryOnlyGrows
CHECK_DEADLOCK FALSE
