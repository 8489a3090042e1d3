SPECIFICATION Spec
CONSTANTS
    Compression = FALSE
    Capacity = 2
    MaxItems = 2
    MaxFaults = 1
INVARIANT FlushedIsRead
CHECK_DEADLOCK FALSE
