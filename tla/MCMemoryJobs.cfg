SPECIFICATION Spec
CONSTANTS
    Threads = {t1, t2}
    Attempts = {a1, a2}
    MaxSource = 2
    MaxRunning = 1
    Lease = 1
    RetryDelay = 0
    Cooldown = 1
    DefaultRetries = 1
INVARIANTS
    RunningCapHolds
    OutputMatchesWatermark
    SelectedWasConsolidated
PROPERTY MemoryAdvances
SYMMETRY Symmetry
