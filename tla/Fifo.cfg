\* One worker and no transient failure, but crashes, failed steps and dead letters.
SPECIFICATION Spec
CONSTANTS
    m1 = m1
    m2 = m2
    desktop = desktop
    cli = cli
    Memories <- TwoMemories
    Processes <- Desktop
    Writers <- Desktop
    Workers <- Desktop
    Sweepers <- NoProcess
    Cap = 2
    MaxAttempts = 2
    Faults <- CrashAndPermanent
    MaxSeq = 6
    MaxFaults = 1
SYMMETRY Symmetry
INVARIANTS
    QuietConverged
    SpillAudited
PROPERTIES
    FifoPerMemory
    StoresFollow
