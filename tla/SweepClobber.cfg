\* A sweep, and a writer that overflows while it runs; no failure.
SPECIFICATION Spec
CONSTANTS
    m1 = m1
    m2 = m2
    desktop = desktop
    cli = cli
    Memories <- OneMemory
    Processes <- BothProcesses
    Writers <- Desktop
    Workers <- Desktop
    Sweepers <- Desktop
    Cap = 1
    MaxAttempts = 2
    Faults <- NoFaults
    MaxSeq = 5
    MaxFaults = 0
PROPERTY LatestOverflowKept
