\* Crashes only, and room for every operation.
SPECIFICATION FairSpec
CONSTANTS
    m1 = m1
    m2 = m2
    desktop = desktop
    cli = cli
    Memories <- TwoMemories
    Processes <- Desktop
    Writers <- Desktop
    Workers <- Desktop
    Sweepers <- NoProcess
    Cap = 4
    MaxAttempts = 2
    Faults <- CrashOnly
    MaxSeq = 4
    MaxFaults = 1
PROPERTY StoresConverge
