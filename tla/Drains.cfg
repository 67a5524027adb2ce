\* Every failure but a rolled-back write, up to the last attempt, and a worker
\* that keeps stepping.
SPECIFICATION FairSpec
CONSTANTS
    m1 = m1
    m2 = m2
    desktop = desktop
    cli = cli
    Memories <- OneMemory
    Processes <- Desktop
    Writers <- Desktop
    Workers <- Desktop
    Sweepers <- NoProcess
    Cap = 2
    MaxAttempts = 3
    Faults <- AllButRollback
    MaxSeq = 4
    MaxFaults = 1
PROPERTIES
    QueueDrains
    OnlyRetriesOvertake
