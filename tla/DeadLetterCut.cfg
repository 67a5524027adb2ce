\* A step cut between record_failure and write_dead_letter.
SPECIFICATION Spec
CONSTANTS
    m1 = m1
    m2 = m2
    desktop = desktop
    cli = cli
    Memories <- OneMemory
    Processes <- Desktop
    Writers <- Desktop
    Workers <- Desktop
    Sweepers <- NoProcess
    Cap = 2
    MaxAttempts = 2
    Faults <- CrashAndPermanent
    MaxSeq = 3
    MaxFaults = 1
INVARIANT NothingLost
