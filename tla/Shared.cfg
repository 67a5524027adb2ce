\* Two processes write, work and sweep one vault; every failure.
SPECIFICATION Spec
CONSTANTS
    m1 = m1
    m2 = m2
    desktop = desktop
    cli = cli
    Memories <- OneMemory
    Processes <- BothProcesses
    Writers <- BothProcesses
    Workers <- BothProcesses
    Sweepers <- BothProcesses
    Cap = 1
    MaxAttempts = 2
    Faults <- AllFaults
    MaxSeq = 3
    MaxFaults = 1
INVARIANTS
    TypeOK
    QueueWithinCap
    EveryOpAccountedFor
    DeadLetterConservation
