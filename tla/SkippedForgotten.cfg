CONSTANTS
    Ids = {a, b}
    None = None
    Retention = 1
    MaxRuns = 1
    MaxEvents = 3
SPECIFICATION Spec
CHECK_DEADLOCK FALSE
PROPERTY SkippedSeedAgain
