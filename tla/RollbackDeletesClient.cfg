CONSTANTS
    Ids = {a, b}
    None = None
    Retention = 1
    MaxRuns = 1
    MaxEvents = 3
SPECIFICATION Spec
SYMMETRY IdSymmetry
CHECK_DEADLOCK FALSE
INVARIANT CreatedByTheRun
