CONSTANTS
    Ids = {a, b, c}
    None = None
    Retention = 1
    MaxRuns = 2
    MaxEvents = 3
SPECIFICATION Spec
SYMMETRY IdSymmetry
CHECK_DEADLOCK FALSE
INVARIANTS
    SurvivorExisted
    RollbackRestores
    MissedOnlyInFlight
    OneStaysInForce
