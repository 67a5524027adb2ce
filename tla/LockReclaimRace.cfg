\* On Windows the file changes hands between the probe and the removal.
SPECIFICATION Spec
CONSTANTS
    Processes = {p1, p2, p3}
    MaxCrashes = 1
INVARIANT MutualExclusion
