\* A cancellation between the renewal of the lock and the insertion.
SPECIFICATION Spec
CONSTANTS
    Workers = {w1}
    Tasks = {t1}
    AttemptCount = 1
    BatchSize = 1
    MaxFaults = 0
    None = None
INVARIANTS
    SkippedCreatesNothing
CHECK_DEADLOCK FALSE
