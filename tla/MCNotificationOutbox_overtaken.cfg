\* Locks may go stale under working notifiers: what still holds, and every event ends.
SPECIFICATION FairSpec
CONSTANTS
    Notifiers = {n1, n2}
    Events = {e1}
    Targets <- ExternalThenInApp
    BatchSize = 2
    MaxAttempts = 2
    MaxFaults = 2
    Overtaking = TRUE
    None = None
INVARIANTS
    SendsWithinAttempts
PROPERTIES
    EveryEventEnds
    EndsAreFinal
