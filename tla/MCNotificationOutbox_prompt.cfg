\* Two notifiers with batches of two events, over before their locks go stale.
SPECIFICATION Spec
CONSTANTS
    Notifiers = {n1, n2}
    Events = {e1, e2}
    Targets <- OneExternal
    BatchSize = 2
    MaxAttempts = 2
    MaxFaults = 2
    Overtaking = FALSE
    None = None
INVARIANTS
    TypeOK
    DeliveredMeansSettled
PROPERTIES
    SentIsNeverResent
SYMMETRY Symmetry
