\* A working notifier is overtaken: is every target settled?
SPECIFICATION Spec
CONSTANTS
    Notifiers = {n1, n2}
    Events = {e1}
    Targets <- OneExternal
    BatchSize = 2
    MaxAttempts = 2
    MaxFaults = 1
    Overtaking = TRUE
    None = None
INVARIANTS
    DeliveredOwesNothing
