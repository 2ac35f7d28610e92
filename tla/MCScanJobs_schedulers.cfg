\* Two schedulers and the audit retry race to insert jobs for two addresses,
\* with replies that may be lost; the queue implements JobLifecycle.
SPECIFICATION Spec
CONSTANTS
    Workers = {w1}
    Schedulers = {s1, s2}
    Addresses = {a1, a2}
    MaxJobs = 2
    MaxAttempts = 1
    LeaseTTL = 1
    LossyReplies = TRUE
    None = None
SYMMETRY Symmetry
INVARIANTS
    OneActiveJobPerAddress
PROPERTIES
    ImplementsLifecycle
