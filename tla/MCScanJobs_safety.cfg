\* Replies always arrive: the queue, the audit and their agreement.
SPECIFICATION Spec
CONSTANTS
    Workers = {w1, w2}
    Schedulers = {s1}
    Addresses = {a1}
    MaxJobs = 2
    MaxAttempts = 2
    LeaseTTL = 1
    LossyReplies = FALSE
    None = None
SYMMETRY Symmetry
INVARIANTS
    AttemptInv
    SucceededJobHasGoodRun
    RunningRunIsCurrent
