\* One database that answers and one whose replies may be lost: what holds in both,
\* and what needs the replies.
SPECIFICATION FaultSpec
CONSTANTS
    Workers = {w1, w2}
    Schedulers = {s1}
    Addresses = {a1}
    MaxJobs = 1
    MaxAttempts = 2
    LeaseTTL = 1
    LossyReplies = TRUE
    None = None
INVARIANTS
    GoodRunMeansSucceededJob
PROPERTIES
    FencedFinish
    FailedRunStaysFailed
    JobsAndRunsEnd
    LifecycleWhateverTheReplies
