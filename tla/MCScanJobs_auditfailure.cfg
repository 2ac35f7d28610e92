SPECIFICATION FairSpec
CONSTANTS
    Workers = {w1}
    Schedulers = {s1}
    Addresses = {a1}
    MaxJobs = 1
    MaxAttempts = 1
    LeaseTTL = 1
    LossyReplies = FALSE
    None = None
PROPERTIES
    SuccessfulScanNeverReportedFailed
