\* One import in several batches, two workers of which one may die.
SPECIFICATION FairSpec
CONSTANTS
    Workers = {w1, w2}
    Tasks = {t1}
    AttemptCount = 3
    BatchSize = 2
    MaxFaults = 2
    None = None
INVARIANTS
    TypeOK
    FinishedMeansProcessed
    VerdictMatchesAttempts
    AddressesAreAccounted
PROPERTIES
    EveryImportEnds
\* Workers idle for ever once every import has ended.
CHECK_DEADLOCK FALSE
