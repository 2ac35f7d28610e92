\* The parts of a chain scan, each with its interleavings and its faults.
SPECIFICATION FairSpec
CONSTANTS
    None = None
    Sequential <- MCSequential
    Overlapping <- MCOverlapping
    Shared <- MCShared
    Sole <- MCSole
    Bitcoin <- MCBitcoin
    Providers <- MCProviders
INVARIANTS
    TypesOK
    NoTransferIsPassed
    BalanceStory
    OneEventUnlessInterrupted
    OpenCircuitHasItsFailures
    WithinRateLimit
PROPERTIES
    ScansGetThrough
