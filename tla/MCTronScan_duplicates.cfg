\* Two transfers, two timestamps, one scan that ends early.
SPECIFICATION Spec
CONSTANTS
    Scanners = {s1}
    Native = trx
    Tokens = {}
    Transfers <- MCTransfers
    MaxTime = 2
    PageSize = 1
    MaxPages = 2
    MaxFaults = 1
    None = None
INVARIANT
    RescanInsertsNoDuplicate
