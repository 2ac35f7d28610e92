\* The services around the scans, each with its interleavings and its faults.
SPECIFICATION FairSpec
CONSTANTS
    Custodian <- MCCustodian
    Polled <- MCPolled
    Hooked <- MCHooked
    Connected <- MCConnected
    Rescanned <- MCRescanned
    Deployment <- MCDeployment
    Woken <- MCWoken
    Settings <- MCSettings
    Relocated <- MCRelocated
    Digits <- MCDigits
    None = None
INVARIANTS
    TypesOK
    UpdatesBindOnce
    SocketStory
    ShutdownIsComplete
    NobodySleepsThroughAJob
    SettingsAreUsable
    AddressIsOfOneChain
    AmountsAreNumbers
    AnswersAreUnderstood
PROPERTIES
    CustodyIsExclusive
    RescanTellsTheChain
    EverythingIsServed
CHECK_DEADLOCK FALSE
