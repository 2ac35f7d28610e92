----------------------------- MODULE ChainScans -----------------------------
(***************************************************************************)
(* The parts of a chain scan.  One behaviour is about one of them, chosen  *)
(* initially; what the parts have in common, a scanner and a cursor, they  *)
(* share here, and what is another part's stays None.  A part comes with   *)
(* the module of its proofs, so that its lemmas can be cited for it here.  *)
(***************************************************************************)
EXTENDS Integers

\* The parameters of each part, a record.
CONSTANTS
    Sequential,     \* of EvmScan: scans one after another
    Overlapping,    \* of EvmScan: scans that overlap
    Shared,         \* of TronScan: contracts that share their cursor
    Sole,           \* of TronScan: one contract
    Bitcoin,        \* of BtcScan
    Providers,      \* of ProviderPool
    None

VARIABLES part,
    scanner, faults, cursor, rows, head,
    minedIn, selected, snapshots, steady, base, told, muddled,
    clock, time, events,
    block,
    active, health, key, streak, admitted

shared == <<part, scanner, faults, cursor, rows, head>>
evm == <<minedIn, selected, snapshots, steady, base, told, muddled>>
tron == <<clock, time, events>>
pool == <<active, health, key, streak, admitted>>
all == <<shared, evm, tron, block, pool>>

Evm == INSTANCE EvmScanProofs WITH
    Scanners <- Sequential.scanners, Tokens <- Sequential.tokens, Native <- Sequential.native,
    Selections <- Sequential.selections, Transfers <- Sequential.transfers, Balances <- Sequential.balances,
    MaxBlock <- Sequential.maxBlock, MaxLag <- Sequential.maxLag, Confirmations <- Sequential.confirmations,
    InitialWindow <- Sequential.initialWindow, MaxSpan <- Sequential.maxSpan, MaxFaults <- Sequential.maxFaults

EvmOverlap == INSTANCE EvmScanProofs WITH
    Scanners <- Overlapping.scanners, Tokens <- Overlapping.tokens, Native <- Overlapping.native,
    Selections <- Overlapping.selections, Transfers <- Overlapping.transfers, Balances <- Overlapping.balances,
    MaxBlock <- Overlapping.maxBlock, MaxLag <- Overlapping.maxLag, Confirmations <- Overlapping.confirmations,
    InitialWindow <- Overlapping.initialWindow, MaxSpan <- Overlapping.maxSpan, MaxFaults <- Overlapping.maxFaults

Tron == INSTANCE TronScanProofs WITH
    Scanners <- Shared.scanners, Native <- Shared.native, Tokens <- Shared.tokens,
    Transfers <- Shared.transfers, MaxTime <- Shared.maxTime, PageSize <- Shared.pageSize,
    MaxPages <- Shared.maxPages, MaxFaults <- Shared.maxFaults

TronSole == INSTANCE TronScanProofs WITH
    Scanners <- Sole.scanners, Native <- Sole.native, Tokens <- Sole.tokens,
    Transfers <- Sole.transfers, MaxTime <- Sole.maxTime, PageSize <- Sole.pageSize,
    MaxPages <- Sole.maxPages, MaxFaults <- Sole.maxFaults

Btc == INSTANCE BtcScan WITH
    Scanners <- Bitcoin.scanners, Transactions <- Bitcoin.transactions,
    MaxBlock <- Bitcoin.maxBlock, PageSize <- Bitcoin.pageSize, MaxPages <- Bitcoin.maxPages,
    Overlap <- Bitcoin.overlap, MaxFaults <- Bitcoin.maxFaults

Pool == INSTANCE ProviderPool WITH
    Scanners <- Providers.scanners, Providers <- Providers.all, Stable <- Providers.stable,
    Limit <- Providers.limit, Threshold <- Providers.threshold, Cooldown <- Providers.cooldown,
    KeyTTL <- Providers.keyTTL, MaxAge <- Providers.maxAge, MaxFaults <- Providers.maxFaults

ASSUME PartsAssumption ==
    /\ Evm!Assumptions /\ EvmOverlap!Assumptions /\ Tron!Assumptions /\ TronSole!Assumptions
    /\ Btc!Assumptions /\ Pool!Assumptions

EvmIdle == /\ minedIn = None /\ selected = None /\ snapshots = None
           /\ steady = None /\ base = None /\ told = None /\ muddled = None
TronIdle == clock = None /\ time = None /\ events = None
PoolIdle == active = None /\ health = None /\ key = None /\ streak = None /\ admitted = None
BtcIdle == block = None
ChainIdle == head = None /\ rows = None

Init ==
    \/ part = "evm" /\ Evm!Init /\ TronIdle /\ BtcIdle /\ PoolIdle
    \/ part = "evm overlap" /\ EvmOverlap!Init /\ TronIdle /\ BtcIdle /\ PoolIdle
    \/ part = "tron" /\ Tron!Init /\ EvmIdle /\ BtcIdle /\ PoolIdle /\ ChainIdle
    \/ part = "tron sole" /\ TronSole!Init /\ EvmIdle /\ BtcIdle /\ PoolIdle /\ ChainIdle
    \/ part = "btc" /\ Btc!Init /\ EvmIdle /\ TronIdle /\ PoolIdle
    \/ part = "pool" /\ Pool!Init /\ EvmIdle /\ TronIdle /\ BtcIdle /\ ChainIdle /\ cursor = None

EvmRest == UNCHANGED <<part, tron, block, pool>>
TronRest == UNCHANGED <<part, rows, head, evm, block, pool>>
BtcRest == UNCHANGED <<part, evm, tron, pool>>
PoolRest == UNCHANGED <<part, cursor, rows, head, evm, tron, block>>

Next ==
    \/ part = "evm" /\ Evm!Next /\ EvmRest
    \/ part = "evm overlap" /\ EvmOverlap!Next /\ EvmRest
    \/ part = "tron" /\ Tron!Next /\ TronRest
    \/ part = "tron sole" /\ TronSole!Next /\ TronRest
    \/ part = "btc" /\ Btc!Next /\ BtcRest
    \/ part = "pool" /\ Pool!Next /\ PoolRest

Spec == Init /\ [][Next]_all

-----------------------------------------------------------------------------
\* The types of each part, of the part the behaviour is about.
TypesOK ==
    /\ part = "evm" => Evm!TypeOK
    /\ part = "evm overlap" => EvmOverlap!TypeOK
    /\ part = "tron" => Tron!TypeOK
    /\ part = "tron sole" => TronSole!TypeOK
    /\ part = "btc" => Btc!TypeOK
    /\ part = "pool" => Pool!TypeOK

\* No cursor passes a confirmed transfer without an event, nor a block that is not
\* confirmed, wherever scans of EVM blocks, TRON pages and BTC pages end, overlap,
\* meet another node or find another selection. Only a cursor shared by several
\* TRC20 contracts may pass one, for one at least as new of another contract.
NoTransferIsPassed ==
    /\ part = "evm" => Evm!NoTransferIsPassed
    /\ part = "evm overlap" => EvmOverlap!NoTransferIsPassed
    /\ part = "tron" => Tron!NoTransferIsPassed
    /\ part = "tron sole" => TronSole!NoTransferIsPassed
    /\ part = "btc" => Btc!NoTransferIsPassed
\* The balance_change events of scan_evm_native_balance tell the newest snapshot,
\* unless two scans interleave there or one ends between the two inserts.
BalanceStory == part = "evm overlap" => EvmOverlap!BalanceStory
\* The log_index of tron_transfer_log_index makes one event of a transfer as long
\* as every scan ends with its cursors.
OneEventUnlessInterrupted ==
    /\ part = "tron" => Tron!OneEventUnlessInterrupted
    /\ part = "tron sole" => TronSole!OneEventUnlessInterrupted

\* record_provider_failure opens a circuit only after the failures it takes, with
\* no success of any worker recorded in between.
OpenCircuitHasItsFailures == part = "pool" => Pool!OpenCircuitHasItsFailures
\* try_acquire_provider_qps lets the scans claimed in one second, of all workers,
\* use a provider no more often than its limit.
WithinRateLimit == part = "pool" => Pool!WithinRateLimit
=============================================================================
