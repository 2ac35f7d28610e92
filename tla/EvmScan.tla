------------------------------- MODULE EvmScan -------------------------------
(***************************************************************************)
(* The scan of one EVM address by scan_evm_address_with_provider: the      *)
(* native balance, its snapshots and its balance_change events; then the   *)
(* ERC20 transfer logs in bounded block ranges behind the address's        *)
(* cursor.  Scans overlap where a lease was lost; each may end anywhere,   *)
(* with a provider or database error or with its process.  The next        *)
(* candidate provider starts the same scan again, and its node may lag.    *)
(***************************************************************************)
EXTENDS Integers, FiniteSets, Sequences, FiniteSetsExt

CONSTANTS
    Scanners,
    Tokens,             \* ERC20 assets of the chain
    Native,             \* its native asset
    Selections,         \* the selections a user may make, none of them empty
    Transfers,          \* what may be mined: of a token, "incoming", "outgoing" or
                        \* both ways, with a log that decodes or does not
    Balances,           \* what a node may say of the native balance
    MaxBlock,           \* bound on the chain
    MaxLag,             \* blocks a provider's node may be behind
    Confirmations,      \* chains.default_confirmations
    InitialWindow,      \* EVM_TRANSFER_INITIAL_WINDOW_BLOCKS
    MaxSpan,            \* EVM_LOG_MAX_BLOCK_SPAN
    MaxFaults,          \* bound on scans that end early
    None

Assumptions ==
    /\ MaxBlock \in Nat /\ MaxLag \in Nat /\ Confirmations \in Nat
    /\ Selections \subseteq (SUBSET (Tokens \cup {Native})) \ {{}}
    /\ InitialWindow \in Nat \ {0} /\ MaxSpan \in Nat \ {0}
    /\ Transfers \subseteq [token : Tokens, ways : (SUBSET {"incoming", "outgoing"}) \ {{}},
                            decodable : BOOLEAN]
    /\ None \notin Int \cup Balances \cup Scanners

VARIABLES
    head,       \* newest block of the chain
    minedIn,    \* the block of a transfer, None before it is mined
    selected,   \* watched_address_assets
    cursor,     \* scan_cursors.last_scanned_block, None without a row
    rows,       \* rows of address_events per transfer
    snapshots,  \* the two newest balance_snapshots, each with the scan it is new to
    scanner,    \* the memory of each scan
    faults,
    steady,     \* history: tokens selected all along
    base,       \* history: first block of the initial windows that moved the cursor
    told,       \* history: the balance the snapshot and the events have told
    muddled     \* history: snapshots of two scans interleaved, or one had no comparison

vars == <<head, minedIn, selected, cursor, rows, snapshots, scanner, faults,
          steady, base, told, muddled>>

Blocks == 0..MaxBlock
Filters == Tokens \X {"incoming", "outgoing"}
IdleScan == [pc |-> "idle", assets |-> {}, latest |-> 0, from |-> 0, to |-> 0,
             first |-> None, todo |-> {}, logs |-> {}]

Init ==
    /\ head = 0
    /\ minedIn = [t \in Transfers |-> None]
    /\ selected \in Selections
    /\ steady = selected \cap Tokens
    /\ cursor = None
    /\ rows = [t \in Transfers |-> 0]
    /\ snapshots = <<>>
    /\ scanner = [s \in Scanners |-> IdleScan]
    /\ faults = 0
    /\ base = 0
    /\ told = None
    /\ muddled = FALSE

chain == <<head, minedIn>>
story == <<snapshots, told, muddled>>
Go(s, pc) == scanner' = [scanner EXCEPT ![s].pc = pc]

\* A block with some of the transfers is added to the chain.
Mine(ts) ==
    /\ head < MaxBlock
    /\ head' = head + 1
    /\ \A t \in ts : minedIn[t] = None
    /\ minedIn' = [t \in Transfers |-> IF t \in ts THEN head + 1 ELSE minedIn[t]]
    /\ UNCHANGED <<selected, cursor, rows, story, scanner, faults, steady, base>>

\* update_watched_address replaces the whole selection, never by an empty one;
\* the cursor of the address stays where it is.
SelectAssets(assets) ==
    /\ assets # selected
    /\ selected' = assets
    /\ steady' = steady \cap assets
    /\ UNCHANGED <<chain, cursor, rows, story, scanner, faults, base>>

\* selected_assets_for_address, before the first request.
Begin(s) ==
    /\ scanner[s].pc = "idle"
    /\ scanner' = [scanner EXCEPT ![s] =
                     [IdleScan EXCEPT !.pc = "latest", !.assets = selected]]
    /\ UNCHANGED <<chain, selected, cursor, rows, story, faults, steady, base>>

\* eth_blockNumber, by a node that may be behind.
ReadLatest(s) ==
    /\ scanner[s].pc = "latest"
    /\ \E latest \in head - MaxLag .. head :
         /\ latest >= 0
         /\ scanner' = [scanner EXCEPT
                ![s].latest = latest,
                ![s].pc = IF Native \in scanner[s].assets THEN "balance" ELSE "cursor"]
    /\ UNCHANGED <<chain, selected, cursor, rows, story, faults, steady, base>>

LastTwo(q) == IF Len(q) > 2 THEN Tail(q) ELSE q
Disowned(s) == [i \in DOMAIN snapshots |->
    IF snapshots[i].of = s THEN [snapshots[i] EXCEPT !.of = None] ELSE snapshots[i]]

\* eth_getBalance and the INSERT of its snapshot.
InsertSnapshot(s, value) ==
    /\ scanner[s].pc = "balance"
    /\ snapshots' = LastTwo(Append(snapshots, [value |-> value, of |-> s]))
    /\ told' = IF snapshots = <<>> THEN value ELSE told
    /\ muddled' = (muddled \/ \E r \in Scanners \ {s} : scanner[r].pc = "compare")
    /\ Go(s, "compare")
    /\ UNCHANGED <<chain, selected, cursor, rows, faults, steady, base>>

\* latest_balance_snapshot other than its own.
\* A faulty read: its own snapshot is not excluded.
PreviousIncludingOwn(s) == snapshots[Len(snapshots)].value
Previous(s) == LET others == {i \in DOMAIN snapshots : snapshots[i].of # s}
               IN IF others = {} THEN None ELSE snapshots[Max(others)].value
Current(s) == CHOOSE v \in Balances :
    \E i \in DOMAIN snapshots : snapshots[i] = [value |-> v, of |-> s]

\* should_emit_balance_change and the INSERT of the event: the story goes on
\* from the balance it was at, or it is lost.
CompareBalance(s) ==
    /\ scanner[s].pc = "compare"
    /\ IF ~\E i \in DOMAIN snapshots : snapshots[i].of = s THEN UNCHANGED told
       ELSE told' = IF Previous(s) \in {None, Current(s)} THEN told
                    ELSE IF Previous(s) = told THEN Current(s) ELSE None
    /\ snapshots' = Disowned(s)
    /\ Go(s, "cursor")
    /\ UNCHANGED <<chain, selected, cursor, rows, muddled, faults, steady, base>>

\* evm_transfer_scan_range: nothing below the initial window, nothing that is
\* not confirmed.
ConfirmedTo(latest) == latest - Confirmations
FirstBlock(latest) ==
    IF cursor # None THEN cursor + 1
    ELSE Max({ConfirmedTo(latest) - InitialWindow + 1, 0})

\* bounded_block_ranges, one range at a time.
RangeEnd(from, to) == Min({from + MaxSpan - 1, to})

FiltersOf(s) == {f \in Filters : f[1] \in scanner[s].assets}

ReadCursor(s) ==
    LET from == FirstBlock(scanner[s].latest)
        to == ConfirmedTo(scanner[s].latest)
    IN /\ scanner[s].pc = "cursor"
       /\ scanner' = [scanner EXCEPT ![s] =
            IF from <= to /\ FiltersOf(s) # {}
            THEN [@ EXCEPT !.pc = "logs", !.from = from, !.to = to, !.todo = FiltersOf(s),
                           !.first = IF cursor = None THEN from ELSE None]
            ELSE IdleScan]
       /\ UNCHANGED <<chain, selected, cursor, rows, story, faults, steady, base>>

\* eth_getLogs of one asset and one direction: a transfer of the address to
\* itself is in both answers.
InRange(s, t) == minedIn[t] \in scanner[s].from .. RangeEnd(scanner[s].from, scanner[s].to)

GetLogs(s, f) ==
    /\ scanner[s].pc = "logs"
    /\ scanner[s].logs = {}
    /\ f \in scanner[s].todo
    /\ scanner' = [scanner EXCEPT
            ![s].todo = @ \ {f},
            ![s].logs = {t \in Transfers : InRange(s, t) /\ t.token = f[1] /\ f[2] \in t.ways}]
    /\ UNCHANGED <<chain, selected, cursor, rows, story, faults, steady, base>>

\* insert_event_and_outbox_if_not_exists, each log in a transaction of its own.
\* A faulty insert: no unique index.
InsertedAgain(t) == [rows EXCEPT ![t] = @ + 1]
InsertedOnce(t) == [rows EXCEPT ![t] = IF @ = 0 THEN 1 ELSE @]

InsertTransfer(s, t) ==
    /\ scanner[s].pc = "logs"
    /\ t \in scanner[s].logs
    /\ t.decodable
    /\ rows' = InsertedOnce(t)
    /\ scanner' = [scanner EXCEPT ![s].logs = @ \ {t}]
    /\ UNCHANGED <<chain, selected, cursor, story, faults, steady, base>>

\* decode_erc20_transfer_log refuses a log, and that ends the scan.
DecodeFails(s) ==
    /\ scanner[s].pc = "logs"
    /\ \E t \in scanner[s].logs : ~t.decodable
    /\ scanner' = [scanner EXCEPT ![s] = IdleScan]
    /\ UNCHANGED <<chain, selected, cursor, rows, story, faults, steady, base>>

\* upsert_scan_cursor at the end of a range; the scan goes on with the next one.
Greatest(old, new) == IF old = None THEN new ELSE Max({old, new})

\* A faulty upsert: the end of the whole scan after its first range.
UpsertCursorWhole(s) ==
    /\ scanner[s].pc = "logs"
    /\ scanner[s].todo = {} /\ scanner[s].logs = {}
    /\ cursor' = Greatest(cursor, scanner[s].to)
    /\ base' = IF scanner[s].first = None THEN base ELSE Max({base, scanner[s].first})
    /\ scanner' = [scanner EXCEPT ![s] =
         IF RangeEnd(@.from, @.to) = @.to THEN IdleScan
         ELSE [@ EXCEPT !.from = RangeEnd(scanner[s].from, scanner[s].to) + 1, !.todo = FiltersOf(s)]]
    /\ UNCHANGED <<chain, selected, rows, story, faults, steady>>

UpsertCursor(s) ==
    LET last == RangeEnd(scanner[s].from, scanner[s].to)
    IN /\ scanner[s].pc = "logs"
       /\ scanner[s].todo = {} /\ scanner[s].logs = {}
       /\ cursor' = Greatest(cursor, last)
       /\ base' = IF scanner[s].first = None THEN base ELSE Max({base, scanner[s].first})
       /\ scanner' = [scanner EXCEPT ![s] =
            IF last = scanner[s].to THEN IdleScan
            ELSE [@ EXCEPT !.from = last + 1, !.todo = FiltersOf(s)]]
       /\ UNCHANGED <<chain, selected, rows, story, faults, steady>>

\* An error of the provider or the database, a cancelled lease or a crash.
ScanEnds(s) ==
    /\ scanner[s].pc # "idle"
    /\ faults < MaxFaults
    /\ faults' = faults + 1
    /\ muddled' = (muddled \/ scanner[s].pc = "compare")
    /\ snapshots' = Disowned(s)
    /\ scanner' = [scanner EXCEPT ![s] = IdleScan]
    /\ UNCHANGED <<chain, selected, cursor, rows, told, steady, base>>

ScanStep(s) ==
    \/ Begin(s) \/ ReadLatest(s) \/ CompareBalance(s) \/ ReadCursor(s)
    \/ \E value \in Balances : InsertSnapshot(s, value)
    \/ \E f \in Filters : GetLogs(s, f)
    \/ \E t \in Transfers : InsertTransfer(s, t)
    \/ DecodeFails(s) \/ UpsertCursor(s)

Next ==
    \/ \E ts \in SUBSET Transfers : Mine(ts)
    \/ \E assets \in Selections : SelectAssets(assets)
    \/ \E s \in Scanners : ScanStep(s) \/ ScanEnds(s)

Fairness == \A s \in Scanners : WF_vars(ScanStep(s))

Spec == Init /\ [][Next]_vars /\ Fairness

-----------------------------------------------------------------------------
TypeOK ==
    /\ head \in Blocks
    /\ minedIn \in [Transfers -> Blocks \cup {None}]
    /\ selected \in Selections
    /\ cursor \in Blocks \cup {None}
    /\ rows \in [Transfers -> 0..1]
    /\ \A s \in Scanners : scanner[s].todo \subseteq Filters

\* The cursor passes no block whose transfers are not events: whatever ends a
\* scan in the middle of a range, however scans overlap, and whatever else is
\* added to the selection or taken from it meanwhile, each transfer of a token
\* selected all along is an event once the cursor is at its block. Only what
\* was mined before the first scanned window is left out.
CursorCovers ==
    \A t \in Transfers :
        /\ minedIn[t] # None /\ cursor # None
        /\ t.token \in steady
        /\ base <= minedIn[t] /\ minedIn[t] <= cursor
        => rows[t] = 1

\* The cursor stays behind the confirmed blocks, whichever node was asked.
CursorIsConfirmed == cursor # None => cursor <= head - Confirmations

NoTransferIsPassed == CursorCovers /\ CursorIsConfirmed

\* While the comparisons of two scans do not interleave and none is lost, the
\* balance_change events, told one after the other from the first snapshot on,
\* say what the newest snapshot says.
BalanceStory ==
    ~muddled /\ snapshots # <<>> /\ (\A s \in Scanners : scanner[s].pc # "compare")
    => told = snapshots[Len(snapshots)].value

\* A confirmed transfer of a token selected all along becomes an event, or it
\* was mined below the first window, or a log that does not decode is in the
\* way of its range for good.
Mined(t) == minedIn[t] # None
Blocked(t) == \E u \in Transfers :
    ~u.decodable /\ u.token \in selected /\ Mined(u) /\ minedIn[u] < minedIn[t] + MaxSpan
Excused(t) == minedIn[t] < base \/ t.token \notin steady \/ Blocked(t)

Due(t) == /\ t.token \in steady /\ t.decodable
          /\ Mined(t) /\ minedIn[t] <= head - Confirmations - MaxLag
Settled(t) == rows[t] = 1 \/ (Mined(t) /\ Excused(t))

Owed == \E t \in Transfers : Due(t) /\ ~Settled(t)

EveryTransferIsReported == []<>~Owed
=============================================================================
