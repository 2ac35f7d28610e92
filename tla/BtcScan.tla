------------------------------- MODULE BtcScan -------------------------------
(***************************************************************************)
(* The scan of one BTC address by scan_btc_address_with_provider: the      *)
(* confirmed transactions of the address are read page by page, newest     *)
(* first, down to an empty page; those at or above the cursor's block are  *)
(* inserted one by one, and the cursor moves last.  External: a page       *)
(* continues after the last transaction of the one before, and an indexer  *)
(* may still be adding transactions of its newest block.                   *)
(***************************************************************************)
EXTENDS Integers, FiniteSets, FiniteSetsExt

CONSTANTS
    Scanners,
    Transactions,   \* numbers, in the order of the listing
    MaxBlock,       \* bound on the chain
    PageSize,       \* transactions on a page
    MaxPages,       \* MAX_PROVIDER_PAGES_PER_SCAN
    Overlap,        \* BTC_CURSOR_OVERLAP_BLOCKS
    MaxFaults,      \* bound on scans that end early
    None

Assumptions ==
    /\ Transactions \subseteq Nat \ {0} /\ IsFiniteSet(Transactions)
    /\ MaxBlock \in Nat \ {0} /\ PageSize \in Nat \ {0} /\ MaxPages \in Nat \ {0}
    /\ Overlap \in Nat /\ None \notin Int

VARIABLES
    head,       \* newest block of the indexer
    block,      \* the block of a transaction, None before it is indexed
    cursor,     \* scan_cursors.last_scanned_block, None without a row
    rows,       \* rows of address_events per transaction
    scanner,
    faults

vars == <<head, block, cursor, rows, scanner, faults>>

IdleScan == [pc |-> "idle", from |-> 0, pages |-> 0, last |-> None, found |-> {}, newest |-> None]

Init ==
    /\ head = 1
    /\ block = [t \in Transactions |-> None]
    /\ cursor = None
    /\ rows = [t \in Transactions |-> 0]
    /\ scanner = [s \in Scanners |-> IdleScan]
    /\ faults = 0

NewBlock ==
    /\ head < MaxBlock
    /\ head' = head + 1
    /\ UNCHANGED <<block, cursor, rows, scanner, faults>>

\* A transaction of the newest block is indexed.
Index(t) ==
    /\ block[t] = None
    /\ block' = [block EXCEPT ![t] = head]
    /\ UNCHANGED <<head, cursor, rows, scanner, faults>>

\* The address holds the native asset; the balance snapshot it inserts makes no
\* event. btc_scan_from_block goes back over the last blocks.
FromBlock == IF cursor = None THEN 0 ELSE Max({cursor - Max({Overlap - 1, 0}), 0})

Begin(s) ==
    /\ scanner[s].pc = "idle"
    /\ scanner' = [scanner EXCEPT ![s] = [IdleScan EXCEPT !.pc = "pages", !.from = FromBlock]]
    /\ UNCHANGED <<head, block, cursor, rows, faults>>

\* The listing now, newest first, and its page after a transaction.
Listed == {t \in Transactions : block[t] # None}
Before(t, u) == block[t] > block[u] \/ (block[t] = block[u] /\ t > u)
PageAfter(last) ==
    LET rest == {t \in Listed : last = None \/ Before(last, t)}
    IN {t \in rest : Cardinality({u \in rest : Before(u, t)}) < PageSize}
LastOf(page) == CHOOSE t \in page : \A u \in page \ {t} : Before(u, t)

\* should_process_btc_transaction_page refuses one page too many, even though
\* only older blocks are on it.
ReadPage(s) ==
    LET page == PageAfter(scanner[s].last)
    IN /\ scanner[s].pc = "pages"
       /\ scanner' = [scanner EXCEPT ![s] =
            IF page = {} THEN
                [scanner[s] EXCEPT !.pc = "insert",
                    !.newest = IF scanner[s].found = {} THEN None
                               ELSE Max({block[t] : t \in scanner[s].found})]
            ELSE IF scanner[s].pages >= MaxPages THEN IdleScan
            ELSE [scanner[s] EXCEPT !.pages = @ + 1, !.last = LastOf(page),
                    !.found = @ \cup {t \in page : block[t] >= scanner[s].from}]]
       /\ UNCHANGED <<head, block, cursor, rows, faults>>

\* insert_event_and_outbox_if_not_exists: a transaction without log_index is
\* unique per address and asset.
InsertedOnce(t) == [rows EXCEPT ![t] = IF @ = 0 THEN 1 ELSE @]

InsertTransfer(s) ==
    /\ scanner[s].pc = "insert"
    /\ \E t \in scanner[s].found :
         /\ rows' = InsertedOnce(t)
         /\ scanner' = [scanner EXCEPT ![s].found = @ \ {t}]
    /\ UNCHANGED <<head, block, cursor, faults>>

UpsertCursor(s) ==
    /\ scanner[s].pc = "insert" /\ scanner[s].found = {}
    /\ cursor' = IF scanner[s].newest = None THEN cursor
                 ELSE IF cursor = None THEN scanner[s].newest
                 ELSE Max({cursor, scanner[s].newest})
    /\ scanner' = [scanner EXCEPT ![s] = IdleScan]
    /\ UNCHANGED <<head, block, rows, faults>>

\* An error of the provider or the database, a cancelled lease or a crash.
ScanEnds(s) ==
    /\ scanner[s].pc # "idle"
    /\ faults < MaxFaults
    /\ faults' = faults + 1
    /\ scanner' = [scanner EXCEPT ![s] = IdleScan]
    /\ UNCHANGED <<head, block, cursor, rows>>

ScanStep(s) == Begin(s) \/ ReadPage(s) \/ InsertTransfer(s) \/ UpsertCursor(s)

Next ==
    \/ NewBlock
    \/ \E t \in Transactions : Index(t)
    \/ \E s \in Scanners : ScanStep(s) \/ ScanEnds(s)

Fairness == \A s \in Scanners : WF_vars(ScanStep(s))

Spec == Init /\ [][Next]_vars /\ Fairness

-----------------------------------------------------------------------------
TypeOK ==
    /\ head \in 1..MaxBlock
    /\ block \in [Transactions -> 1..MaxBlock \cup {None}]
    /\ cursor \in 1..MaxBlock \cup {None}
    /\ rows \in [Transactions -> 0..1]

\* A transaction below the cursor's block is an event, also where the indexer was
\* still adding to its newest block while the pages of a scan were read.
NoTransferIsPassed ==
    \A t \in Transactions :
        block[t] # None /\ cursor # None /\ block[t] < cursor => rows[t] = 1

\* So is one at the cursor's block, sooner or later; and any other, while the
\* whole history of the address fits the page limit.
TooLong == Cardinality(Listed) > MaxPages * PageSize
Due(t) == block[t] # None
Settled(t) == rows[t] = 1 \/ TooLong

Owed == \E t \in Transactions : Due(t) /\ ~Settled(t)

EveryTransactionIsReported == []<>~Owed
=============================================================================
