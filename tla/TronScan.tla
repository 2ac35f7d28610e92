------------------------------ MODULE TronScan ------------------------------
(***************************************************************************)
(* The scan of one TRON address by scan_tron_address_with_provider: TRX    *)
(* and TRC20 transfers are read page by page behind two timestamp cursors, *)
(* then inserted one by one, and the cursors move last.  A scan may end    *)
(* anywhere, and begins again.  External, as the scan relies on it: a      *)
(* listing holds what is confirmed since min_timestamp, newest first, and  *)
(* its pages are of one moment.                                            *)
(***************************************************************************)
EXTENDS Integers, FiniteSetsExt

CONSTANTS
    Scanners,
    Native,         \* TRX
    Tokens,         \* selected TRC20 assets with a contract
    Transfers,      \* what may happen, of TRX or a token, with a payload that decodes or not
    MaxTime,        \* bound on block timestamps
    PageSize,       \* transfers on a page: limit
    MaxPages,       \* MAX_PROVIDER_PAGES_PER_SCAN
    MaxFaults,      \* bound on scans that end early
    None

Assumptions ==
    /\ MaxTime \in Nat /\ PageSize \in Nat \ {0} /\ MaxPages \in Nat \ {0}
    /\ Transfers \subseteq [id : Nat, asset : Tokens \cup {Native}, decodable : BOOLEAN]
    /\ IsFiniteSet(Transfers) /\ IsFiniteSet(Scanners)
    /\ Native \notin Tokens /\ None \notin Int

VARIABLES
    clock,      \* timestamp of the newest confirmed block
    time,       \* block_timestamp of a transfer, None before it is confirmed
    cursor,     \* "trx" and "trc20": last_scanned_block, None without a row
    events,     \* rows of address_events: a transfer and its log_index
    scanner,
    faults

vars == <<clock, time, cursor, events, scanner, faults>>

Kind(asset) == IF asset = Native THEN "trx" ELSE "trc20"
Assets == Tokens \cup {Native}
IdleScan == [pc |-> "idle", from |-> 0, todo |-> {}, found |-> {}, newest |-> None]

Init ==
    /\ clock = 0
    /\ time = [t \in Transfers |-> None]
    /\ cursor = [kind \in {"trx", "trc20"} |-> None]
    /\ events = {}
    /\ scanner = [s \in Scanners |-> IdleScan]
    /\ faults = 0

\* A block with some of the transfers is confirmed.
Confirm(ts) ==
    /\ clock < MaxTime
    /\ clock' = clock + 1
    /\ \A t \in ts : time[t] = None
    /\ time' = [t \in Transfers |-> IF t \in ts THEN clock + 1 ELSE time[t]]
    /\ UNCHANGED <<cursor, events, scanner, faults>>

\* A faulty start: the cursor's own timestamp again.
FromInclusive(kind) == IF cursor[kind] = None THEN 0 ELSE cursor[kind]
From(kind) == IF cursor[kind] = None THEN 0 ELSE cursor[kind] + 1

\* Context, selected assets and the TRX cursor are read.
Begin(s) ==
    /\ scanner[s].pc = "idle"
    /\ scanner' = [scanner EXCEPT ![s] =
                     [IdleScan EXCEPT !.pc = "trx", !.from = From("trx")]]
    /\ UNCHANGED <<clock, time, cursor, events, faults>>

\* The listing of an asset since a timestamp, and what pages of it say.
Listed(asset, from) == {t \in Transfers : t.asset = asset /\ time[t] \in from..clock}
Pages(asset, from) == (Cardinality(Listed(asset, from)) + PageSize - 1) \div PageSize

\* paged_log_index: the place in the listing, hashed with what the transfer is.
\* Of one block the listing may have either order: here that of the ids.
Newer(u, t) == time[u] > time[t] \/ (time[u] = time[t] /\ u.id > t.id)
LogIndex(t, from) == Cardinality({u \in Listed(t.asset, from) : Newer(u, t)})

Fetched(asset, from) == {[transfer |-> t, log_index |-> LogIndex(t, from)] :
                         t \in Listed(asset, from)}

Fits(asset, from) == Pages(asset, from) <= MaxPages
Decodes(asset, from) == \A t \in Listed(asset, from) : t.decodable

\* account_transactions_page until there is no fingerprint, then the TRC20 cursor.
\* What is no TransferContract is skipped.
FetchTrx(s) ==
    /\ scanner[s].pc = "trx"
    /\ Fits(Native, scanner[s].from)
    /\ scanner' = [scanner EXCEPT ![s] =
         [@ EXCEPT !.pc = "trc20", !.from = From("trc20"), !.todo = Tokens,
                   !.found = {e \in Fetched(Native, scanner[s].from) : e.transfer.decodable}]]
    /\ UNCHANGED <<clock, time, cursor, events, faults>>

\* account_trc20_transfers_page of one contract after the other.
FetchTrc20(s, token) ==
    /\ scanner[s].pc = "trc20"
    /\ token \in scanner[s].todo
    /\ Fits(token, scanner[s].from) /\ Decodes(token, scanner[s].from)
    /\ scanner' = [scanner EXCEPT ![s].todo = @ \ {token},
                                  ![s].found = @ \cup Fetched(token, scanner[s].from)]
    /\ UNCHANGED <<clock, time, cursor, events, faults>>

\* More pages than the limit, or a TRC20 payload that does not decode.
FetchFails(s) ==
    /\ \/ scanner[s].pc = "trx" /\ ~Fits(Native, scanner[s].from)
       \/ /\ scanner[s].pc = "trc20"
          /\ \E token \in scanner[s].todo :
               ~Fits(token, scanner[s].from) \/ ~Decodes(token, scanner[s].from)
    /\ scanner' = [scanner EXCEPT ![s] = IdleScan]
    /\ UNCHANGED <<clock, time, cursor, events, faults>>

\* tron_cursor_value of what was found.
Newest(s, kind) ==
    LET times == {time[e.transfer] : e \in {f \in scanner[s].found : Kind(f.transfer.asset) = kind}}
    IN IF times = {} THEN None ELSE Max(times)

AllFetched(s) ==
    /\ scanner[s].pc = "trc20" /\ scanner[s].todo = {}
    /\ scanner' = [scanner EXCEPT ![s].pc = "insert",
            ![s].newest = [kind \in {"trx", "trc20"} |-> Newest(s, kind)]]
    /\ UNCHANGED <<clock, time, cursor, events, faults>>

\* insert_event_and_outbox_if_not_exists: the unique index is on the transaction
\* and log_index, the asset and the address.
InsertTransfer(s) ==
    /\ scanner[s].pc = "insert"
    /\ \E e \in scanner[s].found :
         /\ Kind(e.transfer.asset) = "trx"
              \/ \A f \in scanner[s].found : Kind(f.transfer.asset) = "trc20"
         /\ events' = events \cup {e}
         /\ scanner' = [scanner EXCEPT ![s].found = @ \ {e}]
    /\ UNCHANGED <<clock, time, cursor, faults>>

Greatest(old, new) == IF old = None THEN new ELSE Max({old, new})
Upserted(kind, value) == IF value = None THEN cursor
                         ELSE [cursor EXCEPT ![kind] = Greatest(@, value)]

UpsertTrxCursor(s) ==
    /\ scanner[s].pc = "insert" /\ scanner[s].found = {}
    /\ cursor' = Upserted("trx", scanner[s].newest["trx"])
    /\ scanner' = [scanner EXCEPT ![s].pc = "upsert"]
    /\ UNCHANGED <<clock, time, events, faults>>

\* One cursor for all contracts of the address.
UpsertTrc20Cursor(s) ==
    /\ scanner[s].pc = "upsert"
    /\ cursor' = Upserted("trc20", scanner[s].newest["trc20"])
    /\ scanner' = [scanner EXCEPT ![s] = IdleScan]
    /\ UNCHANGED <<clock, time, events, faults>>

\* An error of the provider or the database, a cancelled lease or a crash.
ScanEnds(s) ==
    /\ scanner[s].pc # "idle"
    /\ faults < MaxFaults
    /\ faults' = faults + 1
    /\ scanner' = [scanner EXCEPT ![s] = IdleScan]
    /\ UNCHANGED <<clock, time, cursor, events>>

ScanStep(s) ==
    \/ Begin(s) \/ FetchTrx(s) \/ (\E token \in Tokens : FetchTrc20(s, token)) \/ FetchFails(s)
    \/ AllFetched(s) \/ InsertTransfer(s) \/ UpsertTrxCursor(s) \/ UpsertTrc20Cursor(s)

Next ==
    \/ \E ts \in SUBSET Transfers : Confirm(ts)
    \/ \E s \in Scanners : ScanStep(s) \/ ScanEnds(s)

Fairness == \A s \in Scanners : WF_vars(ScanStep(s))

Spec == Init /\ [][Next]_vars /\ Fairness

-----------------------------------------------------------------------------
TypeOK ==
    /\ clock \in 0..MaxTime
    /\ time \in [Transfers -> 1..MaxTime \cup {None}]
    /\ cursor \in [{"trx", "trc20"} -> 0..MaxTime \cup {None}]
    /\ events \subseteq [transfer : Transfers, log_index : 0..Cardinality(Transfers)]

Confirmed(t) == time[t] # None
Passed(t) == Confirmed(t) /\ cursor[Kind(t.asset)] # None /\ time[t] <= cursor[Kind(t.asset)]
Reported(t) == \E e \in events : e.transfer = t

\* The TRX cursor passes no transfer that is not an event, wherever a scan ends
\* between its pages, its inserts and its two cursors.
TrxCursorCovers ==
    \A t \in Transfers : t.asset = Native /\ t.decodable /\ Passed(t) => Reported(t)

\* One cursor serves all contracts of the address, and their listings are of
\* different moments: a transfer may be left behind for good, against the aim
\* of the pagination design not to miss any silently. But then another contract
\* is to blame, with a transfer at least as new that is an event; with one contract
\* selected there is no other.
LostOnlyToAnotherToken ==
    \A t \in Transfers : t.asset \in Tokens /\ Passed(t) =>
        Reported(t) \/ \E e \in events : /\ e.transfer.asset \in Tokens \ {t.asset}
                                         /\ time[e.transfer] >= time[t]

NoTransferIsPassed == TrxCursorCovers /\ LostOnlyToAnotherToken

\* While no scan ended early, and none overlaps another, a transfer has one event.
OneEventUnlessInterrupted ==
    faults = 0 /\ Cardinality(Scanners) = 1 =>
        \A e, f \in events : e.transfer = f.transfer => e = f

\* "Scanning again does not insert a transfer event again": the pagination
\* reliability design, of what the unique index is for.
RescanInsertsNoDuplicate ==
    \A e, f \in events : e.transfer = f.transfer => e = f

\* A confirmed TRX transfer becomes an event, unless the listings have grown past
\* the page limit or hold a TRC20 payload that does not decode, for good.
Obstructed ==
    \/ ~Fits(Native, From("trx"))
    \/ \E token \in Tokens : \/ ~Fits(token, From("trc20"))
                             \/ ~Decodes(token, From("trc20"))
Due(t) == t.asset = Native /\ t.decodable /\ Confirmed(t)
Settled(t) == Reported(t) \/ Obstructed

Owed == \E t \in Transfers : Due(t) /\ ~Settled(t)

EveryTrxTransferIsReported == []<>~Owed
=============================================================================
