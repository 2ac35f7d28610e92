---------------------------- MODULE EvmScanProofs ----------------------------
(***************************************************************************)
(* The cursor of an EVM address passes no transfer, for any number of      *)
(* overlapping scans, any selections and transfers, any lag of the nodes   *)
(* and any width of the ranges.                                            *)
(***************************************************************************)
EXTENDS EvmScan, TLAPS

Scan == [pc : {"idle", "latest", "balance", "compare", "cursor", "logs"},
         assets : SUBSET (Tokens \cup {Native}),
         latest : Nat, from : Nat, to : Nat, first : Nat \cup {None},
         todo : SUBSET Filters, logs : SUBSET Transfers]

Types ==
    /\ head \in Nat /\ head <= MaxBlock
    /\ minedIn \in [Transfers -> Nat \cup {None}]
    /\ selected \in Selections
    /\ cursor \in Nat \cup {None}
    /\ rows \in [Transfers -> 0..1]
    /\ scanner \in [Scanners -> Scan]
    /\ base \in Nat
    /\ steady \subseteq selected

\* What a scan m may count on, of the chain's head, the cursor and the histories:
\* its selection still holds every token selected all along; it was told of no
\* block beyond the head; and all below its range is behind the cursor, or below
\* the first window.
Latest(m, h) == m.pc \notin {"idle", "latest"} => m.latest <= h
Selection(m, st) == m.pc # "idle" => st \subseteq m.assets
Window(m, h, c, b) ==
    m.pc = "logs" =>
        /\ m.from <= m.to /\ m.to <= h - Confirmations
        /\ m.first = None => c # None /\ m.from <= c + 1
        /\ m.first # None => \/ m.from = m.first
                             \/ c # None /\ m.from <= c + 1 /\ m.first <= b

\* A transfer mined in the range is an event, or a log still to be inserted, or a
\* request still to be sent will find it.
Pending(m, t) == t \in m.logs \/ \E way \in t.ways : <<t.token, way>> \in m.todo
RangeOk(m, mined, st, rw) ==
    m.pc = "logs" =>
        \A t \in Transfers :
            /\ mined[t] # None /\ t.token \in st
            /\ m.from <= mined[t] /\ mined[t] <= RangeEnd(m.from, m.to)
            => rw[t] = 1 \/ Pending(m, t)

ScanOk(m, h, mined, c, rw, b, st) ==
    Latest(m, h) /\ Selection(m, st) /\ Window(m, h, c, b) /\ RangeOk(m, mined, st, rw)

ScansOk == \A s \in Scanners : ScanOk(scanner[s], head, minedIn, cursor, rows, base, steady)

MinedBelowHead == \A t \in Transfers : minedIn[t] # None => minedIn[t] <= head

ScanInv == Types /\ MinedBelowHead /\ ScansOk /\ CursorIsConfirmed /\ CursorCovers

-----------------------------------------------------------------------------
(* The operators of the model.                                             *)

\* The greater and the smaller of two numbers.
LEMMA MaxOfTwo ==
    ASSUME NEW a \in Int, NEW b \in Int
    PROVE  /\ Max({a, b}) \in {a, b}
           /\ Max({a, b}) >= a /\ Max({a, b}) >= b
<1>1. \E x \in {a, b} : \A y \in {a, b} : x >= y
  <2>1. CASE a >= b  BY <2>1
  <2>2. CASE b >= a  BY <2>2
  <2>3. QED  BY <2>1, <2>2
<1>2. QED  BY <1>1 DEF Max

LEMMA MinOfTwo ==
    ASSUME NEW a \in Int, NEW b \in Int
    PROVE  /\ Min({a, b}) \in {a, b}
           /\ Min({a, b}) <= a /\ Min({a, b}) <= b
<1>1. \E x \in {a, b} : \A y \in {a, b} : x =< y
  <2>1. CASE a >= b  BY <2>1
  <2>2. CASE b >= a  BY <2>2
  <2>3. QED  BY <2>1, <2>2
<1>2. QED  BY <1>1 DEF Min

\* A range of bounded_block_ranges is not empty and ends with the scan's range at
\* the latest.
LEMMA RangeEnds ==
    ASSUME Assumptions, NEW from \in Nat, NEW to \in Nat, from <= to
    PROVE  /\ RangeEnd(from, to) \in Nat
           /\ from <= RangeEnd(from, to) /\ RangeEnd(from, to) <= to
<1>1. from + MaxSpan - 1 \in Int /\ from <= from + MaxSpan - 1
  BY DEF Assumptions
<1>2. QED  BY <1>1, MinOfTwo DEF RangeEnd

\* The cursor moves forward only, to the end of the range unless it is past it.
LEMMA GreatestIsGreater ==
    ASSUME Assumptions, NEW old \in Nat \cup {None}, NEW new \in Nat
    PROVE  /\ Greatest(old, new) \in Nat
           /\ Greatest(old, new) >= new
           /\ old # None => Greatest(old, new) >= old
           /\ Greatest(old, new) = new \/ (old # None /\ Greatest(old, new) = old)
<1>1. CASE old = None  BY <1>1 DEF Greatest
<1>2. CASE old # None
  <2>1. old \in Int /\ new \in Int  BY <1>2
  <2>2. QED  BY <1>2, <2>1, MaxOfTwo DEF Greatest
<1>3. QED  BY <1>1, <1>2

\* What a scan counts on stays true when the chain and the cursor go on, events
\* are added and the selection loses tokens, whoever does so.
LEMMA ScanStaysOk ==
    ASSUME Assumptions, NEW m \in Scan,
           NEW h \in Nat, NEW h2 \in Nat, h <= h2,
           NEW mined \in [Transfers -> Nat \cup {None}],
           NEW mined2 \in [Transfers -> Nat \cup {None}],
           \A t \in Transfers : mined2[t] = mined[t] \/ mined2[t] > h,
           NEW c \in Nat \cup {None}, NEW c2 \in Nat \cup {None},
           c # None => c2 # None /\ c <= c2,
           NEW rw \in [Transfers -> 0..1], NEW rw2 \in [Transfers -> 0..1],
           \A t \in Transfers : rw[t] = 1 => rw2[t] = 1,
           NEW b \in Nat, NEW b2 \in Nat, b <= b2,
           NEW st, NEW st2, st2 \subseteq st,
           ScanOk(m, h, mined, c, rw, b, st)
    PROVE  ScanOk(m, h2, mined2, c2, rw2, b2, st2)
<1>0. /\ m.latest \in Nat /\ m.from \in Nat /\ m.to \in Nat /\ m.first \in Nat \cup {None}
      /\ Confirmations \in Nat /\ None \notin Int
  BY DEF Scan, Assumptions
<1>1. Latest(m, h2)
  BY <1>0 DEF ScanOk, Latest
<1>2. Selection(m, st2)
  BY DEF ScanOk, Selection
<1>3. Window(m, h2, c2, b2)
  BY <1>0 DEF ScanOk, Window
<1>4. RangeOk(m, mined2, st2, rw2)
  <2>1. SUFFICES ASSUME m.pc = "logs", NEW t \in Transfers,
                        mined2[t] # None, t.token \in st2,
                        m.from <= mined2[t], mined2[t] <= RangeEnd(m.from, m.to)
                 PROVE  rw2[t] = 1 \/ Pending(m, t)
    BY DEF RangeOk
  <2>2. m.from <= m.to /\ m.to <= h - Confirmations
    BY <2>1 DEF ScanOk, Window
  <2>3. RangeEnd(m.from, m.to) \in Nat /\ RangeEnd(m.from, m.to) <= m.to
    BY <1>0, <2>2, RangeEnds
  <2>4. mined2[t] \in Nat
    BY <2>1
  <2>5. mined2[t] <= h
    BY <1>0, <2>1, <2>2, <2>3, <2>4
  <2>6. mined2[t] = mined[t]
    BY <2>4, <2>5
  <2>7. rw[t] = 1 \/ Pending(m, t)
    BY <2>1, <2>6 DEF ScanOk, RangeOk
  <2>8. QED  BY <2>7
<1>5. QED  BY <1>1, <1>2, <1>3, <1>4 DEF ScanOk

\* Each transfer is of a token, and a request for one of its directions finds it.
LEMMA TransfersAreFound ==
    ASSUME Assumptions, NEW t \in Transfers
    PROVE  t.token \in Tokens /\ \E way \in t.ways : way \in {"incoming", "outgoing"}
<1>1. t \in [token : Tokens, ways : (SUBSET {"incoming", "outgoing"}) \ {{}}, decodable : BOOLEAN]
  BY DEF Assumptions
<1>2. t.token \in Tokens /\ t.ways \in (SUBSET {"incoming", "outgoing"}) \ {{}}
  BY <1>1
<1>3. t.ways # {} /\ t.ways \subseteq {"incoming", "outgoing"}
  <2>1. \A W : W \in (SUBSET {"incoming", "outgoing"}) \ {{}}
                => W # {} /\ W \subseteq {"incoming", "outgoing"}
    BY Zenon
  <2>2. QED  BY <1>2, <2>1
<1>4. \E way \in t.ways : TRUE
  BY <1>3
<1>5. QED  BY <1>2, <1>3, <1>4

LEMMA IdleIsOk ==
    ASSUME Assumptions, NEW h, NEW mined, NEW c, NEW rw, NEW b, NEW st
    PROVE  IdleScan \in Scan /\ ScanOk(IdleScan, h, mined, c, rw, b, st)
<1>1. IdleScan \in Scan
  BY DEF IdleScan, Scan
<1>2. IdleScan.pc = "idle"
  BY DEF IdleScan
<1>3. QED  BY <1>1, <1>2 DEF ScanOk, Latest, Selection, Window, RangeOk

\* A step of one scan leaves the others as they are.
LEMMA OneScanMoves ==
    ASSUME Assumptions, ScanInv, NEW s \in Scanners, NEW m \in Scan,
           scanner' = [scanner EXCEPT ![s] = m],
           UNCHANGED <<head, minedIn, steady>>,
           cursor' \in Nat \cup {None}, cursor # None => cursor' # None /\ cursor <= cursor',
           rows' \in [Transfers -> 0..1], \A t \in Transfers : rows[t] = 1 => rows'[t] = 1,
           base' \in Nat, base <= base',
           ScanOk(m, head, minedIn, cursor', rows', base', steady)
    PROVE  scanner' \in [Scanners -> Scan] /\ ScansOk'
<1>1. scanner' \in [Scanners -> Scan]
  BY DEF ScanInv, Types
<1>2. ASSUME NEW r \in Scanners
      PROVE  ScanOk(scanner[r]', head', minedIn', cursor', rows', base', steady')
  <2>1. CASE r = s
    <3>1. scanner[r]' = m  BY <2>1 DEF ScanInv, Types
    <3>2. QED  BY <3>1
  <2>2. CASE r # s
    <3>1. scanner[r]' = scanner[r] /\ scanner[r] \in Scan
      BY <2>2 DEF ScanInv, Types
    <3>2. ScanOk(scanner[r], head, minedIn, cursor, rows, base, steady)
      BY DEF ScanInv, ScansOk
    <3>3. /\ head \in Nat /\ head <= head
          /\ minedIn \in [Transfers -> Nat \cup {None}]
          /\ cursor \in Nat \cup {None} /\ rows \in [Transfers -> 0..1] /\ base \in Nat
      BY DEF ScanInv, Types
    <3>4. ScanOk(scanner[r], head, minedIn, cursor', rows', base', steady)
      BY <3>1, <3>2, <3>3, ScanStaysOk
    <3>5. QED  BY <3>1, <3>4
  <2>3. QED  BY <2>1, <2>2
<1>3. QED  BY <1>1, <1>2 DEF ScansOk

\* A step of a scan that leaves the cursor and the events as they are.
LEMMA OneScanThinks ==
    ASSUME Assumptions, ScanInv, NEW s \in Scanners, NEW m \in Scan,
           scanner' = [scanner EXCEPT ![s] = m],
           UNCHANGED <<head, minedIn, selected, cursor, rows, steady, base>>,
           ScanOk(m, head, minedIn, cursor, rows, base, steady)
    PROVE  ScanInv'
<1>1. /\ cursor' = cursor /\ rows' = rows /\ base' = base
      /\ cursor \in Nat \cup {None} /\ rows \in [Transfers -> 0..1] /\ base \in Nat
      /\ None \notin Int
  BY DEF ScanInv, Types, Assumptions
<1>2. /\ cursor # None => cursor' # None /\ cursor <= cursor'
      /\ \A t \in Transfers : rows[t] = 1 => rows'[t] = 1
      /\ base <= base'
      /\ ScanOk(m, head, minedIn, cursor', rows', base', steady)
  BY <1>1
<1>3. scanner' \in [Scanners -> Scan] /\ ScansOk'
  BY <1>1, <1>2, OneScanMoves
<1>4. Types' /\ MinedBelowHead' /\ CursorIsConfirmed' /\ CursorCovers'
  BY <1>3 DEF ScanInv, Types, MinedBelowHead, CursorIsConfirmed, CursorCovers
<1>5. QED  BY <1>3, <1>4 DEF ScanInv

-----------------------------------------------------------------------------
LEMMA ScanInit ==
    ASSUME Assumptions, Init
    PROVE  ScanInv
<1>1. Types
  <2>1. scanner \in [Scanners -> Scan]
    BY IdleIsOk DEF Init
  <2>2. QED  BY <2>1 DEF Init, Types, Assumptions
<1>2. ScansOk
  BY IdleIsOk DEF Init, ScansOk
<1>3. MinedBelowHead /\ CursorIsConfirmed /\ CursorCovers
  BY DEF Init, MinedBelowHead, CursorIsConfirmed, CursorCovers
<1>4. QED  BY <1>1, <1>2, <1>3 DEF ScanInv

\* A new block is above everything the cursor and the scans' ranges are about.
LEMMA MineKeeps ==
    ASSUME Assumptions, ScanInv, NEW ts \in SUBSET Transfers, Mine(ts)
    PROVE  ScanInv'
<1>0. /\ None \notin Int /\ Confirmations \in Nat /\ MaxBlock \in Nat
  BY DEF Assumptions
<1>1. Types' /\ head' = head + 1
  BY <1>0 DEF ScanInv, Types, Mine
<1>2. \A t \in Transfers : minedIn'[t] = minedIn[t] \/ minedIn'[t] > head
  BY DEF ScanInv, Types, Mine
<1>3. MinedBelowHead'
  BY <1>0 DEF ScanInv, Types, MinedBelowHead, Mine
<1>4. ASSUME NEW r \in Scanners
      PROVE  ScanOk(scanner[r]', head', minedIn', cursor', rows', base', steady')
  <2>1. ScanOk(scanner[r], head, minedIn, cursor, rows, base, steady)
    BY DEF ScanInv, ScansOk
  <2>2. /\ scanner[r] \in Scan /\ head \in Nat /\ head' \in Nat /\ head <= head'
        /\ minedIn \in [Transfers -> Nat \cup {None}] /\ minedIn' \in [Transfers -> Nat \cup {None}]
        /\ cursor \in Nat \cup {None} /\ rows \in [Transfers -> 0..1] /\ base \in Nat
    BY <1>1 DEF ScanInv, Types
  <2>3. cursor # None => cursor # None /\ cursor <= cursor
    BY <2>2
  <2>4. base <= base
    BY <2>2
  <2>5. ScanOk(scanner[r], head', minedIn', cursor, rows, base, steady)
    BY <1>2, <2>1, <2>2, <2>3, <2>4, ScanStaysOk
  <2>6. UNCHANGED <<scanner, cursor, rows, base, steady>>
    BY DEF Mine
  <2>7. QED  BY <2>5, <2>6
<1>5. CursorIsConfirmed'
  BY <1>0, <1>1 DEF ScanInv, Types, CursorIsConfirmed, Mine
<1>6. CursorCovers'
  <2>1. SUFFICES ASSUME NEW t \in Transfers, minedIn'[t] # None, cursor # None,
                        t.token \in steady, base <= minedIn'[t], minedIn'[t] <= cursor
                 PROVE  rows[t] = 1
    BY DEF CursorCovers, Mine
  <2>2. cursor <= head
    BY <1>0, <2>1 DEF ScanInv, Types, CursorIsConfirmed
  <2>3. minedIn'[t] = minedIn[t]
    BY <1>0, <1>1, <1>2, <2>1, <2>2 DEF ScanInv, Types
  <2>4. QED  BY <2>1, <2>3 DEF ScanInv, CursorCovers
<1>7. QED  BY <1>1, <1>3, <1>4, <1>5, <1>6 DEF ScanInv, ScansOk

LEMMA SelectKeeps ==
    ASSUME Assumptions, ScanInv, NEW assets \in Selections, SelectAssets(assets)
    PROVE  ScanInv'
<1>1. Types'
  BY DEF ScanInv, Types, SelectAssets, chain, story
<1>2. ASSUME NEW r \in Scanners
      PROVE  ScanOk(scanner[r]', head', minedIn', cursor', rows', base', steady')
  <2>1. ScanOk(scanner[r], head, minedIn, cursor, rows, base, steady)
    BY DEF ScanInv, ScansOk
  <2>2. /\ scanner[r] \in Scan /\ head \in Nat /\ head <= head
        /\ minedIn \in [Transfers -> Nat \cup {None}]
        /\ cursor \in Nat \cup {None} /\ rows \in [Transfers -> 0..1] /\ base \in Nat
        /\ steady' \subseteq steady
    BY DEF ScanInv, Types, SelectAssets
  <2>3. /\ cursor # None => cursor # None /\ cursor <= cursor
        /\ base <= base
    BY <2>2
  <2>4. ScanOk(scanner[r], head, minedIn, cursor, rows, base, steady')
    BY <2>1, <2>2, <2>3, ScanStaysOk
  <2>5. UNCHANGED <<scanner, head, minedIn, cursor, rows, base>>
    BY DEF SelectAssets, chain
  <2>6. QED  BY <2>4, <2>5
<1>3. MinedBelowHead' /\ CursorIsConfirmed' /\ CursorCovers'
  BY DEF ScanInv, MinedBelowHead, CursorIsConfirmed, CursorCovers, SelectAssets, chain
<1>4. QED  BY <1>1, <1>2, <1>3 DEF ScanInv, ScansOk

\* A scan's selection holds, from its first step on, what is selected all along.
LEMMA BeginKeeps ==
    ASSUME Assumptions, ScanInv, NEW s \in Scanners, Begin(s)
    PROVE  ScanInv'
<1> PICK m : m = [IdleScan EXCEPT !.pc = "latest", !.assets = selected]
  OBVIOUS
<1>1. m \in Scan /\ m.pc = "latest" /\ m.assets = selected
  BY DEF Scan, IdleScan, ScanInv, Types, Assumptions
<1>2. ScanOk(m, head, minedIn, cursor, rows, base, steady)
  BY <1>1 DEF ScanInv, Types, ScanOk, Latest, Selection, Window, RangeOk
<1>3. QED  BY <1>1, <1>2, OneScanThinks DEF Begin, chain

\* No node knows a block beyond the head.
LEMMA ReadLatestKeeps ==
    ASSUME Assumptions, ScanInv, NEW s \in Scanners, ReadLatest(s)
    PROVE  ScanInv'
<1> PICK latest \in head - MaxLag .. head :
         /\ latest >= 0
         /\ scanner' = [scanner EXCEPT
                ![s].latest = latest,
                ![s].pc = IF Native \in scanner[s].assets THEN "balance" ELSE "cursor"]
  BY DEF ReadLatest
<1> PICK m : m = [scanner[s] EXCEPT
                !.latest = latest,
                !.pc = IF Native \in scanner[s].assets THEN "balance" ELSE "cursor"]
  OBVIOUS
<1>0. head \in Int /\ MaxLag \in Int
  BY DEF ScanInv, Types, Assumptions
<1>1. latest \in Nat /\ latest <= head
  BY <1>0
<1>2. scanner[s] \in Scan /\ scanner[s].pc = "latest"
  BY DEF ScanInv, Types, ReadLatest
<1>3. m \in Scan
  BY <1>1, <1>2 DEF Scan
<1>4. m.pc \in {"balance", "cursor"} /\ m.latest = latest /\ m.assets = scanner[s].assets
  BY <1>2 DEF Scan
<1>5. steady \subseteq m.assets
  BY <1>2, <1>4 DEF ScanInv, ScansOk, ScanOk, Selection
<1>6. ScanOk(m, head, minedIn, cursor, rows, base, steady)
  BY <1>1, <1>4, <1>5 DEF ScanOk, Latest, Selection, Window, RangeOk
<1>7. scanner' = [scanner EXCEPT ![s] = m]
  BY DEF ScanInv, Types
<1>8. QED  BY <1>3, <1>6, <1>7, OneScanThinks DEF ReadLatest, chain

\* The balance is none of the cursor's business.
LEMMA BalanceKeeps ==
    ASSUME Assumptions, ScanInv, NEW s \in Scanners,
           (\E value \in Balances : InsertSnapshot(s, value)) \/ CompareBalance(s)
    PROVE  ScanInv'
<1> PICK pc \in {"compare", "cursor"} : scanner' = [scanner EXCEPT ![s].pc = pc]
  BY DEF InsertSnapshot, CompareBalance, Go
<1> PICK m : m = [scanner[s] EXCEPT !.pc = pc]
  OBVIOUS
<1>2. scanner[s] \in Scan /\ scanner[s].pc \in {"balance", "compare"}
  BY DEF ScanInv, Types, InsertSnapshot, CompareBalance
<1>3. m \in Scan
  BY <1>2 DEF Scan
<1>4. m.pc = pc /\ m.latest = scanner[s].latest /\ m.assets = scanner[s].assets
  BY <1>2 DEF Scan
<1>5. steady \subseteq m.assets /\ m.latest <= head
  BY <1>2, <1>4 DEF ScanInv, ScansOk, ScanOk, Selection, Latest
<1>6. ScanOk(m, head, minedIn, cursor, rows, base, steady)
  BY <1>4, <1>5 DEF ScanOk, Latest, Selection, Window, RangeOk
<1>7. scanner' = [scanner EXCEPT ![s] = m]
  BY DEF ScanInv, Types
<1>8. UNCHANGED <<head, minedIn, selected, cursor, rows, steady, base>>
  BY DEF InsertSnapshot, CompareBalance, chain
<1>9. QED  BY <1>3, <1>6, <1>7, <1>8, OneScanThinks

\* A scan that ends, or refuses a log, leaves everything to the next one.
LEMMA EndKeeps ==
    ASSUME Assumptions, ScanInv, NEW s \in Scanners, DecodeFails(s) \/ ScanEnds(s)
    PROVE  ScanInv'
<1>1. /\ scanner' = [scanner EXCEPT ![s] = IdleScan]
      /\ UNCHANGED <<head, minedIn, selected, cursor, rows, steady, base>>
  BY DEF DecodeFails, ScanEnds, chain
<1>2. QED  BY <1>1, IdleIsOk, OneScanThinks

\* The first range begins behind the cursor, and ends with a confirmed block. The
\* request of each selected token is to be sent, in both directions.
LEMMA ReadCursorKeeps ==
    ASSUME Assumptions, ScanInv, NEW s \in Scanners, ReadCursor(s)
    PROVE  ScanInv'
<1> PICK from : from = FirstBlock(scanner[s].latest)
  OBVIOUS
<1> PICK to : to = ConfirmedTo(scanner[s].latest)
  OBVIOUS
<1>0. /\ None \notin Int /\ Confirmations \in Nat /\ InitialWindow \in Nat
      /\ head \in Nat /\ cursor \in Nat \cup {None}
      /\ scanner[s] \in Scan /\ scanner[s].pc = "cursor"
      /\ UNCHANGED <<head, minedIn, selected, cursor, rows, steady, base>>
  BY DEF Assumptions, ScanInv, Types, ReadCursor, chain
<1>1. scanner[s].latest \in Nat /\ scanner[s].latest <= head /\ steady \subseteq scanner[s].assets
  BY <1>0 DEF Scan, ScanInv, ScansOk, ScanOk, Latest, Selection
<1>2. to \in Int /\ to <= head - Confirmations
  BY <1>0, <1>1 DEF ConfirmedTo
<1>3. from \in Nat /\ (cursor # None => from = cursor + 1)
  <2>1. CASE cursor # None  BY <1>0, <2>1 DEF FirstBlock
  <2>2. CASE cursor = None
    <3>1. ConfirmedTo(scanner[s].latest) - InitialWindow + 1 \in Int
      BY <1>0, <1>1 DEF ConfirmedTo
    <3>2. from = Max({ConfirmedTo(scanner[s].latest) - InitialWindow + 1, 0})
      BY <2>2 DEF FirstBlock
    <3>3. ASSUME NEW a \in Int  PROVE Max({a, 0}) \in Int /\ Max({a, 0}) >= 0
      <4>1. 0 \in Int
        OBVIOUS
      <4>2. Max({a, 0}) \in {a, 0} /\ Max({a, 0}) >= 0
        BY <4>1, MaxOfTwo
      <4>3. QED  BY <4>2
    <3>4. from \in Int /\ from >= 0
      BY <3>1, <3>2, <3>3
    <3>5. QED  BY <2>2, <3>4
  <2>3. QED  BY <2>1, <2>2
<1>4. CASE from <= to /\ FiltersOf(s) # {}
  <2> PICK m : m = [scanner[s] EXCEPT
          !.pc = "logs", !.from = from, !.to = to, !.todo = FiltersOf(s),
          !.first = IF cursor = None THEN from ELSE None]
    OBVIOUS
  <2>1. to \in Nat
    BY <1>2, <1>3, <1>4
  <2>2. m \in Scan
    BY <1>0, <1>3, <2>1 DEF Scan, FiltersOf
  <2>3. /\ m.pc = "logs" /\ m.from = from /\ m.to = to /\ m.todo = FiltersOf(s)
        /\ m.first = (IF cursor = None THEN from ELSE None)
        /\ m.latest = scanner[s].latest /\ m.assets = scanner[s].assets
    BY <1>0 DEF Scan
  <2>4. Latest(m, head) /\ Selection(m, steady)
    BY <1>1, <2>3 DEF Latest, Selection
  <2>5. Window(m, head, cursor, base)
    BY <1>0, <1>2, <1>3, <1>4, <2>3 DEF Window
  <2>6. RangeOk(m, minedIn, steady, rows)
    <3>1. SUFFICES ASSUME NEW t \in Transfers, t.token \in steady
                   PROVE  \E way \in t.ways : <<t.token, way>> \in FiltersOf(s)
      BY <2>3 DEF RangeOk, Pending
    <3>2. t.token \in Tokens /\ t.token \in scanner[s].assets
      BY <1>1, <3>1, TransfersAreFound
    <3>3. PICK way \in t.ways : way \in {"incoming", "outgoing"}
      BY TransfersAreFound
    <3>4. <<t.token, way>> \in Filters
      BY <3>2, <3>3 DEF Filters
    <3>5. <<t.token, way>> \in FiltersOf(s)
      BY <3>2, <3>4 DEF FiltersOf
    <3>6. QED  BY <3>3, <3>5
  <2>7. scanner' = [scanner EXCEPT ![s] = m]
    BY <1>4 DEF ReadCursor, ScanInv, Types
  <2>8. ScanOk(m, head, minedIn, cursor, rows, base, steady)
    BY <2>4, <2>5, <2>6 DEF ScanOk
  <2>9. QED  BY <1>0, <2>2, <2>7, <2>8, OneScanThinks
<1>5. CASE ~(from <= to /\ FiltersOf(s) # {})
  <2>1. scanner' = [scanner EXCEPT ![s] = IdleScan]
    BY <1>5 DEF ReadCursor
  <2>2. QED  BY <1>0, <2>1, IdleIsOk, OneScanThinks
<1>6. QED  BY <1>4, <1>5

\* A transfer of the range that this request was to find is a log to be inserted.
LEMMA GetLogsKeeps ==
    ASSUME Assumptions, ScanInv, NEW s \in Scanners, NEW f \in Filters, GetLogs(s, f)
    PROVE  ScanInv'
<1> PICK found : found = {t \in Transfers : InRange(s, t) /\ t.token = f[1] /\ f[2] \in t.ways}
  OBVIOUS
<1> PICK m : m = [scanner[s] EXCEPT !.todo = @ \ {f}, !.logs = found]
  OBVIOUS
<1>0. /\ None \notin Int
      /\ scanner[s] \in Scan /\ scanner[s].pc = "logs" /\ scanner[s].logs = {}
      /\ minedIn \in [Transfers -> Nat \cup {None}]
      /\ UNCHANGED <<head, minedIn, selected, cursor, rows, steady, base>>
  BY DEF Assumptions, ScanInv, Types, GetLogs, chain
<1>1. m \in Scan
  BY <1>0 DEF Scan
<1>2. /\ m.pc = "logs" /\ m.from = scanner[s].from /\ m.to = scanner[s].to
      /\ m.first = scanner[s].first /\ m.latest = scanner[s].latest
      /\ m.assets = scanner[s].assets
      /\ m.todo = scanner[s].todo \ {f} /\ m.logs = found
  BY <1>0 DEF Scan
<1>3. ScanOk(scanner[s], head, minedIn, cursor, rows, base, steady)
  BY DEF ScanInv, ScansOk
<1>4. Latest(m, head) /\ Selection(m, steady) /\ Window(m, head, cursor, base)
  BY <1>0, <1>2, <1>3 DEF ScanOk, Latest, Selection, Window
<1>5. RangeOk(m, minedIn, steady, rows)
  <2>1. SUFFICES ASSUME NEW t \in Transfers, minedIn[t] # None, t.token \in steady,
                        m.from <= minedIn[t], minedIn[t] <= RangeEnd(m.from, m.to)
                 PROVE  rows[t] = 1 \/ Pending(m, t)
    BY DEF RangeOk
  <2>2. rows[t] = 1 \/ Pending(scanner[s], t)
    BY <1>0, <1>2, <1>3, <2>1 DEF ScanOk, RangeOk
  <2>3. SUFFICES ASSUME NEW way \in t.ways, <<t.token, way>> \in scanner[s].todo
                 PROVE  Pending(m, t)
    BY <1>0, <2>2 DEF Pending
  <2>4. CASE <<t.token, way>> = f
    <3>1. /\ scanner[s].from \in Nat /\ scanner[s].to \in Nat
          /\ m.from <= m.to
      BY <1>0, <1>2, <1>4 DEF Scan, Window
    <3>2. RangeEnd(m.from, m.to) \in Nat
      BY <1>2, <3>1, RangeEnds
    <3>3. minedIn[t] \in Nat
      BY <1>0, <2>1
    <3>4. InRange(s, t)
      BY <1>2, <2>1, <3>1, <3>2, <3>3 DEF InRange
    <3>5. t.token = f[1] /\ way = f[2]
      BY <2>4
    <3>6. t \in found
      BY <3>4, <3>5
    <3>7. QED  BY <1>2, <3>6 DEF Pending
  <2>5. CASE <<t.token, way>> # f
    BY <1>2, <2>3, <2>5 DEF Pending
  <2>6. QED  BY <2>4, <2>5
<1>6. scanner' = [scanner EXCEPT ![s] = m]
  BY DEF GetLogs, ScanInv, Types
<1>7. ScanOk(m, head, minedIn, cursor, rows, base, steady)
  BY <1>4, <1>5 DEF ScanOk
<1>8. QED  BY <1>0, <1>1, <1>6, <1>7, OneScanThinks

\* A log leaves the scan's memory for the events.
LEMMA InsertKeeps ==
    ASSUME Assumptions, ScanInv, NEW s \in Scanners, NEW t \in Transfers, InsertTransfer(s, t)
    PROVE  ScanInv'
<1> PICK m : m = [scanner[s] EXCEPT !.logs = @ \ {t}]
  OBVIOUS
<1>0. /\ None \notin Int
      /\ scanner[s] \in Scan /\ scanner[s].pc = "logs"
      /\ cursor \in Nat \cup {None} /\ base \in Nat /\ rows \in [Transfers -> 0..1]
      /\ UNCHANGED <<head, minedIn, selected, cursor, steady, base>>
  BY DEF Assumptions, ScanInv, Types, InsertTransfer, chain
<1>1. m \in Scan
  BY <1>0 DEF Scan
<1>2. /\ m.pc = "logs" /\ m.from = scanner[s].from /\ m.to = scanner[s].to
      /\ m.first = scanner[s].first /\ m.latest = scanner[s].latest
      /\ m.assets = scanner[s].assets
      /\ m.todo = scanner[s].todo /\ m.logs = scanner[s].logs \ {t}
  BY <1>0 DEF Scan
<1>3. /\ rows' \in [Transfers -> 0..1] /\ rows'[t] = 1
      /\ \A u \in Transfers : rows[u] = 1 => rows'[u] = 1
  BY <1>0 DEF InsertTransfer, InsertedOnce
<1>4. ScanOk(scanner[s], head, minedIn, cursor, rows, base, steady)
  BY DEF ScanInv, ScansOk
<1>5. Latest(m, head) /\ Selection(m, steady) /\ Window(m, head, cursor, base)
  BY <1>0, <1>2, <1>4 DEF ScanOk, Latest, Selection, Window
<1>6. RangeOk(m, minedIn, steady, rows')
  <2>1. SUFFICES ASSUME NEW u \in Transfers, u # t, rows[u] = 1 \/ Pending(scanner[s], u)
                 PROVE  rows'[u] = 1 \/ Pending(m, u)
    BY <1>0, <1>2, <1>3, <1>4 DEF ScanOk, RangeOk
  <2>2. QED  BY <1>2, <1>3, <2>1 DEF Pending
<1>7. ScanOk(m, head, minedIn, cursor', rows', base', steady)
  BY <1>0, <1>5, <1>6 DEF ScanOk
<1>8. scanner' = [scanner EXCEPT ![s] = m]
  BY DEF InsertTransfer, ScanInv, Types
<1>9. /\ cursor' \in Nat \cup {None} /\ base' \in Nat /\ base <= base'
      /\ cursor # None => cursor' # None /\ cursor <= cursor'
  BY <1>0
<1>10. scanner' \in [Scanners -> Scan] /\ ScansOk'
  BY <1>0, <1>1, <1>3, <1>7, <1>8, <1>9, OneScanMoves
<1>11. Types' /\ MinedBelowHead' /\ CursorIsConfirmed' /\ CursorCovers'
  BY <1>0, <1>3, <1>10 DEF ScanInv, Types, MinedBelowHead, CursorIsConfirmed, CursorCovers
<1>12. QED  BY <1>10, <1>11 DEF ScanInv

\* At the end of a range nothing of it is pending, and what is below it is behind
\* the cursor or the first window: the cursor may take the range in.
LEMMA UpsertKeeps ==
    ASSUME Assumptions, ScanInv, NEW s \in Scanners, UpsertCursor(s)
    PROVE  ScanInv'
<1> PICK last : last = RangeEnd(scanner[s].from, scanner[s].to)
  OBVIOUS
<1>0. /\ None \notin Int /\ Confirmations \in Nat /\ head \in Nat
      /\ scanner[s] \in Scan /\ scanner[s].pc = "logs"
      /\ scanner[s].todo = {} /\ scanner[s].logs = {}
      /\ cursor \in Nat \cup {None} /\ base \in Nat /\ rows \in [Transfers -> 0..1]
      /\ minedIn \in [Transfers -> Nat \cup {None}]
      /\ UNCHANGED <<head, minedIn, selected, rows, steady>>
      /\ cursor' = Greatest(cursor, last)
      /\ base' = IF scanner[s].first = None THEN base ELSE Max({base, scanner[s].first})
  BY DEF Assumptions, ScanInv, Types, UpsertCursor, chain
<1>1. /\ scanner[s].from \in Nat /\ scanner[s].to \in Nat /\ scanner[s].first \in Nat \cup {None}
  BY <1>0 DEF Scan
<1>2. ScanOk(scanner[s], head, minedIn, cursor, rows, base, steady)
  BY DEF ScanInv, ScansOk
<1>3. /\ scanner[s].from <= scanner[s].to /\ scanner[s].to <= head - Confirmations
      /\ scanner[s].first = None => cursor # None /\ scanner[s].from <= cursor + 1
      /\ scanner[s].first # None =>
             \/ scanner[s].from = scanner[s].first
             \/ cursor # None /\ scanner[s].from <= cursor + 1 /\ scanner[s].first <= base
  BY <1>0, <1>2 DEF ScanOk, Window
<1>4. last \in Nat /\ scanner[s].from <= last /\ last <= scanner[s].to
  BY <1>1, <1>3, RangeEnds
<1>5. /\ cursor' \in Nat /\ cursor' # None /\ cursor' >= last
      /\ cursor # None => cursor <= cursor'
      /\ cursor' = last \/ (cursor # None /\ cursor' = cursor)
  <2> PICK g : g = Greatest(cursor, last)
    OBVIOUS
  <2>1. /\ g \in Nat /\ g >= last /\ (cursor # None => g >= cursor)
        /\ g = last \/ (cursor # None /\ g = cursor)
    BY <1>0, <1>4, GreatestIsGreater
  <2>2. cursor' = g
    BY <1>0
  <2>3. QED  BY <1>0, <1>4, <2>1, <2>2
<1>6. base' \in Nat /\ base <= base' /\ (scanner[s].first # None => scanner[s].first <= base')
  <2>1. CASE scanner[s].first = None  BY <1>0, <2>1
  <2>2. CASE scanner[s].first # None
    <3>1. scanner[s].first \in Int /\ base \in Int /\ scanner[s].first \in Nat
      BY <1>0, <1>1, <2>2
    <3>2. base' = Max({base, scanner[s].first})
      BY <1>0, <2>2
    <3>3. QED  BY <1>0, <3>1, <3>2, MaxOfTwo
  <2>3. QED  BY <2>1, <2>2
<1>7. CursorIsConfirmed'
  BY <1>0, <1>1, <1>3, <1>4, <1>5 DEF ScanInv, CursorIsConfirmed
<1>8. CursorCovers'
  <2>1. SUFFICES ASSUME NEW t \in Transfers, minedIn[t] # None, t.token \in steady,
                        base' <= minedIn[t], minedIn[t] <= cursor'
                 PROVE  rows[t] = 1
    BY <1>0 DEF CursorCovers
  <2>2. minedIn[t] \in Nat
    BY <1>0, <2>1
  <2>3. base <= minedIn[t]
    BY <1>0, <1>6, <2>1, <2>2
  <2>4. CASE cursor # None /\ minedIn[t] <= cursor
    BY <2>1, <2>3, <2>4 DEF ScanInv, CursorCovers
  <2>5. CASE ~(cursor # None /\ minedIn[t] <= cursor)
    <3>1. minedIn[t] <= last
      BY <1>5, <2>1, <2>5
    <3>2. scanner[s].from <= minedIn[t]
      <4>1. CASE scanner[s].first = None
        BY <1>0, <1>1, <1>3, <2>2, <2>5, <4>1
      <4>2. CASE scanner[s].first # None /\ scanner[s].from = scanner[s].first
        BY <1>1, <1>6, <2>1, <2>2, <4>2
      <4>3. CASE scanner[s].first # None /\ scanner[s].from # scanner[s].first
        BY <1>0, <1>1, <1>3, <2>2, <2>5, <4>3
      <4>4. QED  BY <4>1, <4>2, <4>3
    <3>3. rows[t] = 1 \/ Pending(scanner[s], t)
      BY <1>0, <1>2, <2>1, <3>1, <3>2 DEF ScanOk, RangeOk
    <3>4. QED  BY <1>0, <3>3 DEF Pending
  <2>6. QED  BY <2>4, <2>5
<1>9. scanner' \in [Scanners -> Scan] /\ ScansOk'
  <2>0. /\ cursor' \in Nat \cup {None} /\ base' \in Nat /\ base <= base'
        /\ cursor # None => cursor' # None /\ cursor <= cursor'
        /\ rows' \in [Transfers -> 0..1] /\ \A t \in Transfers : rows[t] = 1 => rows'[t] = 1
    BY <1>0, <1>5, <1>6
  <2>1. CASE last = scanner[s].to
    <3>1. scanner' = [scanner EXCEPT ![s] = IdleScan]
      BY <2>1 DEF UpsertCursor, ScanInv, Types
    <3>2. ScanOk(IdleScan, head, minedIn, cursor', rows', base', steady) /\ IdleScan \in Scan
      BY IdleIsOk
    <3>3. QED  BY <1>0, <2>0, <3>1, <3>2, OneScanMoves
  <2>2. CASE last # scanner[s].to
    <3> PICK m : m = [scanner[s] EXCEPT !.from = last + 1, !.todo = FiltersOf(s)]
      OBVIOUS
    <3>1. scanner' = [scanner EXCEPT ![s] = m]
      BY <2>2 DEF UpsertCursor, ScanInv, Types
    <3>0. last + 1 \in Nat /\ FiltersOf(s) \in SUBSET Filters
      BY <1>4 DEF FiltersOf
    <3>2. m \in Scan
      BY <1>0, <3>0 DEF Scan
    <3>3. /\ m.pc = "logs" /\ m.from = last + 1 /\ m.to = scanner[s].to
          /\ m.first = scanner[s].first /\ m.latest = scanner[s].latest
          /\ m.assets = scanner[s].assets /\ m.todo = FiltersOf(s)
      BY <1>0 DEF Scan
    <3>4. Latest(m, head) /\ Selection(m, steady)
      BY <1>0, <1>2, <3>3 DEF ScanOk, Latest, Selection
    <3>5. Window(m, head, cursor', base')
      BY <1>0, <1>1, <1>3, <1>4, <1>5, <1>6, <2>2, <3>3 DEF Window
    <3>6. RangeOk(m, minedIn, steady, rows')
      <4>1. SUFFICES ASSUME NEW t \in Transfers, t.token \in steady
                     PROVE  \E way \in t.ways : <<t.token, way>> \in FiltersOf(s)
        BY <3>3 DEF RangeOk, Pending
      <4>2. t.token \in Tokens /\ t.token \in scanner[s].assets
        BY <1>0, <1>2, <4>1, TransfersAreFound DEF ScanOk, Selection
      <4>3. PICK way \in t.ways : way \in {"incoming", "outgoing"}
        BY TransfersAreFound
      <4>4. <<t.token, way>> \in Filters
        BY <4>2, <4>3 DEF Filters
      <4>5. <<t.token, way>> \in FiltersOf(s)
        BY <4>2, <4>4 DEF FiltersOf
      <4>6. QED  BY <4>3, <4>5
    <3>7. ScanOk(m, head, minedIn, cursor', rows', base', steady)
      BY <3>4, <3>5, <3>6 DEF ScanOk
    <3>8. QED  BY <1>0, <2>0, <3>1, <3>2, <3>7, OneScanMoves
  <2>3. QED  BY <2>1, <2>2
<1>10. Types' /\ MinedBelowHead'
  BY <1>0, <1>5, <1>6, <1>9 DEF ScanInv, Types, MinedBelowHead
<1>11. QED  BY <1>7, <1>8, <1>9, <1>10 DEF ScanInv

-----------------------------------------------------------------------------
LEMMA NextKeeps ==
    ASSUME Assumptions, ScanInv, [Next]_vars
    PROVE  ScanInv'
<1>1. CASE \E ts \in SUBSET Transfers : Mine(ts)
  BY <1>1, MineKeeps
<1>2. CASE \E assets \in Selections : SelectAssets(assets)
  BY <1>2, SelectKeeps
<1>3. ASSUME NEW s \in Scanners, ScanStep(s) \/ ScanEnds(s)
      PROVE  ScanInv'
  <2>1. CASE Begin(s)  BY <2>1, BeginKeeps
  <2>2. CASE ReadLatest(s)  BY <2>2, ReadLatestKeeps
  <2>3. CASE CompareBalance(s) \/ \E value \in Balances : InsertSnapshot(s, value)
    BY <2>3, BalanceKeeps
  <2>4. CASE ReadCursor(s)  BY <2>4, ReadCursorKeeps
  <2>5. CASE \E f \in Filters : GetLogs(s, f)  BY <2>5, GetLogsKeeps
  <2>6. CASE \E t \in Transfers : InsertTransfer(s, t)  BY <2>6, InsertKeeps
  <2>7. CASE DecodeFails(s) \/ ScanEnds(s)  BY <2>7, EndKeeps
  <2>8. CASE UpsertCursor(s)  BY <2>8, UpsertKeeps
  <2>9. QED  BY <1>3, <2>1, <2>2, <2>3, <2>4, <2>5, <2>6, <2>7, <2>8 DEF ScanStep
<1>4. CASE UNCHANGED vars
  <2>1. Types' /\ MinedBelowHead' /\ CursorIsConfirmed' /\ CursorCovers'
    BY <1>4 DEF vars, ScanInv, Types, MinedBelowHead, CursorIsConfirmed, CursorCovers
  <2>2. ScansOk'
    BY <1>4 DEF vars, ScanInv, ScansOk
  <2>3. QED  BY <2>1, <2>2 DEF ScanInv
<1>5. QED  BY <1>1, <1>2, <1>3, <1>4 DEF Next

LEMMA ScanTypes ==
    ASSUME Assumptions, ScanInv
    PROVE  TypeOK
<1>1. /\ head \in Nat /\ head <= MaxBlock /\ MaxBlock \in Nat /\ Confirmations \in Nat
      /\ minedIn \in [Transfers -> Nat \cup {None}] /\ cursor \in Nat \cup {None}
      /\ None \notin Int
  BY DEF ScanInv, Types, Assumptions
<1>2. \A t \in Transfers : minedIn[t] \in Blocks \cup {None}
  BY <1>1 DEF ScanInv, MinedBelowHead, Blocks
<1>3. minedIn \in [Transfers -> Blocks \cup {None}]
  BY <1>1, <1>2
<1>4. cursor \in Blocks \cup {None} /\ head \in Blocks
  BY <1>1 DEF ScanInv, CursorIsConfirmed, Blocks
<1>5. \A s \in Scanners : scanner[s].todo \subseteq Filters
  <2>1. \A m \in Scan : m.todo \subseteq Filters
    BY DEF Scan
  <2>2. QED  BY <2>1 DEF ScanInv, Types
<1>6. QED  BY <1>3, <1>4, <1>5 DEF ScanInv, Types, TypeOK

-----------------------------------------------------------------------------
(* The story of the balance: while no two scans are between the insert of   *)
(* their snapshot and the comparison with the one before it, the scan that  *)
(* is there finds its own snapshot last and, before it, the balance the     *)
(* story is at.                                                             *)

Snapshot == [value : Balances, of : Scanners \cup {None}]
Comparing(s) == scanner[s].pc = "compare"
Last(q) == q[Len(q)]

StoryInv ==
    /\ snapshots \in Seq(Snapshot) /\ Len(snapshots) <= 2
    /\ \A i \in 1..Len(snapshots), s \in Scanners : snapshots[i].of = s => Comparing(s)
    /\ ~muddled =>
        /\ \A r, s \in Scanners : Comparing(r) /\ Comparing(s) => r = s
        /\ (\A s \in Scanners : ~Comparing(s)) /\ snapshots # <<>> => told = Last(snapshots).value
        /\ \A s \in Scanners : Comparing(s) =>
               /\ snapshots # <<>> /\ Last(snapshots).of = s
               /\ told = snapshots[1].value
               /\ Len(snapshots) = 2 => snapshots[1].of = None

\* The table keeps the two newest.
LEMMA NewestTwo ==
    ASSUME NEW q \in Seq(Snapshot), Len(q) <= 2, NEW e \in Snapshot
    PROVE  /\ LastTwo(Append(q, e)) \in Seq(Snapshot) /\ LastTwo(Append(q, e)) # <<>>
           /\ Len(LastTwo(Append(q, e))) \in {1, 2}
           /\ Len(LastTwo(Append(q, e))) = 1 <=> q = <<>>
           /\ Last(LastTwo(Append(q, e))) = e
           /\ q # <<>> => LastTwo(Append(q, e))[1] = Last(q)
<1> PICK a : a = Append(q, e)
  OBVIOUS
<1> PICK t : t = Tail(a)
  OBVIOUS
<1> PICK n : n = Len(q)
  OBVIOUS
<1>1. /\ n \in Nat /\ n <= 2 /\ (q = <<>> <=> n = 0)
      /\ a \in Seq(Snapshot) /\ Len(a) = n + 1 /\ a[n + 1] = e /\ \A i \in 1..n : a[i] = q[i]
  OBVIOUS
<1>2. CASE n = 2
  <2>1. Len(a) = 3 /\ a[3] = e /\ a[2] = q[2] /\ LastTwo(a) = t
    BY <1>1, <1>2 DEF LastTwo
  <2>2. t \in Seq(Snapshot) /\ Len(t) = 2 /\ t[1] = a[2] /\ t[2] = a[3]
    BY <1>1, <2>1
  <2>3. QED  BY <1>1, <1>2, <2>1, <2>2 DEF Last
<1>3. CASE n < 2
  <2>1. LastTwo(a) = a
    BY <1>1, <1>3 DEF LastTwo
  <2>2. CASE n = 0
    BY <1>1, <2>1, <2>2 DEF Last
  <2>3. CASE n = 1
    BY <1>1, <2>1, <2>3 DEF Last
  <2>4. QED  BY <1>1, <1>3, <2>2, <2>3
<1>4. QED  BY <1>1, <1>2, <1>3

\* Nobody begins or ends a comparison.
LEMMA QuietStory ==
    ASSUME StoryInv, UNCHANGED story,
           \A s \in Scanners : Comparing(s)' <=> Comparing(s)
    PROVE  StoryInv'
BY DEF StoryInv, story

\* The rows stay, but nobody's snapshot is its own any more.
LEMMA DisownedIs ==
    ASSUME Assumptions, StoryInv, NEW s \in Scanners
    PROVE  /\ Disowned(s) \in Seq(Snapshot) /\ Len(Disowned(s)) = Len(snapshots)
           /\ \A i \in 1..Len(snapshots) :
                  /\ Disowned(s)[i].value = snapshots[i].value
                  /\ Disowned(s)[i].of = IF snapshots[i].of = s THEN None ELSE snapshots[i].of
<1> PICK n : n = Len(snapshots)
  OBVIOUS
<1> PICK d : d = Disowned(s)
  OBVIOUS
<1>1. n \in Nat /\ DOMAIN snapshots = 1..n /\ \A i \in 1..n : snapshots[i] \in Snapshot
  BY DEF StoryInv
<1>2. DOMAIN d = 1..n /\ d = [i \in 1..n |-> d[i]]
  BY <1>1 DEF Disowned
<1>3. ASSUME NEW i \in 1..n
      PROVE  /\ d[i] \in Snapshot /\ d[i].value = snapshots[i].value
             /\ d[i].of = IF snapshots[i].of = s THEN None ELSE snapshots[i].of
  <2>1. d[i] = IF snapshots[i].of = s THEN [snapshots[i] EXCEPT !.of = None] ELSE snapshots[i]
    BY <1>1 DEF Disowned
  <2>2. snapshots[i] \in Snapshot
    BY <1>1
  <2>3. QED  BY <2>1, <2>2 DEF Snapshot
<1>4. d \in Seq(Snapshot) /\ Len(d) = n
  BY <1>1, <1>2, <1>3
<1>5. QED  BY <1>3, <1>4

LEMMA StoryInit ==
    ASSUME Init
    PROVE  StoryInv
<1>1. snapshots = <<>> /\ Len(snapshots) = 0 /\ snapshots \in Seq(Snapshot)
  BY DEF Init
<1>2. \A s \in Scanners : ~Comparing(s)
  BY DEF Init, Comparing, IdleScan
<1>3. QED  BY <1>1, <1>2 DEF StoryInv

LEMMA OneOrTwo ==
    ASSUME NEW n \in {1, 2}
    PROVE  n <= 2 /\ \A i \in 1..n : i = n \/ (i = 1 /\ n = 2)
OBVIOUS

LEMMA InsertSnapshotTells ==
    ASSUME Assumptions, Types, StoryInv, NEW s \in Scanners, NEW value \in Balances,
           InsertSnapshot(s, value)
    PROVE  StoryInv'
<1> PICK e : e = [value |-> value, of |-> s]
  OBVIOUS
<1> PICK q : q = LastTwo(Append(snapshots, e))
  OBVIOUS
<1>0. /\ ~Comparing(s) /\ Comparing(s)' /\ \A r \in Scanners \ {s} : Comparing(r)' <=> Comparing(r)
  BY DEF InsertSnapshot, Go, Types, Comparing, Scan
<1>1. snapshots' = q /\ e \in Snapshot /\ e.of = s /\ e.value = value /\ s # None
  BY DEF InsertSnapshot, Snapshot, Assumptions
<1>2. /\ snapshots \in Seq(Snapshot) /\ Len(snapshots) \in Nat /\ Len(snapshots) <= 2
      /\ snapshots = <<>> <=> Len(snapshots) = 0
  BY DEF StoryInv
<1>3. /\ q \in Seq(Snapshot) /\ q # <<>> /\ Len(q) \in {1, 2} /\ (Len(q) = 1 <=> snapshots = <<>>)
      /\ Last(q) = e /\ (snapshots # <<>> => q[1] = Last(snapshots))
  BY <1>1, <1>2, NewestTwo
<1> PICK k : k = Len(snapshots)
  OBVIOUS
<1>4. ASSUME NEW i \in 1..Len(q), NEW r \in Scanners, q[i].of = r
      PROVE  Comparing(r)'
  <2>1. i = Len(q) \/ (i = 1 /\ Len(q) = 2)
    <3>1. Len(q) \in {1, 2}
      BY <1>3
    <3>2. \A j \in 1..Len(q) : j = Len(q) \/ (j = 1 /\ Len(q) = 2)
      BY <3>1, OneOrTwo
    <3>3. QED  BY <3>2
  <2>2. CASE i = Len(q)
    BY <1>0, <1>1, <1>3, <1>4, <2>2 DEF Last
  <2>3. CASE i = 1 /\ Len(q) = 2
    <3>1. snapshots # <<>> /\ Len(snapshots) \in 1..Len(snapshots)
      <4>1. snapshots # <<>>
        BY <1>3, <2>3
      <4>2. k \in Nat /\ k # 0
        BY <1>2, <4>1
      <4>3. k \in 1..k
        BY <4>2
      <4>4. QED  BY <4>1, <4>3
    <3>2. snapshots[Len(snapshots)].of = r
      BY <1>3, <1>4, <2>3, <3>1 DEF Last
    <3>3. Comparing(r)
      BY <3>1, <3>2 DEF StoryInv
    <3>4. QED  BY <1>0, <3>3
  <2>4. QED  BY <2>1, <2>2, <2>3
<1>5. ASSUME ~muddled'
      PROVE  /\ \A r \in Scanners : Comparing(r)' => r = s
             /\ told' = q[1].value
             /\ Len(q) = 2 => q[1].of = None
  <2>1. ~muddled /\ \A r \in Scanners : ~Comparing(r)
    BY <1>0, <1>5 DEF InsertSnapshot, Comparing
  <2>2. CASE snapshots = <<>>
    <3>1. Len(q) = 1 /\ q[1] = e
      BY <1>3, <2>2 DEF Last
    <3>2. told' = value
      BY <2>2 DEF InsertSnapshot
    <3>3. \A r \in Scanners : Comparing(r)' => r = s
      BY <1>0, <2>1
    <3>4. Len(q) # 2
      BY <3>1
    <3>5. QED  BY <1>1, <3>1, <3>2, <3>3, <3>4
  <2>3. CASE snapshots # <<>>
    <3>1. told' = told /\ told = Last(snapshots).value
      BY <2>1, <2>3 DEF InsertSnapshot, StoryInv
    <3>2. Len(snapshots) \in 1..Len(snapshots) /\ snapshots[Len(snapshots)] \in Snapshot
      BY <1>2, <2>3
    <3>3. Last(snapshots).of = None
      BY <2>1, <3>2 DEF StoryInv, Snapshot, Last
    <3>4. QED  BY <1>0, <1>3, <2>1, <2>3, <3>1, <3>3
  <2>4. QED  BY <2>2, <2>3
<1>6. Len(q) <= 2 /\ Last(q).of = s
  <2>1. Len(q) <= 2
    BY <1>3, OneOrTwo
  <2>2. Last(q).of = s
    BY <1>1, <1>3
  <2>3. QED  BY <2>1, <2>2
<1>7. QED  BY <1>0, <1>1, <1>3, <1>4, <1>5, <1>6 DEF StoryInv

\* Of two scans that do not interleave, the second compares with what the first
\* left: the event it inserts, or its having none to insert, goes on from there.
LEMMA CompareTells ==
    ASSUME Assumptions, Types, StoryInv, NEW s \in Scanners, CompareBalance(s)
    PROVE  StoryInv'
<1> PICK n : n = Len(snapshots)
  OBVIOUS
<1> PICK d : d = Disowned(s)
  OBVIOUS
<1>0. /\ Comparing(s) /\ ~Comparing(s)' /\ \A r \in Scanners \ {s} : Comparing(r)' <=> Comparing(r)
      /\ snapshots' = d /\ muddled' = muddled /\ s # None
  BY DEF CompareBalance, Go, Types, Comparing, Scan, Assumptions
<1>1. /\ snapshots \in Seq(Snapshot) /\ n \in Nat /\ n <= 2 /\ DOMAIN snapshots = 1..n
      /\ snapshots = <<>> <=> n = 0
  BY DEF StoryInv
<1>2. /\ d \in Seq(Snapshot) /\ Len(d) = n
      /\ \A i \in 1..n : /\ d[i].value = snapshots[i].value
                         /\ d[i].of = IF snapshots[i].of = s THEN None ELSE snapshots[i].of
  BY DisownedIs
<1>3. ASSUME NEW i \in 1..n, NEW r \in Scanners, d[i].of = r
      PROVE  Comparing(r)'
  <2>1. snapshots[i].of = r /\ r # s
    BY <1>0, <1>2, <1>3 DEF Assumptions
  <2>2. Comparing(r)
    BY <2>1 DEF StoryInv
  <2>3. QED  BY <1>0, <2>1, <2>2
<1>4. ASSUME ~muddled
      PROVE  (\A r \in Scanners : ~Comparing(r)') /\ told' = Last(snapshots).value /\ n # 0
  <2>1. /\ \A r \in Scanners \ {s} : ~Comparing(r)
        /\ n # 0 /\ snapshots[n].of = s /\ told = snapshots[1].value
        /\ n = 2 => snapshots[1].of = None
    BY <1>0, <1>1, <1>4 DEF StoryInv, Last
  <2>2. n \in 1..n /\ snapshots[n] \in Snapshot
    BY <1>1, <2>1
  <2> PICK now : now = snapshots[n].value
    OBVIOUS
  <2>3. now \in Balances /\ snapshots[n] = [value |-> now, of |-> s]
    BY <2>1, <2>2 DEF Snapshot
  <2>4. \A i \in 1..n : snapshots[i].of = s <=> i = n
    BY <1>0, <1>1, <2>1
  <2>5. Current(s) = now
    <3>1. \A v \in Balances :
              (\E i \in DOMAIN snapshots : snapshots[i] = [value |-> v, of |-> s]) <=> v = now
      <4>1. n \in DOMAIN snapshots
        BY <1>1, <2>2
      <4>2. ASSUME NEW v \in Balances, NEW i \in DOMAIN snapshots,
                   snapshots[i] = [value |-> v, of |-> s]
            PROVE  v = now
        <5>1. snapshots[i].of = s /\ snapshots[i].value = v
          BY <4>2
        <5>2. i = n
          BY <1>1, <2>4, <5>1
        <5>3. QED  BY <5>1, <5>2
      <4>3. QED  BY <2>3, <4>1, <4>2
    <3>2. QED  BY <2>3, <3>1, Zenon DEF Current
  <2>6. told' = IF Previous(s) \in {None, now} THEN told
                ELSE IF Previous(s) = told THEN now ELSE None
    BY <1>1, <2>1, <2>2, <2>5 DEF CompareBalance
  <2>7. CASE n = 1
    <3>1. {i \in DOMAIN snapshots : snapshots[i].of # s} = {}
      BY <1>1, <2>4, <2>7
    <3>2. Previous(s) = None
      BY <3>1 DEF Previous
    <3>3. QED  BY <1>0, <2>1, <2>6, <2>7, <3>2 DEF Last
  <2>8. CASE n = 2
    <3>1. {i \in DOMAIN snapshots : snapshots[i].of # s} = {1}
      BY <1>1, <2>4, <2>8
    <3>2. Max({1}) = 1
      <4>1. \E x \in {1} : \A y \in {1} : x >= y
        OBVIOUS
      <4>2. QED  BY <4>1 DEF Max
    <3>3. Previous(s) = told
      BY <2>1, <3>1, <3>2 DEF Previous
    <3>4. told \in Balances /\ told # None
      <4>1. 1 \in 1..n
        BY <2>8
      <4>2. snapshots[1] \in Snapshot
        BY <1>1, <4>1
      <4>3. told \in Balances
        BY <2>1, <4>2 DEF Snapshot
      <4>4. QED  BY <4>3 DEF Assumptions
    <3>5. told' = now
      BY <2>6, <3>3, <3>4
    <3>6. Last(snapshots).value = now
      BY DEF Last
    <3>7. QED  BY <1>0, <2>1, <3>5, <3>6
  <2>9. QED  BY <1>1, <2>1, <2>7, <2>8
<1>5. ASSUME ~muddled  PROVE Last(d).value = Last(snapshots).value
  <2>1. n \in 1..n
    BY <1>1, <1>4, <1>5
  <2>2. QED  BY <1>2, <2>1 DEF Last
<1>6. QED  BY <1>0, <1>1, <1>2, <1>3, <1>4, <1>5 DEF StoryInv

\* A scan that ends while it compares spoils the story for good; any other ends
\* without a snapshot of its own.
LEMMA EndTells ==
    ASSUME Assumptions, Types, StoryInv, NEW s \in Scanners, ScanEnds(s)
    PROVE  StoryInv'
<1> PICK n : n = Len(snapshots)
  OBVIOUS
<1> PICK d : d = Disowned(s)
  OBVIOUS
<1>0. /\ ~Comparing(s)' /\ \A r \in Scanners \ {s} : Comparing(r)' <=> Comparing(r)
      /\ snapshots' = d /\ muddled' = (muddled \/ Comparing(s)) /\ told' = told /\ s # None
  BY DEF ScanEnds, Types, Comparing, Scan, IdleScan, Assumptions
<1>1. snapshots \in Seq(Snapshot) /\ n \in Nat /\ n <= 2 /\ (snapshots = <<>> <=> n = 0)
  BY DEF StoryInv
<1>2. /\ d \in Seq(Snapshot) /\ Len(d) = n
      /\ \A i \in 1..n : /\ d[i].value = snapshots[i].value
                         /\ d[i].of = IF snapshots[i].of = s THEN None ELSE snapshots[i].of
  BY DisownedIs
<1>3. ASSUME NEW i \in 1..n, NEW r \in Scanners, d[i].of = r
      PROVE  Comparing(r)'
  <2>1. snapshots[i].of = r /\ r # s
    BY <1>0, <1>2, <1>3 DEF Assumptions
  <2>2. Comparing(r)
    BY <2>1 DEF StoryInv
  <2>3. QED  BY <1>0, <2>1, <2>2
<1>4. d = <<>> <=> n = 0
  BY <1>2
<1>5. CASE muddled'
  BY <1>0, <1>1, <1>2, <1>3, <1>5 DEF StoryInv
<1>6. CASE ~muddled'
  <2>1. ~muddled /\ ~Comparing(s) /\ \A r \in Scanners : Comparing(r)' <=> Comparing(r)
    BY <1>0, <1>6
  <2>2. \A p, r \in Scanners : Comparing(p)' /\ Comparing(r)' => p = r
    BY <2>1 DEF StoryInv
  <2>3. ASSUME d # <<>>
        PROVE  /\ d[n].value = snapshots[n].value /\ d[1].value = snapshots[1].value
               /\ d[n].of = IF snapshots[n].of = s THEN None ELSE snapshots[n].of
               /\ d[1].of = IF snapshots[1].of = s THEN None ELSE snapshots[1].of
    <3>1. n \in 1..n /\ 1 \in 1..n
      BY <1>1, <1>4, <2>3
    <3>2. QED  BY <1>2, <3>1
  <2>4. (\A r \in Scanners : ~Comparing(r)') /\ d # <<>> => told' = Last(d).value
    BY <1>0, <1>1, <1>2, <1>4, <2>1, <2>3 DEF StoryInv, Last
  <2>5. ASSUME NEW r \in Scanners, Comparing(r)'
        PROVE  /\ d # <<>> /\ Last(d).of = r /\ told' = d[1].value
               /\ Len(d) = 2 => d[1].of = None
    <3>1. /\ snapshots # <<>> /\ snapshots[n].of = r /\ told = snapshots[1].value
          /\ n = 2 => snapshots[1].of = None
      BY <2>1, <2>5 DEF StoryInv, Last
    <3>2. d # <<>> /\ r # s
      BY <1>1, <1>4, <2>1, <2>5, <3>1
    <3>3. d[n].of = r
      BY <2>3, <3>1, <3>2
    <3>4. n = 2 => d[1].of = None
      BY <2>3, <3>1, <3>2
    <3>5. QED  BY <1>0, <1>2, <2>3, <3>1, <3>2, <3>3, <3>4 DEF Last
  <2>6. QED  BY <1>0, <1>1, <1>2, <1>3, <2>2, <2>4, <2>5 DEF StoryInv
<1>7. QED  BY <1>5, <1>6

LEMMA StoryStep ==
    ASSUME Assumptions, Types, StoryInv, [Next]_vars
    PROVE  StoryInv'
<1>1. CASE (\E ts \in SUBSET Transfers : Mine(ts)) \/ (\E assets \in Selections : SelectAssets(assets))
           \/ UNCHANGED vars
  <2>1. UNCHANGED <<story, scanner>>
    BY <1>1 DEF Mine, SelectAssets, vars, story
  <2>2. QED  BY <2>1, QuietStory DEF Comparing
<1>2. ASSUME NEW s \in Scanners, ScanStep(s)  PROVE StoryInv'
  <2>1. CASE CompareBalance(s)
    BY <2>1, CompareTells
  <2>2. CASE \E value \in Balances : InsertSnapshot(s, value)
    BY <2>2, InsertSnapshotTells
  <2>3. ASSUME \/ Begin(s) \/ ReadLatest(s) \/ ReadCursor(s) \/ DecodeFails(s) \/ UpsertCursor(s)
               \/ \E f \in Filters : GetLogs(s, f)
               \/ \E t \in Transfers : InsertTransfer(s, t)
        PROVE  StoryInv'
    <3>1. UNCHANGED story
      BY <2>3 DEF Begin, ReadLatest, ReadCursor, DecodeFails, UpsertCursor, GetLogs, InsertTransfer
    <3>2. scanner \in [Scanners -> Scan] /\ scanner[s].pc # "compare"
      BY <2>3 DEF Types, Begin, ReadLatest, ReadCursor, DecodeFails, UpsertCursor, GetLogs,
                  InsertTransfer
    <3>3. scanner'[s].pc # "compare" /\ \A r \in Scanners \ {s} : scanner'[r] = scanner[r]
      <4>1. CASE Begin(s)
        BY <3>2, <4>1 DEF Begin, IdleScan
      <4>2. CASE ReadLatest(s)
        BY <3>2, <4>2 DEF ReadLatest, Scan
      <4>3. CASE ReadCursor(s)
        BY <3>2, <4>3 DEF ReadCursor, IdleScan, Scan
      <4>4. CASE DecodeFails(s)
        BY <3>2, <4>4 DEF DecodeFails, IdleScan
      <4>5. CASE UpsertCursor(s)
        BY <3>2, <4>5 DEF UpsertCursor, IdleScan, Scan
      <4>6. CASE \E f \in Filters : GetLogs(s, f)
        BY <3>2, <4>6 DEF GetLogs, Scan
      <4>7. CASE \E t \in Transfers : InsertTransfer(s, t)
        BY <3>2, <4>7 DEF InsertTransfer, Scan
      <4>8. QED  BY <2>3, <4>1, <4>2, <4>3, <4>4, <4>5, <4>6, <4>7
    <3>4. QED  BY <3>1, <3>2, <3>3, QuietStory DEF Comparing
  <2>4. QED  BY <1>2, <2>1, <2>2, <2>3 DEF ScanStep
<1>3. CASE \E s \in Scanners : ScanEnds(s)
  BY <1>3, EndTells
<1>4. QED  BY <1>1, <1>2, <1>3 DEF Next

-----------------------------------------------------------------------------
(* Every state, and what is true of it.                                    *)

EvmInv == ScanInv /\ StoryInv

LEMMA EvmInvInit ==
    ASSUME Assumptions, Init
    PROVE  EvmInv
  BY ScanInit, StoryInit DEF EvmInv

LEMMA EvmInvStep ==
    ASSUME Assumptions, EvmInv, [Next]_vars
    PROVE  EvmInv'
<1>1. ScanInv /\ StoryInv /\ Types
  BY DEF EvmInv, ScanInv
<1>2. QED  BY <1>1, NextKeeps, StoryStep DEF EvmInv

LEMMA EvmInvTells ==
    ASSUME Assumptions, EvmInv
    PROVE  TypeOK /\ NoTransferIsPassed /\ BalanceStory
<1>1. ScanInv /\ StoryInv
  BY DEF EvmInv
<1>2. TypeOK
  BY <1>1, ScanTypes
<1>3. NoTransferIsPassed
  BY <1>1 DEF ScanInv, NoTransferIsPassed
<1>4. BalanceStory
  BY <1>1 DEF StoryInv, BalanceStory, Comparing, Last
<1>5. QED  BY <1>2, <1>3, <1>4

\* Whatever ends a scan, however scans overlap, whichever node they ask and
\* whatever happens to the selection: upsert_scan_cursor puts the cursor on no
\* block that is not confirmed, and past no transfer, of a token selected all
\* along and mined since the first window, that is not in address_events. The
\* balance_change events, told one after the other, say what the newest snapshot
\* says, whatever balances the nodes answer with, as long as no two scans are
\* between their snapshot and its comparison at once and none ends there. And a
\* transfer has one row of address_events at most.
THEOREM EvmScansAreSafe ==
    ASSUME Assumptions
    PROVE  Spec => [](TypeOK /\ NoTransferIsPassed /\ BalanceStory)
<1>1. Init => EvmInv
  BY EvmInvInit
<1>2. EvmInv /\ [Next]_vars => EvmInv'
  BY EvmInvStep
<1>3. EvmInv => TypeOK /\ NoTransferIsPassed /\ BalanceStory
  BY EvmInvTells
<1>4. QED  BY <1>1, <1>2, <1>3, PTL DEF Spec
=============================================================================
