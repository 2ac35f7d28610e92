--------------------------- MODULE TronScanProofs ---------------------------
(***************************************************************************)
(* What the two cursors of a TRON address may pass, and how many events a  *)
(* transfer has, for any number of overlapping scans, contracts and        *)
(* transfers, any page size and page limit.                                *)
(***************************************************************************)
EXTENDS TronScan, FiniteSetTheorems, WellFoundedInduction, TLAPS

Kinds == {"trx", "trc20"}
Finding == [transfer : Transfers, log_index : 0..Cardinality(Transfers)]
Scan == [pc : {"idle", "trx", "trc20", "insert", "upsert"}, from : Nat,
         todo : SUBSET Tokens, found : SUBSET Finding,
         newest : {None} \cup [Kinds -> Nat \cup {None}]]

Types ==
    /\ clock \in Nat /\ clock <= MaxTime
    /\ time \in [Transfers -> (Nat \ {0}) \cup {None}]
    /\ cursor \in [Kinds -> Nat \cup {None}]
    /\ events \in SUBSET Finding
    /\ scanner \in [Scanners -> Scan]

\* Nothing is newer than the clock, and what was read or reported is confirmed.
Past(tm, c) == \A t \in Transfers : tm[t] # None => tm[t] <= c
PastCursor(cu, c) == \A kind \in Kinds : cu[kind] # None => cu[kind] <= c
AllConfirmed(S, tm) == \A e \in S : tm[e.transfer] # None

\* Of a set of findings: each TRX transfer as old as T is in it; each transfer of
\* a token as old as T is, or one at least as new of another token is to blame.
Has(S, t) == \E e \in S : e.transfer = t
Blames(S, tm, t) == \E e \in S : /\ e.transfer.asset \in Tokens \ {t.asset}
                                 /\ tm[e.transfer] >= tm[t]
TrxUpTo(S, tm, T) ==
    \A t \in Transfers :
        t.asset = Native /\ t.decodable /\ tm[t] # None /\ tm[t] <= T => Has(S, t)
TokenUpTo(S, tm, token, T) ==
    \A t \in Transfers :
        t.asset = token /\ tm[t] # None /\ tm[t] <= T => Has(S, t) \/ Blames(S, tm, t)

\* What a scan m may count on. It reads from where its cursor was; what it read of
\* an asset, with the events, leaves nothing out that is older; and so it is up to
\* the new values of the cursors.
Start(m, cu) ==
    m.pc \in {"trx", "trc20"} =>
        m.from = 0 \/ (cu[m.pc] # None /\ m.from <= cu[m.pc] + 1)
Read(m, tm, S) ==
    m.pc = "trc20" =>
        \A e \in m.found :
            /\ e.transfer.asset = Native => TrxUpTo(S, tm, tm[e.transfer])
            /\ e.transfer.asset \in Tokens =>
                   TokenUpTo(S, tm, e.transfer.asset, tm[e.transfer])
Written(m, tm, S, c) ==
    m.pc \in {"insert", "upsert"} =>
        /\ m.newest \in [Kinds -> Nat \cup {None}]
        /\ \A kind \in Kinds : m.newest[kind] # None => m.newest[kind] <= c
        /\ m.newest["trx"] # None => TrxUpTo(S, tm, m.newest["trx"])
        /\ m.newest["trc20"] # None =>
               \A token \in Tokens : TokenUpTo(S, tm, token, m.newest["trc20"])
        /\ m.pc = "upsert" => m.found = {}

ScanOk(m, tm, c, cu, ev) ==
    /\ AllConfirmed(m.found, tm)
    /\ Start(m, cu) /\ Read(m, tm, ev \cup m.found) /\ Written(m, tm, ev \cup m.found, c)

CursorsCover(cu, tm, ev) ==
    /\ cu["trx"] # None => TrxUpTo(ev, tm, cu["trx"])
    /\ cu["trc20"] # None => \A token \in Tokens : TokenUpTo(ev, tm, token, cu["trc20"])

ScansOk == \A s \in Scanners : ScanOk(scanner[s], time, clock, cursor, events)

CursorInv ==
    /\ Types /\ Past(time, clock) /\ PastCursor(cursor, clock) /\ AllConfirmed(events, time)
    /\ ScansOk /\ CursorsCover(cursor, time, events)

-----------------------------------------------------------------------------
(* The operators of the model.                                             *)

LEMMA MaxOfTwo ==
    ASSUME NEW a \in Int, NEW b \in Int
    PROVE  /\ Max({a, b}) \in {a, b}
           /\ Max({a, b}) >= a /\ Max({a, b}) >= b
<1>1. \E x \in {a, b} : \A y \in {a, b} : x >= y
  <2>1. CASE a >= b  BY <2>1
  <2>2. CASE b >= a  BY <2>2
  <2>3. QED  BY <2>1, <2>2
<1>2. QED  BY <1>1 DEF Max

\* A set of naturals that is bounded has a greatest element: the least bound.
LEMMA MaxOfTimes ==
    ASSUME NEW S, S \subseteq Nat, S # {}, NEW c \in Nat, \A x \in S : x <= c
    PROVE  Max(S) \in S /\ \A x \in S : x <= Max(S)
<1> DEFINE Bounds == {n \in Nat : \A x \in S : x <= n}
<1>1. Bounds \subseteq Nat /\ Bounds # {}
  OBVIOUS
<1>2. \E n \in Bounds : \A y \in Bounds : <<y, n>> \notin OpToRel(<, Nat)
  <2> HIDE DEF Bounds
  <2>1. QED  BY <1>1, NatLessThanWellFounded, WFMin, Zenon
<1>3. PICK n \in Bounds : \A y \in Bounds : <<y, n>> \notin OpToRel(<, Nat)
  BY <1>2, Zenon
<1>4. \A y \in Bounds : ~(y < n)
  <2> HIDE DEF Bounds
  <2>1. QED  BY <1>1, <1>3, Zenon DEF OpToRel
<1>5. n \in S
  <2>1. SUFFICES ASSUME n \notin S  PROVE FALSE
    OBVIOUS
  <2>2. \A x \in S : x <= n /\ x # n
    BY <2>1
  <2>3. \A x \in S : x <= n - 1
    BY <2>2
  <2>4. n - 1 \in Nat
    <3>1. PICK x \in S : TRUE
      OBVIOUS
    <3>2. x \in Nat /\ x <= n - 1 /\ n \in Nat
      BY <2>3
    <3>3. QED  BY <3>2
  <2>5. n - 1 \in Bounds
    BY <2>3, <2>4
  <2>6. QED  BY <1>4, <2>5
<1>6. \A x \in S : n >= x
  OBVIOUS
<1>7. Max(S) \in S /\ \A x \in S : Max(S) >= x
  <2> HIDE DEF Bounds
  <2>1. QED  BY <1>5, <1>6 DEF Max
<1>8. QED  BY <1>7

LEMMA GreatestIsGreater ==
    ASSUME Assumptions, NEW old \in Nat \cup {None}, NEW new \in Nat
    PROVE  /\ Greatest(old, new) \in Nat
           /\ Greatest(old, new) >= new
           /\ old # None => Greatest(old, new) >= old
           /\ Greatest(old, new) = new \/ (old # None /\ Greatest(old, new) = old)
<1>1. CASE old = None  BY <1>1 DEF Greatest
<1>2. CASE old # None
  <2>1. old \in Int /\ new \in Int  BY <1>2
  <2>2. QED  BY <1>2, <2>1, MaxOfTwo DEF Greatest
<1>3. QED  BY <1>1, <1>2

\* What a listing finds: each of its transfers once.
LEMMA FetchedFindings ==
    ASSUME Assumptions, NEW asset, NEW from
    PROVE  /\ Fetched(asset, from) \in SUBSET Finding
           /\ \A e \in Fetched(asset, from) :
                  e.transfer \in Listed(asset, from) /\ e.transfer.asset = asset
           /\ \A t \in Listed(asset, from) : \E e \in Fetched(asset, from) : e.transfer = t
           /\ \A e, f \in Fetched(asset, from) : e.transfer = f.transfer => e = f
<1>1. \A t \in Listed(asset, from) : t \in Transfers /\ t.asset = asset
  BY DEF Listed
<1>2. ASSUME NEW t \in Listed(asset, from)
      PROVE  LogIndex(t, from) \in 0..Cardinality(Transfers)
  <2> PICK S : S = {u \in Listed(t.asset, from) : Newer(u, t)}
    OBVIOUS
  <2>1. S \subseteq Transfers /\ IsFiniteSet(Transfers)
    BY DEF Listed, Assumptions
  <2>2. IsFiniteSet(S) /\ Cardinality(S) <= Cardinality(Transfers)
    BY <2>1, FS_Subset
  <2>3. Cardinality(S) \in Nat /\ Cardinality(Transfers) \in Nat
    BY <2>1, <2>2, FS_CardinalityType
  <2>4. LogIndex(t, from) = Cardinality(S)
    BY DEF LogIndex
  <2>5. QED  BY <2>2, <2>3, <2>4
<1>3. \A t \in Listed(asset, from) :
          [transfer |-> t, log_index |-> LogIndex(t, from)] \in Finding
  BY <1>1, <1>2 DEF Finding
<1>4. \A e \in Fetched(asset, from) : \E t \in Listed(asset, from) :
          e = [transfer |-> t, log_index |-> LogIndex(t, from)]
  BY DEF Fetched
<1>5. \A t \in Listed(asset, from) :
          [transfer |-> t, log_index |-> LogIndex(t, from)] \in Fetched(asset, from)
  BY DEF Fetched
<1>6. \A e \in Fetched(asset, from) :
          /\ e \in Finding
          /\ e.transfer \in Listed(asset, from) /\ e.transfer.asset = asset
          /\ e = [transfer |-> e.transfer, log_index |-> LogIndex(e.transfer, from)]
  BY <1>1, <1>3, <1>4
<1>7. \A t \in Listed(asset, from) : \E e \in Fetched(asset, from) : e.transfer = t
  BY <1>5
<1>8. QED  BY <1>6, <1>7

LEMMA IdleIsOk ==
    ASSUME NEW tm, NEW c, NEW cu, NEW ev
    PROVE  IdleScan \in Scan /\ ScanOk(IdleScan, tm, c, cu, ev)
<1>1. IdleScan \in Scan
  BY DEF IdleScan, Scan
<1>2. IdleScan.pc = "idle" /\ IdleScan.found = {}
  BY DEF IdleScan
<1>3. QED  BY <1>1, <1>2 DEF ScanOk, AllConfirmed, Start, Read, Written

-----------------------------------------------------------------------------
(* What is so stays so while the chain, the events and the cursors grow.   *)

Times == [Transfers -> (Nat \ {0}) \cup {None}]
Later(tm, tm2, c) ==
    \A t \in Transfers :
        tm2[t] = tm[t] \/ (tm[t] = None /\ tm2[t] \in Nat /\ tm2[t] > c)

LEMMA UpToStays ==
    ASSUME Assumptions, NEW tm \in Times, NEW tm2 \in Times, NEW c \in Nat,
           Later(tm, tm2, c), NEW T \in Nat, T <= c,
           NEW S \in SUBSET Finding, NEW S2 \in SUBSET Finding, S \subseteq S2,
           AllConfirmed(S, tm)
    PROVE  /\ TrxUpTo(S, tm, T) => TrxUpTo(S2, tm2, T)
           /\ \A token \in Tokens : TokenUpTo(S, tm, token, T) => TokenUpTo(S2, tm2, token, T)
<1>0. None \notin Int
  BY DEF Assumptions
<1>1. \A e \in S : e.transfer \in Transfers /\ tm2[e.transfer] = tm[e.transfer]
  BY DEF Finding, AllConfirmed, Later
<1>2. \A t \in Transfers : tm2[t] # None /\ tm2[t] <= T => tm2[t] = tm[t]
  BY <1>0 DEF Later, Times
<1>3. \A t : Has(S, t) => Has(S2, t)
  BY DEF Has
<1>4. \A t \in Transfers : tm2[t] = tm[t] /\ Blames(S, tm, t) => Blames(S2, tm2, t)
  BY <1>1 DEF Blames
<1>5. TrxUpTo(S, tm, T) => TrxUpTo(S2, tm2, T)
  BY <1>2, <1>3 DEF TrxUpTo
<1>6. \A token \in Tokens : TokenUpTo(S, tm, token, T) => TokenUpTo(S2, tm2, token, T)
  BY <1>2, <1>3, <1>4 DEF TokenUpTo
<1>7. QED  BY <1>5, <1>6

\* More events are stored or found, and the time of no transfer up to c changes.
Grows(S, S2, tm, tm2, c) ==
    /\ S \in SUBSET Finding /\ S2 \in SUBSET Finding /\ S \subseteq S2
    /\ AllConfirmed(S, tm) /\ Later(tm, tm2, c)

Stays(S, S2, tm, tm2, c) ==
    \A T \in Nat : T <= c =>
        /\ TrxUpTo(S, tm, T) => TrxUpTo(S2, tm2, T)
        /\ \A token \in Tokens : TokenUpTo(S, tm, token, T) => TokenUpTo(S2, tm2, token, T)

LEMMA AllUpToStays ==
    ASSUME Assumptions, NEW tm \in Times, NEW tm2 \in Times, NEW c \in Nat,
           NEW S, NEW S2, Grows(S, S2, tm, tm2, c)
    PROVE  Stays(S, S2, tm, tm2, c)
<1>1. SUFFICES ASSUME NEW T \in Nat, T <= c
               PROVE  /\ TrxUpTo(S, tm, T) => TrxUpTo(S2, tm2, T)
                      /\ \A token \in Tokens :
                             TokenUpTo(S, tm, token, T) => TokenUpTo(S2, tm2, token, T)
  BY DEF Stays
<1>2. /\ S \in SUBSET Finding /\ S2 \in SUBSET Finding /\ S \subseteq S2
      /\ AllConfirmed(S, tm) /\ Later(tm, tm2, c)
  BY DEF Grows
<1>3. QED  BY <1>1, <1>2, UpToStays

LEMMA ScanStaysOk ==
    ASSUME Assumptions, NEW m \in Scan, NEW tm \in Times, NEW tm2 \in Times,
           NEW c \in Nat, NEW c2 \in Nat, c <= c2, Later(tm, tm2, c), Past(tm, c),
           NEW cu \in [Kinds -> Nat \cup {None}], NEW cu2 \in [Kinds -> Nat \cup {None}],
           \A kind \in Kinds : cu[kind] # None => cu2[kind] # None /\ cu[kind] <= cu2[kind],
           NEW ev \in SUBSET Finding, NEW ev2 \in SUBSET Finding, ev \subseteq ev2,
           AllConfirmed(ev, tm), ScanOk(m, tm, c, cu, ev)
    PROVE  ScanOk(m, tm2, c2, cu2, ev2)
<1>0. /\ None \notin Int /\ m.found \in SUBSET Finding /\ m.from \in Nat
      /\ m.newest \in {None} \cup [Kinds -> Nat \cup {None}]
      /\ AllConfirmed(m.found, tm) /\ "trx" \in Kinds /\ "trc20" \in Kinds
  BY DEF Assumptions, Scan, ScanOk, Kinds
<1> PICK S : S = ev \cup m.found
  OBVIOUS
<1> PICK S2 : S2 = ev2 \cup m.found
  OBVIOUS
<1>1. /\ S \in SUBSET Finding /\ S2 \in SUBSET Finding /\ S \subseteq S2 /\ AllConfirmed(S, tm)
  BY <1>0 DEF AllConfirmed
<1>2. \A T \in Nat : T <= c =>
          /\ TrxUpTo(S, tm, T) => TrxUpTo(S2, tm2, T)
          /\ \A token \in Tokens : TokenUpTo(S, tm, token, T) => TokenUpTo(S2, tm2, token, T)
  <2>1. Grows(S, S2, tm, tm2, c)
    BY <1>1 DEF Grows
  <2>2. Stays(S, S2, tm, tm2, c)
    BY <2>1, AllUpToStays
  <2>3. QED  BY <2>2 DEF Stays
<1>3. \A e \in m.found : /\ e.transfer \in Transfers /\ tm2[e.transfer] = tm[e.transfer]
                         /\ tm[e.transfer] # None /\ tm[e.transfer] \in Nat
                         /\ tm[e.transfer] <= c
  BY <1>0 DEF Finding, AllConfirmed, Later, Past, Times
<1>4. AllConfirmed(m.found, tm2)
  BY <1>3 DEF AllConfirmed
<1>5. Start(m, cu2)
  <2>1. SUFFICES ASSUME m.pc \in Kinds, m.from # 0
                 PROVE  cu2[m.pc] # None /\ m.from <= cu2[m.pc] + 1
    BY DEF Start, Kinds
  <2>2. cu[m.pc] # None /\ m.from <= cu[m.pc] + 1
    BY <2>1 DEF ScanOk, Start, Kinds
  <2>3. /\ cu2[m.pc] # None /\ cu[m.pc] <= cu2[m.pc]
        /\ cu[m.pc] \in Nat /\ cu2[m.pc] \in Nat
    BY <2>1, <2>2
  <2>4. QED  BY <1>0, <2>2, <2>3
<1>6. Read(m, tm2, S2)
  <2>1. Read(m, tm, S)
    BY DEF ScanOk
  <2>2. QED  BY <1>2, <1>3, <2>1 DEF Read
<1>7. Written(m, tm2, S2, c2)
  <2>1. SUFFICES ASSUME m.pc \in {"insert", "upsert"}
                 PROVE  Written(m, tm2, S2, c2)
    BY DEF Written
  <2>2. Written(m, tm, S, c)
    BY DEF ScanOk
  <2>3. /\ m.newest \in [Kinds -> Nat \cup {None}] /\ (m.pc = "upsert" => m.found = {})
        /\ \A kind \in Kinds : m.newest[kind] # None => m.newest[kind] <= c
        /\ m.newest["trx"] # None => TrxUpTo(S, tm, m.newest["trx"])
        /\ m.newest["trc20"] # None =>
               \A token \in Tokens : TokenUpTo(S, tm, token, m.newest["trc20"])
    BY <2>1, <2>2 DEF Written
  <2>4. \A kind \in Kinds : m.newest[kind] # None => m.newest[kind] \in Nat
    BY <1>0, <2>3
  <2>5. \A kind \in Kinds : m.newest[kind] # None => m.newest[kind] <= c2
    BY <2>3, <2>4
  <2>6. m.newest["trx"] # None => TrxUpTo(S2, tm2, m.newest["trx"])
    BY <1>0, <1>2, <2>3, <2>4
  <2>7. m.newest["trc20"] # None =>
            \A token \in Tokens : TokenUpTo(S2, tm2, token, m.newest["trc20"])
    BY <1>0, <1>2, <2>3, <2>4
  <2>8. QED  BY <2>3, <2>5, <2>6, <2>7 DEF Written
<1>8. QED  BY <1>4, <1>5, <1>6, <1>7 DEF ScanOk

LEMMA CursorsStayCovered ==
    ASSUME Assumptions, NEW tm \in Times, NEW tm2 \in Times, NEW c \in Nat,
           Later(tm, tm2, c),
           NEW cu \in [Kinds -> Nat \cup {None}], PastCursor(cu, c),
           NEW ev \in SUBSET Finding, NEW ev2 \in SUBSET Finding, ev \subseteq ev2,
           AllConfirmed(ev, tm), CursorsCover(cu, tm, ev)
    PROVE  CursorsCover(cu, tm2, ev2)
<1>1. \A kind \in Kinds : cu[kind] # None => cu[kind] \in Nat /\ cu[kind] <= c
  BY DEF PastCursor
<1>2. "trx" \in Kinds /\ "trc20" \in Kinds
  BY DEF Kinds
<1>3. cu["trx"] # None => TrxUpTo(ev2, tm2, cu["trx"])
  BY <1>1, <1>2, UpToStays DEF CursorsCover
<1>4. cu["trc20"] # None => \A token \in Tokens : TokenUpTo(ev2, tm2, token, cu["trc20"])
  BY <1>1, <1>2, UpToStays DEF CursorsCover
<1>5. QED  BY <1>3, <1>4 DEF CursorsCover

\* A step of one scan leaves the others as they are.
LEMMA OneScanMoves ==
    ASSUME Assumptions, CursorInv, NEW s \in Scanners, NEW m \in Scan,
           scanner' = [scanner EXCEPT ![s] = m], UNCHANGED <<clock, time>>,
           cursor' \in [Kinds -> Nat \cup {None}],
           \A kind \in Kinds : cursor[kind] # None =>
               cursor'[kind] # None /\ cursor[kind] <= cursor'[kind],
           events' \in SUBSET Finding, events \subseteq events',
           ScanOk(m, time, clock, cursor', events')
    PROVE  scanner' \in [Scanners -> Scan] /\ ScansOk'
<1>1. scanner' \in [Scanners -> Scan]
  BY DEF CursorInv, Types
<1>2. ASSUME NEW r \in Scanners
      PROVE  ScanOk(scanner[r]', time', clock', cursor', events')
  <2>1. CASE r = s
    <3>1. scanner[r]' = m  BY <2>1 DEF CursorInv, Types
    <3>2. QED  BY <3>1
  <2>2. CASE r # s
    <3>1. scanner[r]' = scanner[r] /\ scanner[r] \in Scan
      BY <2>2 DEF CursorInv, Types
    <3>2. ScanOk(scanner[r], time, clock, cursor, events) /\ Past(time, clock)
          /\ AllConfirmed(events, time)
      BY DEF CursorInv, ScansOk
    <3>3. /\ clock \in Nat /\ clock <= clock /\ time \in Times
          /\ cursor \in [Kinds -> Nat \cup {None}] /\ events \in SUBSET Finding
          /\ Later(time, time, clock)
      BY DEF CursorInv, Types, Times, Later
    <3>4. ScanOk(scanner[r], time, clock, cursor', events')
      BY <3>1, <3>2, <3>3, ScanStaysOk
    <3>5. QED  BY <3>1, <3>4
  <2>3. QED  BY <2>1, <2>2
<1>3. QED  BY <1>1, <1>2 DEF ScansOk

\* A step of a scan that leaves the cursors and the events as they are.
LEMMA OneScanThinks ==
    ASSUME Assumptions, CursorInv, NEW s \in Scanners, NEW m \in Scan,
           scanner' = [scanner EXCEPT ![s] = m],
           UNCHANGED <<clock, time, cursor, events>>,
           ScanOk(m, time, clock, cursor, events)
    PROVE  CursorInv'
<1>1. /\ cursor \in [Kinds -> Nat \cup {None}] /\ events \in SUBSET Finding
      /\ \A kind \in Kinds : cursor[kind] # None => cursor[kind] <= cursor[kind]
  <2>1. cursor \in [Kinds -> Nat \cup {None}] /\ events \in SUBSET Finding
    BY DEF CursorInv, Types
  <2>2. \A kind \in Kinds : cursor[kind] # None => cursor[kind] \in Nat
    BY <2>1
  <2>3. QED  BY <2>1, <2>2
<1>2. scanner' \in [Scanners -> Scan] /\ ScansOk'
  BY <1>1, OneScanMoves
<1>3. QED  BY <1>2 DEF CursorInv, Types

-----------------------------------------------------------------------------
LEMMA CursorInit ==
    ASSUME Assumptions, Init
    PROVE  CursorInv
<1>1. Types
  BY IdleIsOk DEF Init, Types, Assumptions, Kinds
<1>2. ScansOk
  BY IdleIsOk DEF Init, ScansOk
<1>3. Past(time, clock) /\ PastCursor(cursor, clock) /\ AllConfirmed(events, time)
  BY DEF Init, Past, PastCursor, AllConfirmed, Kinds
<1>4. CursorsCover(cursor, time, events)
  BY DEF Init, CursorsCover
<1>5. QED  BY <1>1, <1>2, <1>3, <1>4 DEF CursorInv

\* A new transfer is newer than all the scans and the cursors know of.
LEMMA ConfirmKeeps ==
    ASSUME Assumptions, CursorInv, NEW ts \in SUBSET Transfers, Confirm(ts)
    PROVE  CursorInv'
<1>0. /\ None \notin Int /\ clock \in Nat /\ MaxTime \in Nat /\ time \in Times
      /\ cursor \in [Kinds -> Nat \cup {None}] /\ events \in SUBSET Finding
      /\ UNCHANGED <<cursor, events, scanner>>
      /\ clock' = clock + 1 /\ clock' <= MaxTime
  BY DEF Assumptions, CursorInv, Types, Times, Confirm
<1>1. clock' \in Nat /\ clock <= clock' /\ clock' > clock /\ clock + 1 \in Nat \ {0}
  BY <1>0
<1>2. time' \in Times /\ Later(time, time', clock)
  BY <1>0, <1>1 DEF Times, Later, Confirm
<1>3. Types'
  BY <1>0, <1>1, <1>2 DEF CursorInv, Types, Times
<1>4. Past(time', clock')
  <2>1. SUFFICES ASSUME NEW t \in Transfers, time'[t] # None
                 PROVE  time'[t] <= clock'
    BY DEF Past
  <2>2. CASE t \in ts
    BY <1>0, <1>1, <2>2 DEF Confirm
  <2>3. CASE t \notin ts
    <3>1. time'[t] = time[t] /\ time[t] \in Nat
      BY <1>0, <2>1, <2>3 DEF Confirm, Times
    <3>2. time[t] <= clock
      BY <2>1, <3>1 DEF CursorInv, Past
    <3>3. QED  BY <1>0, <1>1, <3>1, <3>2
  <2>4. QED  BY <2>2, <2>3
<1>5. PastCursor(cursor', clock')
  <2>1. \A kind \in Kinds : cursor[kind] # None => cursor[kind] \in Nat /\ cursor[kind] <= clock
    BY <1>0 DEF CursorInv, PastCursor
  <2>2. QED  BY <1>0, <1>1, <2>1 DEF PastCursor
<1>6. AllConfirmed(events', time')
  <2>1. \A e \in events : e.transfer \in Transfers /\ time[e.transfer] # None
    BY <1>0 DEF CursorInv, AllConfirmed, Finding
  <2>2. QED  BY <1>0, <1>2, <2>1 DEF AllConfirmed, Later
<1>7. CursorsCover(cursor', time', events')
  <2>1. CursorsCover(cursor, time', events)
    BY <1>0, <1>2, CursorsStayCovered DEF CursorInv
  <2>2. QED  BY <1>0, <2>1
<1>8. ASSUME NEW r \in Scanners
      PROVE  ScanOk(scanner[r]', time', clock', cursor', events')
  <2>1. /\ scanner[r] \in Scan /\ ScanOk(scanner[r], time, clock, cursor, events)
        /\ Past(time, clock) /\ AllConfirmed(events, time)
    BY DEF CursorInv, Types, ScansOk
  <2>2. \A kind \in Kinds : cursor[kind] # None => cursor[kind] # None /\ cursor[kind] <= cursor[kind]
    BY <1>0
  <2>3. ScanOk(scanner[r], time', clock', cursor, events)
    BY <1>0, <1>1, <1>2, <2>1, <2>2, ScanStaysOk
  <2>4. QED  BY <1>0, <2>3
<1>9. QED  BY <1>3, <1>4, <1>5, <1>6, <1>7, <1>8 DEF CursorInv, ScansOk

LEMMA EndKeeps ==
    ASSUME Assumptions, CursorInv, NEW s \in Scanners, FetchFails(s) \/ ScanEnds(s)
    PROVE  CursorInv'
<1>1. /\ scanner' = [scanner EXCEPT ![s] = IdleScan]
      /\ UNCHANGED <<clock, time, cursor, events>>
  BY DEF FetchFails, ScanEnds
<1>2. QED  BY <1>1, IdleIsOk, OneScanThinks

\* A listing begins right behind its cursor.
LEMMA FromIsBehind ==
    ASSUME Assumptions, CursorInv, NEW kind \in Kinds
    PROVE  /\ From(kind) \in Nat
           /\ From(kind) = 0 \/ (cursor[kind] # None /\ From(kind) <= cursor[kind] + 1)
<1>1. cursor[kind] \in Nat \cup {None}
  BY DEF CursorInv, Types
<1>2. QED  BY <1>1 DEF From

LEMMA BeginKeeps ==
    ASSUME Assumptions, CursorInv, NEW s \in Scanners, Begin(s)
    PROVE  CursorInv'
<1> PICK m : m = [IdleScan EXCEPT !.pc = "trx", !.from = From("trx")]
  OBVIOUS
<1>1. /\ From("trx") \in Nat
      /\ From("trx") = 0 \/ (cursor["trx"] # None /\ From("trx") <= cursor["trx"] + 1)
  BY FromIsBehind DEF Kinds
<1>2. m \in Scan /\ m.pc = "trx" /\ m.from = From("trx") /\ m.found = {}
  BY <1>1 DEF IdleScan, Scan
<1>3. ScanOk(m, time, clock, cursor, events)
  BY <1>1, <1>2 DEF ScanOk, AllConfirmed, Start, Read, Written
<1>4. QED  BY <1>2, <1>3, OneScanThinks DEF Begin

\* What a listing of the transfers since a scan's start leaves out is behind the
\* cursor.
LEMMA ListedOrPassed ==
    ASSUME Assumptions, CursorInv, NEW s \in Scanners, scanner[s].pc \in Kinds,
           NEW t \in Transfers, time[t] # None,
           t \notin Listed(t.asset, scanner[s].from)
    PROVE  /\ cursor[scanner[s].pc] \in Nat /\ cursor[scanner[s].pc] # None
           /\ time[t] \in Nat /\ time[t] <= cursor[scanner[s].pc]
<1> PICK pc : pc = scanner[s].pc
  OBVIOUS
<1>1. /\ None \notin Int /\ clock \in Nat /\ time[t] \in Nat /\ time[t] <= clock
      /\ cursor[pc] \in Nat \cup {None}
  BY DEF Assumptions, CursorInv, Types, Past
<1>2. scanner[s].from \in Nat /\ time[t] \in Nat
  BY <1>1 DEF CursorInv, Types, Scan
<1>3. ~(scanner[s].from <= time[t])
  BY <1>1, <1>2 DEF Listed
<1>4. scanner[s].from = 0 \/ (cursor[pc] # None /\ scanner[s].from <= cursor[pc] + 1)
  BY DEF CursorInv, ScansOk, ScanOk, Start, Kinds
<1>5. QED  BY <1>1, <1>2, <1>3, <1>4

\* TRX transfers that decode are events or were found, all of them.
LEMMA FetchTrxKeeps ==
    ASSUME Assumptions, CursorInv, NEW s \in Scanners, FetchTrx(s)
    PROVE  CursorInv'
<1> PICK got : got = Fetched(Native, scanner[s].from)
  OBVIOUS
<1> PICK found : found = {e \in got : e.transfer.decodable}
  OBVIOUS
<1> PICK m : m = [scanner[s] EXCEPT !.pc = "trc20", !.from = From("trc20"),
                                    !.todo = Tokens, !.found = found]
  OBVIOUS
<1>0. /\ None \notin Int /\ Native \notin Tokens /\ scanner[s] \in Scan /\ scanner[s].pc = "trx"
      /\ "trx" \in Kinds /\ "trc20" \in Kinds
  BY DEF Assumptions, CursorInv, Types, FetchTrx, Kinds
<1>1. /\ From("trc20") \in Nat
      /\ From("trc20") = 0 \/ (cursor["trc20"] # None /\ From("trc20") <= cursor["trc20"] + 1)
  BY <1>0, FromIsBehind
<1>2. /\ got \in SUBSET Finding
      /\ \A e \in got : e.transfer \in Listed(Native, scanner[s].from) /\ e.transfer.asset = Native
      /\ \A t \in Listed(Native, scanner[s].from) : \E e \in got : e.transfer = t
  BY FetchedFindings
<1>3. found \in SUBSET Finding /\ \A e \in found : e.transfer.asset = Native
  BY <1>2
<1>4. /\ m \in Scan /\ m.pc = "trc20" /\ m.from = From("trc20") /\ m.found = found
  BY <1>0, <1>1, <1>3 DEF Scan
<1>5. AllConfirmed(found, time)
  <2>1. \A t \in Listed(Native, scanner[s].from) : time[t] \in Int
    BY <1>0 DEF Listed, CursorInv, Types, Scan
  <2>2. QED  BY <1>0, <1>2, <2>1 DEF AllConfirmed
<1>6. \A T : TrxUpTo(events \cup found, time, T)
  <2>1. SUFFICES ASSUME NEW t \in Transfers, t.asset = Native, t.decodable, time[t] # None
                 PROVE  Has(events \cup found, t)
    BY DEF TrxUpTo
  <2>2. CASE t \in Listed(Native, scanner[s].from)
    BY <1>2, <2>1, <2>2 DEF Has
  <2>3. CASE t \notin Listed(Native, scanner[s].from)
    <3>1. cursor["trx"] # None /\ time[t] <= cursor["trx"]
      BY <1>0, <2>1, <2>3, ListedOrPassed
    <3>2. QED  BY <2>1, <3>1 DEF CursorInv, CursorsCover, TrxUpTo, Has
  <2>4. QED  BY <2>2, <2>3
<1>7. Start(m, cursor) /\ Written(m, time, events \cup found, clock)
  BY <1>1, <1>4 DEF Start, Written
<1>8. Read(m, time, events \cup found)
  BY <1>0, <1>3, <1>4, <1>6 DEF Read
<1>9. ScanOk(m, time, clock, cursor, events)
  BY <1>4, <1>5, <1>7, <1>8 DEF ScanOk
<1>10. scanner' = [scanner EXCEPT ![s] = m]
  BY DEF FetchTrx, CursorInv, Types
<1>11. QED  BY <1>4, <1>9, <1>10, OneScanThinks DEF FetchTrx

\* So are the transfers of a token, or they were lost to another token before.
LEMMA FetchTrc20Keeps ==
    ASSUME Assumptions, CursorInv, NEW s \in Scanners, NEW token \in Tokens, FetchTrc20(s, token)
    PROVE  CursorInv'
<1> PICK got : got = Fetched(token, scanner[s].from)
  OBVIOUS
<1> PICK m : m = [scanner[s] EXCEPT !.todo = @ \ {token}, !.found = @ \cup got]
  OBVIOUS
<1> PICK S : S = events \cup scanner[s].found
  OBVIOUS
<1> PICK S2 : S2 = events \cup (scanner[s].found \cup got)
  OBVIOUS
<1>0. /\ None \notin Int /\ Native \notin Tokens /\ scanner[s] \in Scan /\ scanner[s].pc = "trc20"
      /\ "trx" \in Kinds /\ "trc20" \in Kinds
      /\ time \in Times /\ clock \in Nat /\ Past(time, clock)
  BY DEF Assumptions, CursorInv, Types, FetchTrc20, Kinds, Times
<1>1. /\ got \in SUBSET Finding
      /\ \A e \in got : e.transfer \in Listed(token, scanner[s].from) /\ e.transfer.asset = token
      /\ \A t \in Listed(token, scanner[s].from) : \E e \in got : e.transfer = t
  BY FetchedFindings
<1>2. /\ m \in Scan /\ m.pc = "trc20" /\ m.from = scanner[s].from
      /\ m.found = scanner[s].found \cup got
  BY <1>0, <1>1 DEF Scan
<1>3. ScanOk(scanner[s], time, clock, cursor, events)
  BY DEF CursorInv, ScansOk
<1>4. AllConfirmed(m.found, time)
  <2>1. \A t \in Listed(token, scanner[s].from) : time[t] \in Int
    BY <1>0 DEF Listed, Scan
  <2>2. QED  BY <1>0, <1>1, <1>2, <1>3, <2>1 DEF ScanOk, AllConfirmed
<1>5. \A T : TokenUpTo(S2, time, token, T)
  <2>1. SUFFICES ASSUME NEW t \in Transfers, t.asset = token, time[t] # None
                 PROVE  Has(S2, t) \/ Blames(S2, time, t)
    BY DEF TokenUpTo
  <2>2. CASE t \in Listed(token, scanner[s].from)
    BY <1>1, <2>1, <2>2 DEF Has
  <2>3. CASE t \notin Listed(token, scanner[s].from)
    <3>1. cursor["trc20"] # None /\ time[t] <= cursor["trc20"]
      BY <1>0, <2>1, <2>3, ListedOrPassed
    <3>2. Has(events, t) \/ Blames(events, time, t)
      BY <2>1, <3>1 DEF CursorInv, CursorsCover, TokenUpTo
    <3>3. QED  BY <3>2 DEF Has, Blames
  <2>4. QED  BY <2>2, <2>3
<1>6. /\ events \in SUBSET Finding /\ S \in SUBSET Finding /\ S2 \in SUBSET Finding
      /\ S \subseteq S2 /\ AllConfirmed(S, time) /\ Later(time, time, clock)
  <2>1. events \in SUBSET Finding /\ scanner[s].found \in SUBSET Finding
    BY <1>0 DEF CursorInv, Types, Scan
  <2>2. AllConfirmed(S, time)
    BY <1>3 DEF CursorInv, ScanOk, AllConfirmed
  <2>3. QED  BY <1>1, <2>1, <2>2 DEF Later
<1>7. Read(m, time, S2)
  <2>1. SUFFICES ASSUME NEW e \in m.found
                 PROVE  /\ e.transfer.asset = Native => TrxUpTo(S2, time, time[e.transfer])
                        /\ e.transfer.asset \in Tokens =>
                               TokenUpTo(S2, time, e.transfer.asset, time[e.transfer])
    BY DEF Read
  <2>2. CASE e \in got
    BY <1>0, <1>1, <1>5, <2>2
  <2>3. CASE e \in scanner[s].found
    <3>1. time[e.transfer] \in Nat /\ time[e.transfer] <= clock
      BY <1>0, <1>3, <2>3 DEF ScanOk, AllConfirmed, Past, Times, Scan, Finding
    <3>2. /\ TrxUpTo(S, time, time[e.transfer]) => TrxUpTo(S2, time, time[e.transfer])
          /\ \A x \in Tokens : TokenUpTo(S, time, x, time[e.transfer])
                               => TokenUpTo(S2, time, x, time[e.transfer])
      BY <1>0, <1>6, <3>1, UpToStays
    <3>3. Read(scanner[s], time, S)
      BY <1>3 DEF ScanOk
    <3>4. QED  BY <1>0, <2>3, <3>2, <3>3 DEF Read
  <2>4. QED  BY <1>2, <2>2, <2>3
<1>8. Start(m, cursor) /\ Written(m, time, S2, clock)
  BY <1>0, <1>2, <1>3 DEF ScanOk, Start, Written
<1>9. ScanOk(m, time, clock, cursor, events)
  BY <1>2, <1>4, <1>7, <1>8 DEF ScanOk
<1>10. scanner' = [scanner EXCEPT ![s] = m]
  BY DEF FetchTrc20, CursorInv, Types
<1>11. QED  BY <1>2, <1>9, <1>10, OneScanThinks DEF FetchTrc20

\* The new value of a cursor is the time of a transfer that was found.
LEMMA NewestIsFound ==
    ASSUME Assumptions, CursorInv, NEW s \in Scanners, NEW kind \in Kinds
    PROVE  /\ Newest(s, kind) \in Nat \cup {None}
           /\ Newest(s, kind) # None =>
                /\ Newest(s, kind) <= clock
                /\ \E e \in scanner[s].found :
                       Kind(e.transfer.asset) = kind /\ time[e.transfer] = Newest(s, kind)
           /\ \A e \in scanner[s].found : Kind(e.transfer.asset) = kind =>
                  Newest(s, kind) # None /\ time[e.transfer] <= Newest(s, kind)
<1> PICK times : times = {time[e.transfer] :
                          e \in {f \in scanner[s].found : Kind(f.transfer.asset) = kind}}
  OBVIOUS
<1>0. /\ time \in Times /\ clock \in Nat /\ Past(time, clock) /\ None \notin Int
      /\ scanner[s].found \in SUBSET Finding /\ AllConfirmed(scanner[s].found, time)
  BY DEF CursorInv, Types, Times, Scan, ScansOk, ScanOk, Assumptions
<1>1. \A e \in scanner[s].found : time[e.transfer] \in Nat /\ time[e.transfer] <= clock
  BY <1>0 DEF AllConfirmed, Past, Times, Finding
<1>2. Newest(s, kind) = IF times = {} THEN None ELSE Max(times)
  BY DEF Newest
<1>3. CASE times = {}
  BY <1>2, <1>3
<1>4. CASE times # {}
  <2>1. \A x \in times : x \in Nat /\ x <= clock
    BY <1>1
  <2>2. Max(times) \in times /\ \A x \in times : x <= Max(times)
    BY <1>0, <1>4, <2>1, MaxOfTimes
  <2>3. Newest(s, kind) = Max(times)
    BY <1>2, <1>4
  <2>4. Newest(s, kind) \in Nat /\ Newest(s, kind) <= clock /\ Newest(s, kind) # None
    BY <1>0, <2>1, <2>2, <2>3
  <2>5. \E e \in scanner[s].found :
            Kind(e.transfer.asset) = kind /\ time[e.transfer] = Newest(s, kind)
    BY <2>2, <2>3
  <2>6. \A e \in scanner[s].found : Kind(e.transfer.asset) = kind =>
            time[e.transfer] <= Newest(s, kind)
    BY <2>2, <2>3
  <2>7. QED  BY <2>4, <2>5, <2>6
<1>5. QED  BY <1>3, <1>4

\* As old as the newest of all tokens: either of the token of the newest, and read
\* with it, or the newest is to blame.
LEMMA AllFetchedKeeps ==
    ASSUME Assumptions, CursorInv, NEW s \in Scanners, AllFetched(s)
    PROVE  CursorInv'
<1> PICK newest : newest = [kind \in Kinds |-> Newest(s, kind)]
  OBVIOUS
<1> PICK m : m = [scanner[s] EXCEPT !.pc = "insert", !.newest = newest]
  OBVIOUS
<1> PICK S : S = events \cup scanner[s].found
  OBVIOUS
<1>0. /\ None \notin Int /\ Native \notin Tokens /\ scanner[s] \in Scan /\ scanner[s].pc = "trc20"
      /\ "trx" \in Kinds /\ "trc20" \in Kinds
      /\ time \in Times /\ clock \in Nat
  BY DEF Assumptions, CursorInv, Types, AllFetched, Kinds, Times
<1>1. \A kind \in Kinds :
          /\ newest[kind] \in Nat \cup {None}
          /\ newest[kind] # None =>
               /\ newest[kind] <= clock
               /\ \E e \in scanner[s].found :
                      Kind(e.transfer.asset) = kind /\ time[e.transfer] = newest[kind]
  BY NewestIsFound
<1>2. newest \in [Kinds -> Nat \cup {None}]
  BY <1>1
<1>3. /\ m \in Scan /\ m.pc = "insert" /\ m.found = scanner[s].found /\ m.newest = newest
  BY <1>0, <1>2 DEF Scan
<1>4. /\ ScanOk(scanner[s], time, clock, cursor, events) /\ Read(scanner[s], time, S)
      /\ \A e \in scanner[s].found : e.transfer \in Transfers
  BY <1>0 DEF CursorInv, ScansOk, ScanOk, Scan, Finding
<1>5. newest["trx"] # None => TrxUpTo(S, time, newest["trx"])
  <2>1. SUFFICES ASSUME newest["trx"] # None  PROVE TrxUpTo(S, time, newest["trx"])
    OBVIOUS
  <2>2. PICK e \in scanner[s].found :
            Kind(e.transfer.asset) = "trx" /\ time[e.transfer] = newest["trx"]
    BY <1>0, <1>1, <2>1
  <2>3. e.transfer.asset = Native
    BY <2>2 DEF Kind
  <2>4. QED  BY <1>0, <1>4, <2>2, <2>3 DEF Read
<1>6. newest["trc20"] # None =>
          \A token \in Tokens : TokenUpTo(S, time, token, newest["trc20"])
  <2>1. SUFFICES ASSUME newest["trc20"] # None, NEW t \in Transfers, t.asset \in Tokens,
                        time[t] # None, time[t] <= newest["trc20"]
                 PROVE  Has(S, t) \/ Blames(S, time, t)
    BY DEF TokenUpTo
  <2>2. PICK e \in scanner[s].found :
            Kind(e.transfer.asset) = "trc20" /\ time[e.transfer] = newest["trc20"]
    BY <1>0, <1>1, <2>1
  <2>3. e.transfer.asset \in Tokens
    <3>1. e.transfer \in [id : Nat, asset : Tokens \cup {Native}, decodable : BOOLEAN]
      BY <1>4 DEF Assumptions
    <3>2. QED  BY <2>2, <3>1 DEF Kind
  <2>4. CASE e.transfer.asset = t.asset
    BY <1>0, <1>4, <2>1, <2>2, <2>3, <2>4 DEF Read, TokenUpTo
  <2>5. CASE e.transfer.asset # t.asset
    <3>1. newest["trc20"] \in Nat /\ time[t] \in Nat
      BY <1>0, <1>1, <2>1 DEF Times
    <3>2. time[e.transfer] >= time[t] /\ e.transfer.asset \in Tokens \ {t.asset}
      BY <2>1, <2>2, <2>3, <2>5, <3>1
    <3>3. QED  BY <3>2 DEF Blames
  <2>6. QED  BY <2>4, <2>5
<1>7. Written(m, time, S, clock)
  BY <1>1, <1>2, <1>3, <1>5, <1>6 DEF Written
<1>8. AllConfirmed(m.found, time) /\ Start(m, cursor) /\ Read(m, time, S)
  BY <1>3, <1>4 DEF ScanOk, Start, Read
<1>9. ScanOk(m, time, clock, cursor, events)
  BY <1>3, <1>7, <1>8 DEF ScanOk
<1>10. scanner' = [scanner EXCEPT ![s] = m]
  BY DEF AllFetched, CursorInv, Types, Kinds
<1>11. QED  BY <1>3, <1>9, <1>10, OneScanThinks DEF AllFetched

\* A finding becomes an event: the two together stay what they are.
LEMMA InsertKeeps ==
    ASSUME Assumptions, CursorInv, NEW s \in Scanners, InsertTransfer(s)
    PROVE  CursorInv'
<1> PICK e \in scanner[s].found :
        events' = events \cup {e} /\ scanner' = [scanner EXCEPT ![s].found = @ \ {e}]
  BY DEF InsertTransfer
<1> PICK m : m = [scanner[s] EXCEPT !.found = @ \ {e}]
  OBVIOUS
<1>0. /\ scanner[s] \in Scan /\ scanner[s].pc = "insert"
      /\ time \in Times /\ clock \in Nat /\ events \in SUBSET Finding
      /\ cursor \in [Kinds -> Nat \cup {None}]
      /\ UNCHANGED <<clock, time, cursor>>
  BY DEF CursorInv, Types, Times, InsertTransfer
<1>1. /\ m \in Scan /\ m.pc = "insert" /\ m.found = scanner[s].found \ {e}
      /\ m.newest = scanner[s].newest
  BY <1>0 DEF Scan
<1>2. ScanOk(scanner[s], time, clock, cursor, events)
  BY DEF CursorInv, ScansOk
<1>3. events' \cup m.found = events \cup scanner[s].found
  BY <1>1
<1>4. events' \in SUBSET Finding /\ events \subseteq events' /\ AllConfirmed(events', time)
  <2>1. e \in Finding /\ time[e.transfer] # None
    BY <1>0, <1>2 DEF Scan, ScanOk, AllConfirmed
  <2>2. QED  BY <1>0, <2>1 DEF CursorInv, AllConfirmed
<1>5. Written(scanner[s], time, events \cup scanner[s].found, clock)
  BY <1>2 DEF ScanOk
<1>6. Written(m, time, events \cup scanner[s].found, clock)
  BY <1>0, <1>1, <1>5 DEF Written
<1>7. Written(m, time, events' \cup m.found, clock)
  BY <1>3, <1>6
<1>8. AllConfirmed(m.found, time) /\ Start(m, cursor') /\ Read(m, time, events' \cup m.found)
  BY <1>1, <1>2 DEF ScanOk, AllConfirmed, Start, Read
<1>9. ScanOk(m, time, clock, cursor', events')
  BY <1>7, <1>8 DEF ScanOk
<1>10. scanner' = [scanner EXCEPT ![s] = m]
  BY DEF CursorInv, Types
<1>11. \A kind \in Kinds : cursor[kind] # None => cursor'[kind] # None /\ cursor[kind] <= cursor'[kind]
  BY <1>0
<1>12. cursor' \in [Kinds -> Nat \cup {None}]
  BY <1>0
<1>13. scanner' \in [Scanners -> Scan] /\ ScansOk'
  BY <1>0, <1>1, <1>4, <1>9, <1>10, <1>11, <1>12, OneScanMoves
<1>14. CursorsCover(cursor, time, events')
  <2>1. Later(time, time, clock)
    BY DEF Later
  <2>2. QED  BY <1>0, <1>4, <2>1, CursorsStayCovered DEF CursorInv
<1>15. CursorsCover(cursor', time', events')
  BY <1>0, <1>14
<1>16. QED  BY <1>0, <1>4, <1>13, <1>15 DEF CursorInv, Types

\* A cursor that a scan moves goes forward, or as far as the scan read.
LEMMA UpsertedIs ==
    ASSUME Assumptions, CursorInv, NEW kind \in Kinds, NEW value \in Nat \cup {None},
           value # None => value <= clock
    PROVE  /\ Upserted(kind, value) \in [Kinds -> Nat \cup {None}]
           /\ \A k \in Kinds : cursor[k] # None =>
                  Upserted(kind, value)[k] # None /\ cursor[k] <= Upserted(kind, value)[k]
           /\ \A k \in Kinds \ {kind} : Upserted(kind, value)[k] = cursor[k]
           /\ \/ Upserted(kind, value)[kind] = cursor[kind]
              \/ value # None /\ Upserted(kind, value)[kind] = value
           /\ value # None => Upserted(kind, value)[kind] # None
                              /\ value <= Upserted(kind, value)[kind]
           /\ PastCursor(Upserted(kind, value), clock)
<1>0. /\ cursor \in [Kinds -> Nat \cup {None}] /\ None \notin Int /\ PastCursor(cursor, clock)
  BY DEF CursorInv, Types, Assumptions
<1>1. CASE value = None
  <2>1. Upserted(kind, value) = cursor
    BY <1>1 DEF Upserted
  <2>2. QED  BY <1>0, <1>1, <2>1
<1>2. CASE value # None
  <2> PICK new : new = Greatest(cursor[kind], value)
    OBVIOUS
  <2>1. /\ new \in Nat /\ new >= value /\ (cursor[kind] # None => new >= cursor[kind])
        /\ new = value \/ (cursor[kind] # None /\ new = cursor[kind])
    BY <1>0, <1>2, GreatestIsGreater
  <2>2. Upserted(kind, value) = [cursor EXCEPT ![kind] = new]
    BY <1>2 DEF Upserted
  <2> PICK up : up = Upserted(kind, value)
    OBVIOUS
  <2>3. up[kind] = new /\ \A k \in Kinds \ {kind} : up[k] = cursor[k]
    BY <1>0, <2>2
  <2>4. up \in [Kinds -> Nat \cup {None}]
    BY <1>0, <2>1, <2>2
  <2>5. new # None /\ value <= new /\ new <= clock
    BY <1>0, <1>2, <2>1 DEF PastCursor
  <2>6. \A k \in Kinds : cursor[k] # None => up[k] # None /\ cursor[k] <= up[k]
    BY <1>0, <2>1, <2>3, <2>5
  <2>7. PastCursor(up, clock)
    BY <1>0, <2>3, <2>5 DEF PastCursor
  <2>8. QED  BY <2>1, <2>3, <2>4, <2>5, <2>6, <2>7
<1>3. QED  BY <1>1, <1>2

\* The part of it that the count of the events rests on.
LEMMA UpsertMovesForward ==
    ASSUME Assumptions, CursorInv, NEW kind \in Kinds, NEW value \in Nat \cup {None},
           value # None => value <= clock, NEW up, up = Upserted(kind, value)
    PROVE  /\ \A k \in Kinds : cursor[k] # None => up[k] # None /\ cursor[k] <= up[k]
           /\ value # None => up[kind] # None /\ value <= up[kind]
           /\ up \in [Kinds -> Nat \cup {None}]
BY UpsertedIs

LEMMA UpsertTrxKeeps ==
    ASSUME Assumptions, CursorInv, NEW s \in Scanners, UpsertTrxCursor(s)
    PROVE  CursorInv'
<1> PICK value : value = scanner[s].newest["trx"]
  OBVIOUS
<1> PICK m : m = [scanner[s] EXCEPT !.pc = "upsert"]
  OBVIOUS
<1>0. /\ scanner[s] \in Scan /\ scanner[s].pc = "insert" /\ scanner[s].found = {}
      /\ "trx" \in Kinds /\ "trc20" \in Kinds /\ "trc20" # "trx"
      /\ UNCHANGED <<clock, time, events>> /\ cursor' = Upserted("trx", value)
      /\ events \in SUBSET Finding
  BY DEF CursorInv, Types, UpsertTrxCursor, Kinds
<1>1. /\ ScanOk(scanner[s], time, clock, cursor, events)
      /\ Written(scanner[s], time, events, clock)
  BY <1>0 DEF CursorInv, ScansOk, ScanOk
<1>2. /\ value \in Nat \cup {None} /\ (value # None => value <= clock)
      /\ value # None => TrxUpTo(events, time, value)
  BY <1>0, <1>1 DEF Written, Scan
<1>3. /\ cursor' \in [Kinds -> Nat \cup {None}]
      /\ \A k \in Kinds : cursor[k] # None => cursor'[k] # None /\ cursor[k] <= cursor'[k]
      /\ cursor'["trc20"] = cursor["trc20"]
      /\ cursor'["trx"] = cursor["trx"] \/ (value # None /\ cursor'["trx"] = value)
      /\ PastCursor(cursor', clock)
  BY <1>0, <1>2, UpsertedIs
<1>4. CursorsCover(cursor', time, events)
  BY <1>2, <1>3 DEF CursorInv, CursorsCover
<1>5. /\ m \in Scan /\ m.pc = "upsert" /\ m.found = {} /\ m.newest = scanner[s].newest
  BY <1>0 DEF Scan
<1>6. Written(m, time, events, clock)
  BY <1>0, <1>1, <1>5 DEF Written
<1>7. ScanOk(m, time, clock, cursor', events)
  BY <1>5, <1>6 DEF ScanOk, AllConfirmed, Start, Read
<1>8. scanner' = [scanner EXCEPT ![s] = m]
  BY DEF UpsertTrxCursor, CursorInv, Types
<1>9. scanner' \in [Scanners -> Scan] /\ ScansOk'
  BY <1>0, <1>3, <1>5, <1>7, <1>8, OneScanMoves
<1>10. QED  BY <1>0, <1>3, <1>4, <1>9 DEF CursorInv, Types

LEMMA UpsertTrc20Keeps ==
    ASSUME Assumptions, CursorInv, NEW s \in Scanners, UpsertTrc20Cursor(s)
    PROVE  CursorInv'
<1> PICK value : value = scanner[s].newest["trc20"]
  OBVIOUS
<1>0. /\ scanner[s] \in Scan /\ scanner[s].pc = "upsert"
      /\ "trx" \in Kinds /\ "trc20" \in Kinds /\ "trc20" # "trx"
      /\ UNCHANGED <<clock, time, events>> /\ cursor' = Upserted("trc20", value)
      /\ scanner' = [scanner EXCEPT ![s] = IdleScan]
      /\ events \in SUBSET Finding
  BY DEF CursorInv, Types, UpsertTrc20Cursor, Kinds
<1>1. /\ Written(scanner[s], time, events \cup scanner[s].found, clock)
      /\ scanner[s].found = {}
  BY <1>0 DEF CursorInv, ScansOk, ScanOk, Written
<1>2. /\ value \in Nat \cup {None} /\ (value # None => value <= clock)
      /\ value # None => \A token \in Tokens : TokenUpTo(events, time, token, value)
  BY <1>0, <1>1 DEF Written, Scan
<1>3. /\ cursor' \in [Kinds -> Nat \cup {None}]
      /\ \A k \in Kinds : cursor[k] # None => cursor'[k] # None /\ cursor[k] <= cursor'[k]
      /\ cursor'["trx"] = cursor["trx"]
      /\ cursor'["trc20"] = cursor["trc20"] \/ (value # None /\ cursor'["trc20"] = value)
      /\ PastCursor(cursor', clock)
  BY <1>0, <1>2, UpsertedIs
<1>4. CursorsCover(cursor', time, events)
  BY <1>2, <1>3 DEF CursorInv, CursorsCover
<1>5. scanner' \in [Scanners -> Scan] /\ ScansOk'
  BY <1>0, <1>3, IdleIsOk, OneScanMoves
<1>6. QED  BY <1>0, <1>3, <1>4, <1>5 DEF CursorInv, Types

LEMMA NextKeeps ==
    ASSUME Assumptions, CursorInv, [Next]_vars
    PROVE  CursorInv'
<1>1. CASE \E ts \in SUBSET Transfers : Confirm(ts)
  BY <1>1, ConfirmKeeps
<1>2. ASSUME NEW s \in Scanners, ScanStep(s) \/ ScanEnds(s)
      PROVE  CursorInv'
  BY <1>2, BeginKeeps, FetchTrxKeeps, FetchTrc20Keeps, EndKeeps, AllFetchedKeeps,
     InsertKeeps, UpsertTrxKeeps, UpsertTrc20Keeps DEF ScanStep
<1>3. CASE UNCHANGED vars
  BY <1>3 DEF vars, CursorInv, Types, ScansOk
<1>4. QED  BY <1>1, <1>2, <1>3 DEF Next

LEMMA CursorsPassNothing ==
    ASSUME Assumptions, CursorInv
    PROVE  NoTransferIsPassed
<1>1. TrxCursorCovers
  BY DEF CursorInv, CursorsCover, TrxUpTo, Has, TrxCursorCovers, Passed, Confirmed,
              Reported, Kind
<1>2. LostOnlyToAnotherToken
  <2>1. SUFFICES ASSUME NEW t \in Transfers, t.asset \in Tokens, Passed(t)
                 PROVE  Has(events, t) \/ Blames(events, time, t)
    BY DEF LostOnlyToAnotherToken, Reported, Has, Blames
  <2>2. Kind(t.asset) = "trc20"
    BY <2>1 DEF Kind, Assumptions
  <2>3. QED  BY <2>1, <2>2 DEF CursorInv, CursorsCover, TokenUpTo, Passed, Confirmed
<1>3. QED  BY <1>1, <1>2 DEF NoTransferIsPassed

LEMMA CursorTypes ==
    ASSUME Assumptions, CursorInv
    PROVE  TypeOK
<1>1. /\ clock \in Nat /\ clock <= MaxTime /\ MaxTime \in Nat /\ None \notin Int
      /\ time \in Times /\ cursor \in [Kinds -> Nat \cup {None}]
      /\ events \in SUBSET Finding
  BY DEF CursorInv, Types, Times, Assumptions
<1>2. \A t \in Transfers : time[t] \in 1..MaxTime \cup {None}
  BY <1>1 DEF CursorInv, Past, Times
<1>3. \A kind \in Kinds : cursor[kind] \in 0..MaxTime \cup {None}
  BY <1>1 DEF CursorInv, PastCursor
<1>4. time \in [Transfers -> 1..MaxTime \cup {None}]
  BY <1>1, <1>2 DEF Times
<1>5. cursor \in [Kinds -> 0..MaxTime \cup {None}]
  BY <1>1, <1>3
<1>6. QED  BY <1>1, <1>4, <1>5 DEF TypeOK, Finding, Kinds

-----------------------------------------------------------------------------
(* One event for a transfer, while one scan follows the other and each     *)
(* comes to its end.                                                       *)

Distinct(S) == \A e, f \in S : e.transfer = f.transfer => e = f
UpTo(cu, tm, e) ==
    cu[Kind(e.transfer.asset)] # None /\ tm[e.transfer] <= cu[Kind(e.transfer.asset)]

\* The scan m reads behind the cursor, what it found is not an event, and all the
\* events are behind the cursor, or will be when m ends.
Once(m, tm, cu, ev) ==
    /\ Distinct(ev \cup m.found)
    /\ m.pc \in {"idle", "trx", "trc20"} => \A e \in ev : UpTo(cu, tm, e)
    /\ m.pc \in {"insert", "upsert"} =>
           \A e \in ev \cup m.found : UpTo(cu, tm, e) \/ UpTo(m.newest, tm, e)
    /\ m.pc = "upsert" =>
           \A e \in ev : Kind(e.transfer.asset) = "trx" => UpTo(cu, tm, e)
    /\ m.pc \in {"idle", "trx"} => m.found = {}
    /\ m.pc \in Kinds => m.from = (IF cu[m.pc] = None THEN 0 ELSE cu[m.pc] + 1)
    /\ m.pc = "trc20" => \A e \in m.found : e.transfer.asset \notin m.todo

OnceInv == /\ faults \in Nat
           /\ faults = 0 => \A s \in Scanners : Once(scanner[s], time, cursor, events)

\* A listing behind the cursor finds no transfer twice, and none with an event
\* behind the cursor.
LEMMA FetchedAreNew ==
    ASSUME Assumptions, CursorInv, NEW s \in Scanners, scanner[s].pc \in Kinds,
           Once(scanner[s], time, cursor, events),
           NEW asset, Kind(asset) = scanner[s].pc
    PROVE  /\ Distinct(Fetched(asset, scanner[s].from))
           /\ \A e \in Fetched(asset, scanner[s].from), f \in events : e.transfer # f.transfer
<1> PICK pc : pc = scanner[s].pc
  OBVIOUS
<1>1. /\ \A e \in Fetched(asset, scanner[s].from) :
             e.transfer \in Listed(asset, scanner[s].from) /\ e.transfer.asset = asset
      /\ Distinct(Fetched(asset, scanner[s].from))
  BY FetchedFindings DEF Distinct
<1>2. \A f \in events : UpTo(cursor, time, f)
  BY DEF Once, Kinds
<1>3. scanner[s].from = (IF cursor[pc] = None THEN 0 ELSE cursor[pc] + 1)
      /\ cursor[pc] \in Nat \cup {None} /\ clock \in Nat
  BY DEF Once, CursorInv, Types
<1>4. ASSUME NEW e \in Fetched(asset, scanner[s].from), NEW f \in events,
             e.transfer = f.transfer
      PROVE  FALSE
  <2>1. time[e.transfer] \in scanner[s].from .. clock
    BY <1>1 DEF Listed
  <2>2. cursor[pc] # None /\ time[e.transfer] <= cursor[pc]
    BY <1>1, <1>2, <1>4 DEF UpTo
  <2>3. QED  BY <1>3, <2>1, <2>2
<1>5. QED  BY <1>1, <1>4

LEMMA OnceInit ==
    ASSUME Init
    PROVE  OnceInv
<1>1. IdleScan.pc = "idle" /\ IdleScan.found = {}
  BY DEF IdleScan
<1>2. QED  BY <1>1 DEF Init, OnceInv, Once, Distinct, Kinds

\* Each step of the only scan keeps what is said of it.
LEMMA OnceStep ==
    ASSUME Assumptions, CursorInv, CursorInv', NEW s \in Scanners, Scanners = {s},
           Once(scanner[s], time, cursor, events), ScanStep(s)
    PROVE  Once(scanner'[s], time', cursor', events')
<1>0. /\ None \notin Int /\ Native \notin Tokens /\ scanner[s] \in Scan
      /\ cursor \in [Kinds -> Nat \cup {None}] /\ "trx" \in Kinds /\ "trc20" \in Kinds
      /\ scanner \in [Scanners -> Scan] /\ events \in SUBSET Finding
      /\ clock \in Nat /\ time \in Times
  BY DEF Assumptions, CursorInv, Types, Kinds, Times
<1>1. CASE Begin(s)
  <2>1. /\ scanner'[s].pc = "trx" /\ scanner'[s].found = {} /\ scanner'[s].from = From("trx")
        /\ UNCHANGED <<time, cursor, events>> /\ scanner[s].pc = "idle"
    BY <1>0, <1>1 DEF Begin, IdleScan
  <2>2. QED  BY <1>0, <2>1 DEF Once, Distinct, From, Kinds
<1>2. CASE FetchTrx(s)
  <2> PICK got : got = Fetched(Native, scanner[s].from)
    OBVIOUS
  <2>1. /\ scanner[s].pc = "trx" /\ scanner'[s].pc = "trc20" /\ scanner'[s].from = From("trc20")
        /\ scanner'[s].todo = Tokens /\ scanner'[s].found \subseteq got
        /\ UNCHANGED <<time, cursor, events>>
    BY <1>0, <1>2 DEF FetchTrx, Scan
  <2>2. Kind(Native) = "trx"
    BY DEF Kind
  <2>3. Distinct(got) /\ \A e \in got, f \in events : e.transfer # f.transfer
    BY <1>0, <2>1, <2>2, FetchedAreNew
  <2>4. \A e \in got : e.transfer.asset = Native
    BY FetchedFindings
  <2>5. Distinct(events \cup scanner'[s].found)
    BY <2>1, <2>3 DEF Once, Distinct
  <2>6. QED  BY <1>0, <2>1, <2>4, <2>5 DEF Once, From
<1>3. CASE \E token \in Tokens : FetchTrc20(s, token)
  <2> PICK token \in Tokens : FetchTrc20(s, token)
    BY <1>3
  <2> PICK got : got = Fetched(token, scanner[s].from)
    OBVIOUS
  <2>1. /\ scanner[s].pc = "trc20" /\ scanner'[s].pc = "trc20"
        /\ scanner'[s].from = scanner[s].from /\ token \in scanner[s].todo
        /\ scanner'[s].todo = scanner[s].todo \ {token}
        /\ scanner'[s].found = scanner[s].found \cup got
        /\ UNCHANGED <<time, cursor, events>>
    BY <1>0 DEF FetchTrc20, Scan
  <2>2. Kind(token) = "trc20"
    BY <1>0 DEF Kind
  <2>3. Distinct(got) /\ \A e \in got, f \in events : e.transfer # f.transfer
    BY <1>0, <2>1, <2>2, FetchedAreNew
  <2>4. \A e \in got : e.transfer.asset = token
    BY FetchedFindings
  <2>5. \A e \in got, f \in scanner[s].found : e.transfer # f.transfer
    BY <2>1, <2>4 DEF Once
  <2>6. Distinct(events \cup scanner'[s].found)
    BY <2>1, <2>3, <2>5 DEF Once, Distinct
  <2>7. QED  BY <1>0, <2>1, <2>4, <2>6 DEF Once
<1>4. CASE FetchFails(s)
  <2>1. /\ scanner[s].pc \in {"trx", "trc20"} /\ scanner'[s] = IdleScan
        /\ UNCHANGED <<time, cursor, events>>
    BY <1>0, <1>4 DEF FetchFails
  <2>2. IdleScan.pc = "idle" /\ IdleScan.found = {}
    BY DEF IdleScan
  <2>3. QED  BY <2>1, <2>2 DEF Once, Distinct, Kinds
<1>5. CASE AllFetched(s)
  <2> PICK newest : newest = [kind \in Kinds |-> Newest(s, kind)]
    OBVIOUS
  <2>1. /\ scanner[s].pc = "trc20" /\ scanner'[s].pc = "insert"
        /\ scanner'[s].found = scanner[s].found /\ scanner'[s].newest = newest
        /\ UNCHANGED <<time, cursor, events>>
    BY <1>0, <1>5 DEF AllFetched, Scan, Kinds
  <2>2. \A e \in scanner[s].found : Kind(e.transfer.asset) \in Kinds
    BY DEF Kind, Kinds
  <2>3. \A e \in scanner[s].found : UpTo(newest, time, e)
    BY <2>2, NewestIsFound DEF UpTo
  <2>4. QED  BY <2>1, <2>3 DEF Once, Kinds
<1>6. CASE InsertTransfer(s)
  <2> PICK e \in scanner[s].found :
          events' = events \cup {e} /\ scanner' = [scanner EXCEPT ![s].found = @ \ {e}]
    BY <1>6 DEF InsertTransfer
  <2>1. /\ scanner[s].pc = "insert" /\ scanner'[s].pc = "insert"
        /\ scanner'[s].found = scanner[s].found \ {e} /\ scanner'[s].newest = scanner[s].newest
        /\ UNCHANGED <<time, cursor>>
    BY <1>0, <1>6 DEF InsertTransfer, Scan
  <2>2. events' \cup scanner'[s].found = events \cup scanner[s].found
    BY <2>1
  <2>3. QED  BY <2>1, <2>2 DEF Once, Kinds
<1>7. CASE UpsertTrxCursor(s)
  <2> PICK value : value = scanner[s].newest["trx"]
    OBVIOUS
  <2>1. /\ scanner[s].pc = "insert" /\ scanner'[s].pc = "upsert" /\ scanner[s].found = {}
        /\ scanner'[s].found = {} /\ scanner'[s].newest = scanner[s].newest
        /\ UNCHANGED <<time, events>> /\ cursor' = Upserted("trx", value)
    BY <1>0, <1>7 DEF UpsertTrxCursor, Scan
  <2>2. value \in Nat \cup {None} /\ (value # None => value <= clock)
    BY <1>0, <2>1 DEF CursorInv, ScansOk, ScanOk, Written
  <2>3. /\ \A k \in Kinds : cursor[k] # None => cursor'[k] # None /\ cursor[k] <= cursor'[k]
        /\ value # None => cursor'["trx"] # None /\ value <= cursor'["trx"]
        /\ cursor' \in [Kinds -> Nat \cup {None}]
    <3>1. Assumptions /\ CursorInv /\ "trx" \in Kinds
      BY <1>0 DEF Kinds
    <3>2. cursor' = Upserted("trx", value)
      BY <2>1
    <3>3. QED  BY <2>2, <3>1, <3>2, UpsertMovesForward
  <2>4. ASSUME NEW e \in events
        PROVE  /\ UpTo(cursor', time, e) \/ UpTo(scanner[s].newest, time, e)
               /\ Kind(e.transfer.asset) = "trx" => UpTo(cursor', time, e)
    <3> PICK k : k = Kind(e.transfer.asset)
      OBVIOUS
    <3>1. /\ k \in Kinds /\ time[e.transfer] \in Nat
      BY <1>0 DEF Kind, Kinds, CursorInv, AllConfirmed, Finding, Times
    <3>2. UpTo(cursor, time, e) \/ UpTo(scanner[s].newest, time, e)
      BY <2>1 DEF Once
    <3>3. CASE UpTo(cursor, time, e)
      <4>1. cursor[k] # None /\ time[e.transfer] <= cursor[k]
        BY <3>3 DEF UpTo
      <4>2. cursor'[k] # None /\ cursor[k] <= cursor'[k] /\ cursor[k] \in Nat /\ cursor'[k] \in Nat
        BY <1>0, <2>3, <3>1, <4>1
      <4>3. UpTo(cursor', time, e)
        BY <3>1, <4>1, <4>2 DEF UpTo
      <4>4. QED  BY <4>3
    <3>4. CASE UpTo(scanner[s].newest, time, e)
      <4>1. scanner[s].newest[k] # None /\ time[e.transfer] <= scanner[s].newest[k]
        BY <3>4 DEF UpTo
      <4>2. CASE k = "trx"
        <5>1. /\ value # None /\ time[e.transfer] <= value /\ value \in Nat
              /\ cursor'[k] # None /\ value <= cursor'[k] /\ cursor'[k] \in Nat
          BY <1>0, <2>2, <2>3, <4>1, <4>2
        <5>2. UpTo(cursor', time, e)
          BY <3>1, <5>1 DEF UpTo
        <5>3. QED  BY <3>4, <5>2
      <4>3. CASE k # "trx"
        BY <3>4, <4>3
      <4>4. QED  BY <4>2, <4>3
    <3>5. QED  BY <3>2, <3>3, <3>4
  <2>5. QED  BY <2>1, <2>4 DEF Once, Kinds
<1>8. CASE UpsertTrc20Cursor(s)
  <2> PICK value : value = scanner[s].newest["trc20"]
    OBVIOUS
  <2>1. /\ scanner[s].pc = "upsert" /\ scanner'[s] = IdleScan
        /\ UNCHANGED <<time, events>> /\ cursor' = Upserted("trc20", value)
    BY <1>0, <1>8 DEF UpsertTrc20Cursor
  <2>2. /\ value \in Nat \cup {None} /\ (value # None => value <= clock)
    BY <1>0, <2>1 DEF CursorInv, ScansOk, ScanOk, Written
  <2>3. /\ \A k \in Kinds : cursor[k] # None => cursor'[k] # None /\ cursor[k] <= cursor'[k]
        /\ value # None => cursor'["trc20"] # None /\ value <= cursor'["trc20"]
        /\ cursor' \in [Kinds -> Nat \cup {None}]
    <3>1. Assumptions /\ CursorInv /\ "trc20" \in Kinds
      BY <1>0 DEF Kinds
    <3>2. cursor' = Upserted("trc20", value)
      BY <2>1
    <3>3. QED  BY <2>2, <3>1, <3>2, UpsertMovesForward
  <2>4. ASSUME NEW e \in events
        PROVE  UpTo(cursor', time, e)
    <3> PICK k : k = Kind(e.transfer.asset)
      OBVIOUS
    <3>1. /\ k \in Kinds /\ time[e.transfer] \in Nat
      BY <1>0 DEF Kind, Kinds, CursorInv, AllConfirmed, Finding, Times
    <3>2. /\ UpTo(cursor, time, e) \/ UpTo(scanner[s].newest, time, e)
          /\ k = "trx" => UpTo(cursor, time, e)
      BY <2>1 DEF Once
    <3>3. CASE UpTo(cursor, time, e)
      <4>1. cursor[k] # None /\ time[e.transfer] <= cursor[k]
        BY <3>3 DEF UpTo
      <4>2. cursor'[k] # None /\ cursor[k] <= cursor'[k] /\ cursor[k] \in Nat /\ cursor'[k] \in Nat
        BY <1>0, <2>3, <3>1, <4>1
      <4>3. QED  BY <3>1, <4>1, <4>2 DEF UpTo
    <3>4. CASE k = "trc20" /\ UpTo(scanner[s].newest, time, e)
      <4>1. value # None /\ time[e.transfer] <= value /\ value \in Nat
        BY <1>0, <2>2, <3>4 DEF UpTo
      <4>2. cursor'[k] # None /\ value <= cursor'[k] /\ cursor'[k] \in Nat
        BY <1>0, <2>3, <3>4, <4>1
      <4>3. QED  BY <3>1, <4>1, <4>2 DEF UpTo
    <3>5. QED  BY <3>1, <3>2, <3>3, <3>4 DEF Kinds
  <2>5. IdleScan.pc = "idle" /\ IdleScan.found = {}
    BY DEF IdleScan
  <2>6. Distinct(events)
    BY DEF Once, Distinct
  <2>7. QED  BY <2>1, <2>4, <2>5, <2>6 DEF Once, Kinds
<1>9. QED  BY <1>1, <1>2, <1>3, <1>4, <1>5, <1>6, <1>7, <1>8 DEF ScanStep

LEMMA OnceKeeps ==
    ASSUME Assumptions, CursorInv, CursorInv', NEW s \in Scanners, Scanners = {s},
           OnceInv, [Next]_vars
    PROVE  OnceInv'
<1>1. CASE \E ts \in SUBSET Transfers : Confirm(ts)
  <2> PICK ts \in SUBSET Transfers : Confirm(ts)
    BY <1>1
  <2>1. UNCHANGED <<cursor, events, scanner, faults>>
    BY DEF Confirm
  <2>2. SUFFICES ASSUME faults = 0, Once(scanner[s], time, cursor, events)
                 PROVE  Once(scanner[s], time', cursor, events)
    BY <2>1 DEF OnceInv
  <2>3. \A e \in events \cup scanner[s].found : time'[e.transfer] = time[e.transfer]
    <3>1. \A e \in events \cup scanner[s].found :
              e.transfer \in Transfers /\ time[e.transfer] # None
      BY DEF CursorInv, Types, Scan, Finding, AllConfirmed, ScansOk, ScanOk
    <3>2. \A t \in Transfers : time[t] # None => time'[t] = time[t]
      BY DEF Confirm
    <3>3. QED  BY <3>1, <3>2
  <2>4. QED  BY <2>2, <2>3 DEF Once, UpTo
<1>2. CASE ScanStep(s)
  <2>1. faults' = faults
    BY <1>2 DEF ScanStep, Begin, FetchTrx, FetchTrc20, FetchFails, AllFetched, InsertTransfer,
                UpsertTrxCursor, UpsertTrc20Cursor
  <2>2. Once(scanner[s], time, cursor, events) => Once(scanner'[s], time', cursor', events')
    BY <1>2, OnceStep
  <2>3. QED  BY <2>1, <2>2 DEF OnceInv
<1>3. CASE ScanEnds(s)
  BY <1>3 DEF ScanEnds, OnceInv
<1>4. CASE UNCHANGED vars
  BY <1>4 DEF vars, OnceInv
<1>5. QED  BY <1>1, <1>2, <1>3, <1>4 DEF Next

-----------------------------------------------------------------------------
(* Every state, and what is true of it.                                    *)

TronInv == CursorInv /\ (Cardinality(Scanners) = 1 => OnceInv)

LEMMA TronInvInit ==
    ASSUME Assumptions, Init
    PROVE  TronInv
  BY CursorInit, OnceInit DEF TronInv

LEMMA TronInvStep ==
    ASSUME Assumptions, TronInv, [Next]_vars
    PROVE  TronInv'
<1>1. CursorInv /\ CursorInv'
  BY NextKeeps DEF TronInv
<1>2. ASSUME Cardinality(Scanners) = 1  PROVE OnceInv'
  <2>1. PICK s : Scanners = {s}
    BY <1>2, FS_Singleton DEF Assumptions
  <2>2. s \in Scanners /\ OnceInv
    BY <1>2, <2>1 DEF TronInv
  <2>3. QED  BY <1>1, <2>1, <2>2, OnceKeeps
<1>3. QED  BY <1>1, <1>2 DEF TronInv

LEMMA TronInvTells ==
    ASSUME Assumptions, TronInv
    PROVE  TypeOK /\ NoTransferIsPassed /\ OneEventUnlessInterrupted
<1>1. CursorInv
  BY DEF TronInv
<1>2. TypeOK /\ NoTransferIsPassed
  BY <1>1, CursorTypes, CursorsPassNothing
<1>3. OneEventUnlessInterrupted
  <2>1. SUFFICES ASSUME Cardinality(Scanners) = 1, faults = 0
                 PROVE  \A e, f \in events : e.transfer = f.transfer => e = f
    BY DEF OneEventUnlessInterrupted
  <2>2. PICK s : Scanners = {s}
    BY <2>1, FS_Singleton DEF Assumptions
  <2>3. Once(scanner[s], time, cursor, events)
    BY <2>1, <2>2 DEF TronInv, OnceInv
  <2>4. QED  BY <2>3 DEF Once, Distinct
<1>4. QED  BY <1>2, <1>3

\* Wherever scans end or overlap, the TRX cursor passes no transfer without an
\* event, and the TRC20 cursor, which all contracts of the address share, none
\* but for one at least as new of another contract: with one contract, none. And
\* a transfer has one row of address_events, whatever log_index its place in the
\* listings gave it, as long as no scan ended early and none overlaps another.
THEOREM TronScansAreSafe ==
    ASSUME Assumptions
    PROVE  Spec => [](TypeOK /\ NoTransferIsPassed /\ OneEventUnlessInterrupted)
<1>1. Init => TronInv
  BY TronInvInit
<1>2. TronInv /\ [Next]_vars => TronInv'
  BY TronInvStep
<1>3. TronInv => TypeOK /\ NoTransferIsPassed /\ OneEventUnlessInterrupted
  BY TronInvTells
<1>4. QED  BY <1>1, <1>2, <1>3, PTL DEF Spec
=============================================================================
