-------------------------- MODULE ChainScansProofs --------------------------
(***************************************************************************)
(* What every state of the parts of a chain scan is like, whatever their   *)
(* parameters.  EvmScan and TronScan bring their invariants and lemmas;    *)
(* those of BtcScan and ProviderPool, each instantiated once, are here.    *)
(***************************************************************************)
EXTENDS ChainScans, FiniteSetTheorems, WellFoundedInduction, TLAPS

BtcScan == [pc : {"idle", "pages", "insert"}, from : Nat, pages : Nat,
         last : Bitcoin.transactions \cup {None}, found : SUBSET Bitcoin.transactions,
         newest : Nat \cup {None}]

BtcTypes ==
    /\ head \in Nat \ {0} /\ head <= Bitcoin.maxBlock
    /\ block \in [Bitcoin.transactions -> (Nat \ {0}) \cup {None}]
    /\ cursor \in (Nat \ {0}) \cup {None}
    /\ rows \in [Bitcoin.transactions -> 0..1]
    /\ scanner \in [Bitcoin.scanners -> BtcScan]

\* Of a listing that gives each transaction the block bl.
Earlier(bl, t, u) == bl[t] > bl[u] \/ (bl[t] = bl[u] /\ t > u)
NoneNewer(bl, found, t) == \A u \in found : bl[u] <= bl[t]

\* What a scan m may count on, of the blocks, the cursor and the rows: what is
\* older than its first block is an event; what the pages so far had room for and
\* is not found is no older than all that is; and what it has not inserted
\* either is no older than the cursor it is about to write.
Behind(m, bl, c, rw) ==
    /\ m.from # 0 => c # None /\ m.from <= c
    /\ \A t \in m.found : bl[t] # None
Paged(m, bl) ==
    m.pc = "pages" =>
        /\ m.last = None => m.found = {}
        /\ m.last # None =>
             /\ bl[m.last] # None
             /\ \A t \in Bitcoin.transactions :
                  /\ bl[t] # None /\ bl[t] >= m.from
                  /\ t = m.last \/ Earlier(bl, t, m.last)
                  => t \in m.found \/ (NoneNewer(bl, m.found, t) /\ bl[t] >= bl[m.last])
Written(m, bl, rw, h) ==
    m.pc = "insert" =>
        /\ m.newest # None => m.newest # 0 /\ m.newest <= h
        /\ m.newest # None => \A t \in Bitcoin.transactions :
               bl[t] # None /\ bl[t] >= m.from =>
                   t \in m.found \/ rw[t] = 1 \/ bl[t] >= m.newest

ScanOk(m, h, bl, c, rw) == Behind(m, bl, c, rw) /\ Paged(m, bl) /\ Written(m, bl, rw, h)
ScansOk == \A s \in Bitcoin.scanners : ScanOk(scanner[s], head, block, cursor, rows)

CursorInv ==
    /\ BtcTypes
    /\ \A t \in Bitcoin.transactions : block[t] # None => block[t] <= head
    /\ cursor # None => cursor <= head
    /\ Btc!NoTransferIsPassed
    /\ ScansOk

-----------------------------------------------------------------------------
(* Numbers, and the order of the listing.                                  *)

LEMMA BtcMaxOfTwo ==
    ASSUME NEW a \in Int, NEW b \in Int
    PROVE  /\ Btc!Max({a, b}) \in {a, b}
           /\ Btc!Max({a, b}) >= a /\ Btc!Max({a, b}) >= b
<1>1. \E x \in {a, b} : \A y \in {a, b} : x >= y
  <2>1. CASE a >= b  BY <2>1
  <2>2. CASE b >= a  BY <2>2
  <2>3. QED  BY <2>1, <2>2
<1>2. QED  BY <1>1 DEF Btc!Max

\* A set of naturals that is bounded has a greatest element: the least bound.
LEMMA MaxOfBounded ==
    ASSUME NEW S, S \subseteq Nat, S # {}, NEW c \in Nat, \A x \in S : x <= c
    PROVE  Btc!Max(S) \in S /\ \A x \in S : x <= Btc!Max(S)
<1> DEFINE Bounds == {n \in Nat : \A x \in S : x <= n}
<1>1. Bounds \subseteq Nat /\ Bounds # {}
  OBVIOUS
<1>2. \E n \in Bounds : \A y \in Bounds : <<y, n>> \notin OpToRel(<, Nat)
  <2> HIDE DEF Bounds
  <2>1. QED  BY <1>1, NatLessThanWellFounded, WFMin, Zenon
<1>3. PICK n \in Bounds : \A y \in Bounds : <<y, n>> \notin OpToRel(<, Nat)
  BY <1>2, Zenon
<1>4. \A y \in Bounds : ~(y < n)
  <2> HIDE DEF Bounds
  <2>1. QED  BY <1>1, <1>3, Zenon DEF OpToRel
<1>5. n \in S
  <2>1. SUFFICES ASSUME n \notin S  PROVE FALSE
    OBVIOUS
  <2>2. \A x \in S : x <= n /\ x # n
    BY <2>1
  <2>3. \A x \in S : x <= n - 1
    BY <2>2
  <2>4. n - 1 \in Nat
    <3>1. PICK x \in S : TRUE
      OBVIOUS
    <3>2. x \in Nat /\ x <= n - 1 /\ n \in Nat
      BY <2>3
    <3>3. QED  BY <3>2
  <2>5. n - 1 \in Bounds
    BY <2>3, <2>4
  <2>6. QED  BY <1>4, <2>5
<1>6. \A x \in S : n >= x
  OBVIOUS
<1>7. Btc!Max(S) \in S /\ \A x \in S : Btc!Max(S) >= x
  <2> HIDE DEF Bounds
  <2>1. QED  BY <1>5, <1>6 DEF Btc!Max
<1>8. QED  BY <1>7

\* What BtcScan calls finite, and the number of elements, is what they are here.
LEMMA BtcCounts ==
    ASSUME NEW S
    PROVE  (Btc!IsFiniteSet(S) <=> IsFiniteSet(S)) /\ Btc!Cardinality(S) = Cardinality(S)
<1>1. Btc!IsFiniteSet(S) <=> IsFiniteSet(S)
  BY DEF Btc!IsFiniteSet, IsFiniteSet
<1>2. Btc!Cardinality(S) = Cardinality(S)
  BY DEF Btc!Cardinality, Cardinality, Btc!IsFiniteSet, IsFiniteSet
<1>3. QED  BY <1>1, <1>2

LEMMA NatHasLeast ==
    ASSUME NEW P, P \subseteq Nat, P # {}
    PROVE  \E n \in P : \A y \in P : ~(y < n)
<1>1. PICK n \in P : \A y \in P : <<y, n>> \notin OpToRel(<, Nat)
  BY NatLessThanWellFounded, WFMin, Zenon
<1>2. \A y \in P : ~(y < n)
  BY <1>1, Zenon DEF OpToRel
<1>3. QED  BY <1>2

\* The listing is in one order.
LEMMA OrderOfListing ==
    ASSUME Btc!Assumptions, BtcTypes
    PROVE  /\ \A t \in Btc!Listed : t \in Bitcoin.transactions /\ t \in Nat /\ block[t] \in Nat
           /\ \A t \in Btc!Listed : ~Btc!Before(t, t)
           /\ \A t, u \in Btc!Listed : t # u => Btc!Before(t, u) \/ Btc!Before(u, t)
           /\ \A t, u, v \in Btc!Listed : Btc!Before(t, u) /\ Btc!Before(u, v) => Btc!Before(t, v)
<1>1. \A t \in Btc!Listed : t \in Bitcoin.transactions /\ t \in Nat /\ block[t] \in Nat
  BY DEF Btc!Assumptions, BtcTypes, Btc!Listed
<1>2. QED  BY <1>1 DEF Btc!Before

\* The transactions of R before t are fewer than those before a later one.
LEMMA FewerBefore ==
    ASSUME Btc!Assumptions, BtcTypes, NEW R, R \subseteq Btc!Listed,
           NEW t \in R, NEW u \in R, Btc!Before(t, u)
    PROVE  /\ Cardinality({v \in R : Btc!Before(v, t)}) \in Nat
           /\ Cardinality({v \in R : Btc!Before(v, u)}) \in Nat
           /\ Cardinality({v \in R : Btc!Before(v, t)}) < Cardinality({v \in R : Btc!Before(v, u)})
<1> PICK T : T = {v \in R : Btc!Before(v, t)}
  OBVIOUS
<1> PICK U : U = {v \in R : Btc!Before(v, u)}
  OBVIOUS
<1>1. IsFiniteSet(R)
  <2>1. R \in SUBSET Bitcoin.transactions /\ IsFiniteSet(Bitcoin.transactions)
    BY BtcCounts DEF Btc!Listed, Btc!Assumptions
  <2>2. QED  BY <2>1, FS_Subset
<1>2. T \in SUBSET U /\ U \in SUBSET R
  BY OrderOfListing
<1>3. t \in U /\ t \notin T
  BY OrderOfListing
<1>4. IsFiniteSet(U) /\ IsFiniteSet(T)
  BY <1>1, <1>2, FS_Subset
<1>5. Cardinality(T) <= Cardinality(U) /\ Cardinality(T) # Cardinality(U)
  BY <1>2, <1>3, <1>4, FS_Subset
<1>6. Cardinality(T) \in Nat /\ Cardinality(U) \in Nat
  BY <1>4, FS_CardinalityType
<1>7. QED  BY <1>5, <1>6

\* Transactions that are listed have a first one and a last one.
LEMMA FirstAndLast ==
    ASSUME Btc!Assumptions, BtcTypes, NEW R, R \subseteq Btc!Listed, R # {}
    PROVE  /\ \E t \in R : Cardinality({u \in R : Btc!Before(u, t)}) = 0
           /\ \E t \in R : \A u \in R \ {t} : Btc!Before(u, t)
<1> DEFINE Rank(t) == Cardinality({u \in R : Btc!Before(u, t)})
<1> DEFINE Ranks == {Rank(t) : t \in R}
<1>0. IsFiniteSet(R)
  <2>1. R \in SUBSET Bitcoin.transactions /\ IsFiniteSet(Bitcoin.transactions)
    BY BtcCounts DEF Btc!Listed, Btc!Assumptions
  <2>2. QED  BY <2>1, FS_Subset
<1>1. \A t \in R : Rank(t) \in Nat /\ Rank(t) <= Cardinality(R)
  <2>1. ASSUME NEW t \in R  PROVE Rank(t) \in Nat /\ Rank(t) <= Cardinality(R)
    <3>1. {u \in R : Btc!Before(u, t)} \in SUBSET R
      OBVIOUS
    <3>2. QED  BY <1>0, <3>1, FS_Subset, FS_CardinalityType
  <2>2. QED  BY <2>1
<1>2. \A t, u \in R : Btc!Before(t, u) => Rank(t) < Rank(u)
  BY FewerBefore
<1>3. \E t \in R : \A u \in R : ~(Rank(u) < Rank(t))
  <2> HIDE DEF Rank
  <2>1. Ranks \subseteq Nat /\ Ranks # {}
    BY <1>1
  <2>2. PICK n \in Ranks : \A y \in Ranks : ~(y < n)
    BY <2>1, NatHasLeast
  <2>3. QED  BY <2>2
<1>4. \E t \in R : \A u \in R : Rank(u) <= Rank(t)
  <2> HIDE DEF Rank
  <2>1. Ranks \subseteq Nat /\ Ranks # {} /\ \A x \in Ranks : x <= Cardinality(R)
    BY <1>1
  <2>2. Cardinality(R) \in Nat
    BY <1>0, FS_CardinalityType
  <2>3. Btc!Max(Ranks) \in Ranks /\ \A x \in Ranks : x <= Btc!Max(Ranks)
    BY <2>1, <2>2, MaxOfBounded
  <2>4. QED  BY <2>3
<1>5. \E t \in R : Rank(t) = 0
  <2>1. PICK t \in R : \A u \in R : ~(Rank(u) < Rank(t))
    BY <1>3
  <2>2. \A u \in R : ~Btc!Before(u, t)
    BY <1>2, <2>1
  <2>3. {u \in R : Btc!Before(u, t)} = {}
    BY <2>2
  <2>4. QED  BY <2>3, FS_EmptySet
<1>6. \E t \in R : \A u \in R \ {t} : Btc!Before(u, t)
  <2>1. PICK t \in R : \A u \in R : Rank(u) <= Rank(t)
    BY <1>4
  <2>2. \A u \in R : ~Btc!Before(t, u)
    <3> HIDE DEF Rank
    <3>1. QED  BY <1>1, <1>2, <2>1
  <2>3. QED  BY <2>2, OrderOfListing
<1>7. QED  BY <1>5, <1>6

\* A page has the first of what is listed after a transaction, and nothing is
\* after it when it is empty.
LEMMA PageIs ==
    ASSUME Btc!Assumptions, BtcTypes, NEW last \in Btc!Listed \cup {None}
    PROVE  /\ Btc!PageAfter(last) \subseteq Btc!Listed
           /\ \A t \in Btc!PageAfter(last) : last = None \/ Btc!Before(last, t)
           /\ Btc!PageAfter(last) = {} => \A t \in Btc!Listed : last # None /\ ~Btc!Before(last, t)
           /\ Btc!PageAfter(last) # {} =>
                /\ Btc!LastOf(Btc!PageAfter(last)) \in Btc!PageAfter(last)
                /\ \A u \in Btc!PageAfter(last) \ {Btc!LastOf(Btc!PageAfter(last))} :
                       Btc!Before(u, Btc!LastOf(Btc!PageAfter(last)))
           /\ \A u \in Btc!PageAfter(last), t \in Btc!Listed :
                (last = None \/ Btc!Before(last, t)) /\ Btc!Before(t, u) => t \in Btc!PageAfter(last)
<1> PICK R : R = {t \in Btc!Listed : last = None \/ Btc!Before(last, t)}
  OBVIOUS
<1> PICK P : P = Btc!PageAfter(last)
  OBVIOUS
<1>1. P = {t \in R : Cardinality({u \in R : Btc!Before(u, t)}) < Bitcoin.pageSize}
  <2>1. P = {t \in R : Btc!Cardinality({u \in R : Btc!Before(u, t)}) < Bitcoin.pageSize}
    BY DEF Btc!PageAfter
  <2>2. \A t \in R : Btc!Cardinality({u \in R : Btc!Before(u, t)})
                     = Cardinality({u \in R : Btc!Before(u, t)})
    BY BtcCounts
  <2>3. QED  BY <2>1, <2>2
<1>2. R \subseteq Btc!Listed /\ P \subseteq R
  BY <1>1
<1>3. ASSUME P = {}  PROVE \A t \in Btc!Listed : last # None /\ ~Btc!Before(last, t)
  <2>1. SUFFICES ASSUME R # {}  PROVE FALSE
    OBVIOUS
  <2>2. PICK t \in R : Cardinality({u \in R : Btc!Before(u, t)}) = 0
    BY <1>2, <2>1, FirstAndLast
  <2>3. t \in P
    BY <1>1, <2>2 DEF Btc!Assumptions
  <2>4. QED  BY <1>3, <2>3
<1>4. ASSUME P # {}
      PROVE  Btc!LastOf(P) \in P /\ \A u \in P \ {Btc!LastOf(P)} : Btc!Before(u, Btc!LastOf(P))
  <2>1. \E t \in P : \A u \in P \ {t} : Btc!Before(u, t)
    BY <1>2, <1>4, FirstAndLast
  <2>2. QED  BY <2>1, Zenon DEF Btc!LastOf
<1>5. ASSUME NEW u \in P, NEW t \in R, Btc!Before(t, u)  PROVE t \in P
  <2>1. /\ Cardinality({v \in R : Btc!Before(v, t)}) \in Nat
        /\ Cardinality({v \in R : Btc!Before(v, u)}) \in Nat
        /\ Cardinality({v \in R : Btc!Before(v, t)}) < Cardinality({v \in R : Btc!Before(v, u)})
    BY <1>2, <1>5, FewerBefore
  <2>2. Cardinality({v \in R : Btc!Before(v, u)}) < Bitcoin.pageSize /\ Bitcoin.pageSize \in Nat
    BY <1>1 DEF Btc!Assumptions
  <2>3. Cardinality({v \in R : Btc!Before(v, t)}) < Bitcoin.pageSize
    BY <2>1, <2>2
  <2>4. QED  BY <1>1, <2>3
<1>6. \A t \in P : last = None \/ Btc!Before(last, t)
  BY <1>2
<1>7. \A u \in P, t \in Btc!Listed : (last = None \/ Btc!Before(last, t)) /\ Btc!Before(t, u) => t \in P
  BY <1>5
<1>8. QED  BY <1>2, <1>3, <1>4, <1>6, <1>7

-----------------------------------------------------------------------------
(* What a scan counts on stays so while others index, insert and write.     *)

Blocks == [Bitcoin.transactions -> (Nat \ {0}) \cup {None}]
Cursors == (Nat \ {0}) \cup {None}
Rows == [Bitcoin.transactions -> 0..1]

Indexed(bl, bl2, h) ==
    \A t \in Bitcoin.transactions : bl2[t] = bl[t] \/ (bl[t] = None /\ bl2[t] = h)
Onward(c, c2, rw, rw2) ==
    /\ c # None => c2 # None /\ c <= c2
    /\ \A t \in Bitcoin.transactions : rw[t] = 1 => rw2[t] = 1

LEMMA ScanStaysOk ==
    ASSUME Btc!Assumptions, NEW m \in BtcScan, NEW h \in Nat, NEW h2 \in Nat, h <= h2,
           NEW bl \in Blocks, NEW bl2 \in Blocks, Indexed(bl, bl2, h),
           \A t \in Bitcoin.transactions : bl[t] # None => bl[t] <= h,
           NEW c \in Cursors, NEW c2 \in Cursors, NEW rw \in Rows, NEW rw2 \in Rows,
           Onward(c, c2, rw, rw2), ScanOk(m, h, bl, c, rw)
    PROVE  ScanOk(m, h2, bl2, c2, rw2)
<1>0. /\ m.found \in SUBSET Bitcoin.transactions /\ m.from \in Nat
      /\ m.last \in Bitcoin.transactions \cup {None} /\ m.newest \in Nat \cup {None}
      /\ None \notin Int /\ \A t \in m.found : bl[t] # None
      /\ Behind(m, bl, c, rw) /\ Paged(m, bl) /\ Written(m, bl, rw, h)
  BY DEF BtcScan, Btc!Assumptions, ScanOk, Behind
<1>1. \A t \in m.found : t \in Bitcoin.transactions /\ bl2[t] = bl[t] /\ bl[t] \in Nat /\ bl[t] <= h
  BY <1>0 DEF Indexed, Blocks
<1>2. Behind(m, bl2, c2, rw2)
  <2>1. m.from # 0 => c2 # None /\ m.from <= c2
    <3>1. SUFFICES ASSUME m.from # 0  PROVE c2 # None /\ m.from <= c2
      OBVIOUS
    <3>2. c # None /\ m.from <= c /\ c2 # None /\ c <= c2
      BY <1>0, <3>1 DEF Behind, Onward
    <3>3. c \in Nat /\ c2 \in Nat
      BY <3>2 DEF Cursors
    <3>4. QED  BY <1>0, <3>2, <3>3
  <2>2. QED  BY <1>0, <1>1, <2>1 DEF Behind
<1>3. Paged(m, bl2)
  <2>1. SUFFICES ASSUME m.pc = "pages"  PROVE Paged(m, bl2)
    BY DEF Paged
  <2>2. CASE m.last = None
    BY <1>0, <2>1, <2>2 DEF Paged
  <2>3. CASE m.last # None
    <3>1. /\ m.last \in Bitcoin.transactions /\ bl[m.last] # None
          /\ bl2[m.last] = bl[m.last] /\ bl[m.last] \in Nat /\ bl[m.last] <= h
      BY <1>0, <2>1, <2>3 DEF Paged, Indexed, Blocks
    <3>2. ASSUME NEW t \in Bitcoin.transactions, bl2[t] # None, bl2[t] >= m.from,
                 t = m.last \/ Earlier(bl2, t, m.last)
          PROVE  t \in m.found \/ (NoneNewer(bl2, m.found, t) /\ bl2[t] >= bl2[m.last])
      <4>1. CASE bl2[t] = bl[t]
        <5>1. t = m.last \/ Earlier(bl, t, m.last)
          BY <3>1, <3>2, <4>1 DEF Earlier
        <5>2. t \in m.found \/ (NoneNewer(bl, m.found, t) /\ bl[t] >= bl[m.last])
          BY <1>0, <2>1, <2>3, <3>2, <4>1, <5>1 DEF Paged
        <5>3. QED  BY <1>1, <3>1, <4>1, <5>2 DEF NoneNewer
      <4>2. CASE bl[t] = None /\ bl2[t] = h
        BY <1>1, <3>1, <4>2 DEF NoneNewer
      <4>3. QED  BY <4>1, <4>2 DEF Indexed
    <3>3. QED  BY <2>3, <3>1, <3>2 DEF Paged
  <2>4. QED  BY <2>2, <2>3
<1>4. Written(m, bl2, rw2, h2)
  <2>1. SUFFICES ASSUME m.pc = "insert", m.newest # None
                 PROVE  /\ m.newest # 0 /\ m.newest <= h2
                        /\ \A t \in Bitcoin.transactions : bl2[t] # None /\ bl2[t] >= m.from =>
                               t \in m.found \/ rw2[t] = 1 \/ bl2[t] >= m.newest
    BY DEF Written
  <2>2. m.newest # 0 /\ m.newest <= h /\ m.newest \in Nat
    BY <1>0, <2>1 DEF Written
  <2>3. ASSUME NEW t \in Bitcoin.transactions, bl2[t] # None, bl2[t] >= m.from
        PROVE  t \in m.found \/ rw2[t] = 1 \/ bl2[t] >= m.newest
    <3>1. CASE bl2[t] = bl[t]
      <4>1. t \in m.found \/ rw[t] = 1 \/ bl[t] >= m.newest
        BY <1>0, <2>1, <2>3, <3>1 DEF Written
      <4>2. QED  BY <3>1, <4>1 DEF Onward
    <3>2. CASE bl[t] = None /\ bl2[t] = h
      BY <2>2, <3>2
    <3>3. QED  BY <3>1, <3>2 DEF Indexed
  <2>4. QED  BY <2>2, <2>3
<1>5. QED  BY <1>2, <1>3, <1>4 DEF ScanOk

\* A step of one scan leaves the others as they are.
LEMMA BtcOneScanMoves ==
    ASSUME Btc!Assumptions, CursorInv, NEW s \in Bitcoin.scanners, NEW m \in BtcScan,
           scanner' = [scanner EXCEPT ![s] = m], UNCHANGED <<head, block>>,
           cursor' \in Cursors, rows' \in Rows, Onward(cursor, cursor', rows, rows'),
           ScanOk(m, head, block, cursor', rows')
    PROVE  scanner' \in [Bitcoin.scanners -> BtcScan] /\ ScansOk'
<1>0. /\ scanner \in [Bitcoin.scanners -> BtcScan] /\ head \in Nat /\ block \in Blocks
      /\ cursor \in Cursors /\ rows \in Rows
      /\ \A t \in Bitcoin.transactions : block[t] # None => block[t] <= head
  BY DEF CursorInv, BtcTypes, Blocks, Cursors, Rows
<1>1. scanner' \in [Bitcoin.scanners -> BtcScan]
  BY <1>0
<1>2. ASSUME NEW r \in Bitcoin.scanners
      PROVE  ScanOk(scanner'[r], head, block, cursor', rows')
  <2>1. CASE r = s
    <3>1. scanner'[r] = m  BY <1>0, <2>1
    <3>2. QED  BY <3>1
  <2>2. CASE r # s
    <3>1. scanner'[r] = scanner[r] /\ scanner[r] \in BtcScan  BY <1>0, <2>2
    <3>2. ScanOk(scanner[r], head, block, cursor, rows)
      BY DEF CursorInv, ScansOk
    <3>3. Indexed(block, block, head) /\ head <= head
      BY <1>0 DEF Indexed
    <3>4. ScanOk(scanner[r], head, block, cursor', rows')
      BY <1>0, <3>1, <3>2, <3>3, ScanStaysOk
    <3>5. QED  BY <3>1, <3>4
  <2>3. QED  BY <2>1, <2>2
<1>3. QED  BY <1>1, <1>2 DEF ScansOk


-----------------------------------------------------------------------------
LEMMA BtcIdleIsOk ==
    ASSUME Btc!Assumptions, NEW h, NEW bl, NEW c, NEW rw
    PROVE  Btc!IdleScan \in BtcScan /\ ScanOk(Btc!IdleScan, h, bl, c, rw)
<1>1. Btc!IdleScan \in BtcScan
  BY DEF Btc!IdleScan, BtcScan
<1>2. /\ Btc!IdleScan.pc = "idle" /\ Btc!IdleScan.from = 0 /\ Btc!IdleScan.found = {}
      /\ Btc!IdleScan.last = None /\ Btc!IdleScan.newest = None
  BY DEF Btc!IdleScan
<1>3. QED  BY <1>1, <1>2 DEF ScanOk, Behind, Paged, Written

LEMMA CursorInit ==
    ASSUME Btc!Assumptions, Btc!Init
    PROVE  CursorInv
<1>1. BtcTypes
  BY BtcIdleIsOk DEF Btc!Init, BtcTypes, Btc!Assumptions
<1>2. ScansOk
  BY BtcIdleIsOk DEF Btc!Init, ScansOk
<1>3. QED  BY <1>1, <1>2 DEF Btc!Init, CursorInv, Btc!NoTransferIsPassed

\* The chain and its indexer: what is added is of the newest block.
LEMMA ChainKeeps ==
    ASSUME Btc!Assumptions, CursorInv, Btc!NewBlock \/ \E t \in Bitcoin.transactions : Btc!Index(t)
    PROVE  CursorInv'
<1>0. /\ scanner \in [Bitcoin.scanners -> BtcScan] /\ head \in Nat \ {0} /\ block \in Blocks
      /\ cursor \in Cursors /\ rows \in Rows /\ None \notin Int /\ Bitcoin.maxBlock \in Nat
      /\ \A t \in Bitcoin.transactions : block[t] # None => block[t] <= head
      /\ cursor # None => cursor <= head
  BY DEF CursorInv, BtcTypes, Blocks, Cursors, Rows, Btc!Assumptions
<1>1. /\ UNCHANGED <<cursor, rows, scanner>>
      /\ head' \in Nat \ {0} /\ head <= head' /\ head' <= Bitcoin.maxBlock
      /\ block' \in Blocks /\ Indexed(block, block', head)
  <2>1. CASE Btc!NewBlock
    BY <1>0, <2>1 DEF Btc!NewBlock, Indexed, CursorInv, BtcTypes
  <2>2. CASE \E t \in Bitcoin.transactions : Btc!Index(t)
    <3>1. PICK t \in Bitcoin.transactions : Btc!Index(t)
      BY <2>2
    <3>2. block' = [block EXCEPT ![t] = head] /\ block[t] = None /\ UNCHANGED <<head, cursor, rows, scanner>>
      BY <3>1 DEF Btc!Index
    <3>3. QED  BY <1>0, <3>2 DEF Indexed, Blocks, CursorInv, BtcTypes
  <2>3. QED  BY <2>1, <2>2
<1>2. \A t \in Bitcoin.transactions : block'[t] # None => block'[t] <= head'
  BY <1>0, <1>1 DEF Indexed, Blocks
<1>3. cursor' # None => cursor' <= head'
  BY <1>0, <1>1 DEF Cursors
<1>4. Btc!NoTransferIsPassed'
  <2>1. ASSUME NEW t \in Bitcoin.transactions, block'[t] # None, cursor # None, block'[t] < cursor
        PROVE  rows[t] = 1
    <3>1. cursor \in Nat /\ cursor <= head
      BY <1>0, <2>1 DEF Cursors
    <3>2. block'[t] = block[t]
      BY <1>0, <1>1, <2>1, <3>1 DEF Indexed
    <3>3. QED  BY <2>1, <3>2 DEF CursorInv, Btc!NoTransferIsPassed
  <2>2. QED  BY <1>1, <2>1 DEF Btc!NoTransferIsPassed
<1>5. ScansOk'
  <2>1. ASSUME NEW s \in Bitcoin.scanners
        PROVE  ScanOk(scanner[s], head', block', cursor, rows)
    <3>1. scanner[s] \in BtcScan /\ ScanOk(scanner[s], head, block, cursor, rows)
      BY <1>0 DEF CursorInv, ScansOk
    <3>2. Onward(cursor, cursor, rows, rows)
      BY <1>0 DEF Onward, Cursors
    <3>3. QED  BY <1>0, <1>1, <3>1, <3>2, ScanStaysOk
  <2>2. QED  BY <1>1, <2>1 DEF ScansOk
<1>6. BtcTypes'
  BY <1>0, <1>1 DEF BtcTypes, Blocks, Cursors, Rows
<1>7. QED  BY <1>2, <1>3, <1>4, <1>5, <1>6 DEF CursorInv

\* A step that moves one scan and leaves the cursor and the rows.
LEMMA BtcOneScanThinks ==
    ASSUME Btc!Assumptions, CursorInv, NEW s \in Bitcoin.scanners, NEW m \in BtcScan,
           scanner' = [scanner EXCEPT ![s] = m], UNCHANGED <<head, block, cursor, rows>>,
           ScanOk(m, head, block, cursor, rows)
    PROVE  CursorInv'
<1>1. cursor \in Cursors /\ rows \in Rows /\ Onward(cursor, cursor', rows, rows')
  BY DEF CursorInv, BtcTypes, Cursors, Rows, Onward
<1>2. scanner' \in [Bitcoin.scanners -> BtcScan] /\ ScansOk'
  BY <1>1, BtcOneScanMoves
<1>3. QED  BY <1>2 DEF CursorInv, BtcTypes, Btc!NoTransferIsPassed

\* A scan starts at the cursor's block or below.
LEMMA BtcBeginKeeps ==
    ASSUME Btc!Assumptions, CursorInv, NEW s \in Bitcoin.scanners, Btc!Begin(s)
    PROVE  CursorInv'
<1> PICK from : from = Btc!FromBlock
  OBVIOUS
<1> PICK m : m = [Btc!IdleScan EXCEPT !.pc = "pages", !.from = from]
  OBVIOUS
<1>1. from \in Nat /\ (from # 0 => cursor # None /\ from <= cursor)
  <2>1. CASE cursor = None
    BY <2>1 DEF Btc!FromBlock
  <2>2. CASE cursor # None
    <3>1. cursor \in Nat /\ Bitcoin.overlap - 1 \in Int
      BY <2>2 DEF CursorInv, BtcTypes, Btc!Assumptions
    <3> PICK back : back = Btc!Max({Bitcoin.overlap - 1, 0})
      OBVIOUS
    <3>2. back \in Int /\ back >= 0
      BY <3>1, BtcMaxOfTwo
    <3>3. cursor - back \in Int /\ cursor - back <= cursor
      BY <3>1, <3>2
    <3> PICK low : low = cursor - back
      OBVIOUS
    <3>4. Btc!Max({low, 0}) \in {low, 0} /\ Btc!Max({low, 0}) >= 0
      BY <3>3, BtcMaxOfTwo
    <3>5. from = Btc!Max({low, 0})
      BY <2>2 DEF Btc!FromBlock
    <3>6. QED  BY <2>2, <3>1, <3>3, <3>4, <3>5
  <2>3. QED  BY <2>1, <2>2
<1>2. Btc!IdleScan \in BtcScan /\ Btc!IdleScan.last = None /\ Btc!IdleScan.found = {} /\ Btc!IdleScan.newest = None
  BY BtcIdleIsOk DEF Btc!IdleScan
<1>3. m \in BtcScan /\ m.pc = "pages" /\ m.from = from /\ m.last = None /\ m.found = {}
  BY <1>1, <1>2 DEF BtcScan
<1>4. ScanOk(m, head, block, cursor, rows)
  BY <1>1, <1>3 DEF ScanOk, Behind, Paged, Written
<1>5. scanner' = [scanner EXCEPT ![s] = m] /\ UNCHANGED <<head, block, cursor, rows>>
  BY DEF Btc!Begin
<1>6. QED  BY <1>3, <1>4, <1>5, BtcOneScanThinks

\* The scan ends, or is refused one page too many.
LEMMA EndKeeps ==
    ASSUME Btc!Assumptions, CursorInv, NEW s \in Bitcoin.scanners,
           scanner' = [scanner EXCEPT ![s] = Btc!IdleScan], UNCHANGED <<head, block, cursor, rows>>
    PROVE  CursorInv'
BY BtcIdleIsOk, BtcOneScanThinks

\* The new value of the cursor is the newest block that was found.
LEMMA NewestIs ==
    ASSUME Btc!Assumptions, CursorInv, NEW found, found \subseteq Btc!Listed, found # {}
    PROVE  /\ Btc!Max({block[t] : t \in found}) \in Nat \ {0}
           /\ Btc!Max({block[t] : t \in found}) <= head
           /\ \E u \in found : block[u] = Btc!Max({block[t] : t \in found})
<1> PICK S : S = {block[t] : t \in found}
  OBVIOUS
<1>1. S \subseteq Nat \ {0} /\ S # {} /\ head \in Nat /\ \A x \in S : x <= head
  BY DEF CursorInv, BtcTypes, Btc!Listed
<1>2. Btc!Max(S) \in S
  BY <1>1, MaxOfBounded
<1>3. QED  BY <1>1, <1>2


\* A page adds what it shows to what the scan found; after the last page, the
\* scan has found all it read or has room for it above its new cursor.
LEMMA ReadPageKeeps ==
    ASSUME Btc!Assumptions, CursorInv, NEW s \in Bitcoin.scanners, Btc!ReadPage(s)
    PROVE  CursorInv'
<1> PICK m : m = scanner[s]
  OBVIOUS
<1> PICK page : page = Btc!PageAfter(m.last)
  OBVIOUS
<1>0. /\ m \in BtcScan /\ m.pc = "pages" /\ BtcTypes /\ block \in Blocks
      /\ Behind(m, block, cursor, rows) /\ Paged(m, block)
      /\ m.found \in SUBSET Bitcoin.transactions /\ m.from \in Nat /\ m.pages \in Nat
  BY DEF CursorInv, BtcTypes, Btc!ReadPage, ScansOk, ScanOk, BtcScan, Blocks
<1>1. /\ m.last \in Btc!Listed \cup {None} /\ m.found \subseteq Btc!Listed
      /\ m.last = None => m.found = {}
  BY <1>0 DEF Paged, Behind, Btc!Listed, BtcScan
<1>2. /\ page \subseteq Btc!Listed
      /\ \A t \in page : m.last = None \/ Btc!Before(m.last, t)
      /\ page = {} => \A t \in Btc!Listed : m.last # None /\ ~Btc!Before(m.last, t)
      /\ page # {} => Btc!LastOf(page) \in page
      /\ \A u \in page, t \in Btc!Listed :
             (m.last = None \/ Btc!Before(m.last, t)) /\ Btc!Before(t, u) => t \in page
  BY <1>0, <1>1, PageIs
<1>3. \A t \in Btc!Listed : t \in Bitcoin.transactions /\ block[t] # None /\ block[t] \in Nat
  BY <1>0, OrderOfListing DEF Btc!Listed
<1>4. UNCHANGED <<head, block, cursor, rows>>
  BY DEF Btc!ReadPage
<1>5. \A t \in Btc!Listed : m.last # None /\ ~Btc!Before(m.last, t) => t = m.last \/ Earlier(block, t, m.last)
  BY <1>0, <1>1, OrderOfListing DEF Btc!Before, Earlier
<1>6. CASE page = {}
  <2> PICK newest : newest = IF m.found = {} THEN None ELSE Btc!Max({block[t] : t \in m.found})
    OBVIOUS
  <2> PICK m2 : m2 = [m EXCEPT !.pc = "insert", !.newest = newest]
    OBVIOUS
  <2>1. /\ newest \in Nat \cup {None}
        /\ newest # None => /\ m.found # {} /\ newest # 0 /\ newest <= head
                            /\ \E t \in m.found : block[t] = newest
    BY <1>1, NewestIs
  <2>2. /\ m2 \in BtcScan /\ m2.pc = "insert" /\ m2.newest = newest
        /\ m2.found = m.found /\ m2.from = m.from
    BY <1>0, <2>1 DEF BtcScan
  <2>3. scanner' = [scanner EXCEPT ![s] = m2]
    BY <1>6 DEF Btc!ReadPage
  <2>4. ASSUME newest # None, NEW t \in Bitcoin.transactions, block[t] # None, block[t] >= m.from
        PROVE  t \in m.found \/ block[t] >= newest
    <3>1. t \in Btc!Listed
      BY <2>4 DEF Btc!Listed
    <3>2. m.last # None /\ (t = m.last \/ Earlier(block, t, m.last))
      BY <1>2, <1>5, <1>6, <3>1
    <3>3. t \in m.found \/ NoneNewer(block, m.found, t)
      BY <1>0, <2>4, <3>2 DEF Paged
    <3>4. QED  BY <2>1, <2>4, <3>3 DEF NoneNewer
  <2>5. Written(m2, block, rows, head)
    BY <2>1, <2>2, <2>4 DEF Written
  <2>6. Behind(m2, block, cursor, rows) /\ Paged(m2, block)
    BY <1>0, <2>2 DEF Behind, Paged
  <2>7. QED  BY <1>4, <2>2, <2>3, <2>5, <2>6, BtcOneScanThinks DEF ScanOk
<1>7. CASE page # {} /\ m.pages >= Bitcoin.maxPages
  <2>1. scanner' = [scanner EXCEPT ![s] = Btc!IdleScan]
    BY <1>7 DEF Btc!ReadPage
  <2>2. QED  BY <1>4, <2>1, EndKeeps
<1>8. CASE page # {} /\ ~(m.pages >= Bitcoin.maxPages)
  <2> PICK new : new = {t \in page : block[t] >= m.from}
    OBVIOUS
  <2> PICK last : last = Btc!LastOf(page)
    OBVIOUS
  <2> PICK m2 : m2 = [m EXCEPT !.pages = @ + 1, !.last = last, !.found = @ \cup new]
    OBVIOUS
  <2>1. last \in page /\ last \in Btc!Listed /\ last # None
    BY <1>2, <1>8, OrderOfListing DEF Btc!Assumptions, Btc!Listed
  <2>2. new \subseteq page /\ new \subseteq Btc!Listed
    BY <1>2
  <2>3. /\ m2 \in BtcScan /\ m2.pc = "pages" /\ m2.last = last
        /\ m2.found = m.found \cup new /\ m2.from = m.from
    <3>1. m.pages + 1 \in Nat /\ last \in Bitcoin.transactions /\ last \in Bitcoin.transactions \cup {None}
      BY <1>0, <1>3, <2>1 DEF Btc!Listed, BtcScan
    <3>2. m.found \cup new \in SUBSET Bitcoin.transactions
      BY <1>0, <1>3, <2>2 DEF Btc!Listed, BtcScan
    <3>3. m2 = [m EXCEPT !.pages = m.pages + 1, !.last = last, !.found = m.found \cup new]
      OBVIOUS
    <3>4. m \in BtcScan /\ m.pc = "pages"
      BY <1>0, <1>3
    <3>5. QED  BY <3>1, <3>2, <3>3, <3>4 DEF BtcScan
  <2>4. scanner' = [scanner EXCEPT ![s] = m2]
    BY <1>8 DEF Btc!ReadPage
  <2>5. ASSUME NEW t \in Bitcoin.transactions, block[t] # None, block[t] >= m.from,
               t = last \/ Earlier(block, t, last), t \notin page
        PROVE  t \in m.found \/ (NoneNewer(block, m.found \cup new, t) /\ block[t] >= block[last])
    <3>1. t \in Btc!Listed /\ Btc!Before(t, last)
      BY <2>1, <2>5 DEF Btc!Listed, Btc!Before, Earlier
    <3>2. m.last # None /\ ~Btc!Before(m.last, t)
      BY <1>2, <2>1, <2>5, <3>1
    <3>3. t = m.last \/ Earlier(block, t, m.last)
      BY <1>5, <3>1, <3>2
    <3>4. t \in m.found \/ (NoneNewer(block, m.found, t) /\ block[t] >= block[m.last])
      BY <1>0, <2>5, <3>2, <3>3 DEF Paged
    <3>5. \A u \in page : block[u] <= block[m.last] /\ block[u] \in Nat
      BY <1>1, <1>2, <1>3, <3>2 DEF Btc!Before
    <3>6. ASSUME block[t] >= block[m.last]
          PROVE  \A u \in page : block[u] <= block[t]
      <4>1. block[t] \in Nat /\ block[m.last] \in Nat
        BY <1>1, <1>3, <3>1, <3>2
      <4>2. QED  BY <3>5, <3>6, <4>1
    <3>7. QED  BY <1>3, <2>1, <2>2, <3>1, <3>4, <3>6 DEF NoneNewer
  <2>6. ASSUME NEW t \in Bitcoin.transactions, block[t] # None, block[t] >= m.from,
               t = last \/ Earlier(block, t, last)
        PROVE  t \in m.found \cup new
               \/ (NoneNewer(block, m.found \cup new, t) /\ block[t] >= block[last])
    BY <2>5, <2>6
  <2>7. Paged(m2, block)
    BY <1>3, <2>1, <2>3, <2>6 DEF Paged
  <2>8. Behind(m2, block, cursor, rows) /\ Written(m2, block, rows, head)
    BY <1>0, <1>1, <1>3, <2>2, <2>3 DEF Behind, Written
  <2>9. QED  BY <1>4, <2>3, <2>4, <2>7, <2>8, BtcOneScanThinks DEF ScanOk
<1>9. QED  BY <1>6, <1>7, <1>8

LEMMA InsertKeeps ==
    ASSUME Btc!Assumptions, CursorInv, NEW s \in Bitcoin.scanners, Btc!InsertTransfer(s)
    PROVE  CursorInv'
<1> PICK m : m = scanner[s]
  OBVIOUS
<1>0. /\ m \in BtcScan /\ m.pc = "insert" /\ m.found \in SUBSET Bitcoin.transactions
      /\ ScanOk(m, head, block, cursor, rows) /\ rows \in Rows /\ cursor \in Cursors
  BY DEF CursorInv, BtcTypes, Btc!InsertTransfer, ScansOk, BtcScan, Rows, Cursors
<1>1. PICK t \in m.found : /\ rows' = Btc!InsertedOnce(t)
                           /\ scanner' = [scanner EXCEPT ![s].found = @ \ {t}]
  BY DEF Btc!InsertTransfer
<1> PICK m2 : m2 = [m EXCEPT !.found = @ \ {t}]
  OBVIOUS
<1>2. scanner' = [scanner EXCEPT ![s] = m2] /\ UNCHANGED <<head, block, cursor>>
  BY <1>1 DEF Btc!InsertTransfer
<1>3. /\ m2 \in BtcScan /\ m2.pc = "insert" /\ m2.found = m.found \ {t} /\ m2.from = m.from
      /\ m2.newest = m.newest
  BY <1>0 DEF BtcScan
<1>4. /\ t \in Bitcoin.transactions /\ rows' \in Rows /\ rows'[t] = 1
      /\ \A u \in Bitcoin.transactions : rows[u] = 1 => rows'[u] = 1
  BY <1>0, <1>1 DEF Btc!InsertedOnce, Rows
<1>5. Onward(cursor, cursor', rows, rows')
  BY <1>0, <1>2, <1>4 DEF Onward, Cursors
<1>6. ScanOk(m2, head, block, cursor', rows')
  <2>1. Behind(m2, block, cursor', rows') /\ Paged(m2, block)
    BY <1>0, <1>2, <1>3 DEF ScanOk, Behind, Paged
  <2>2. Written(m2, block, rows', head)
    BY <1>0, <1>3, <1>4 DEF ScanOk, Written
  <2>3. QED  BY <2>1, <2>2 DEF ScanOk
<1>7. scanner' \in [Bitcoin.scanners -> BtcScan] /\ ScansOk'
  BY <1>0, <1>2, <1>3, <1>4, <1>5, <1>6, BtcOneScanMoves
<1>8. Btc!NoTransferIsPassed'
  BY <1>2, <1>4 DEF CursorInv, Btc!NoTransferIsPassed
<1>9. QED  BY <1>2, <1>4, <1>7, <1>8 DEF CursorInv, BtcTypes, Rows

\* The cursor passes what the scan inserted and nothing else.
LEMMA UpsertKeeps ==
    ASSUME Btc!Assumptions, CursorInv, NEW s \in Bitcoin.scanners, Btc!UpsertCursor(s)
    PROVE  CursorInv'
<1> PICK m : m = scanner[s]
  OBVIOUS
<1>0. /\ m \in BtcScan /\ m.pc = "insert" /\ m.found = {} /\ m.newest \in Nat \cup {None}
      /\ m.from \in Nat /\ block \in Blocks
      /\ Behind(m, block, cursor, rows) /\ Written(m, block, rows, head)
      /\ rows \in Rows /\ cursor \in Cursors /\ head \in Nat /\ None \notin Int
      /\ cursor # None => cursor <= head
  BY DEF CursorInv, BtcTypes, Btc!UpsertCursor, ScansOk, ScanOk, BtcScan, Rows, Cursors, Blocks, Btc!Assumptions
<1>1. /\ cursor' = IF m.newest = None THEN cursor
                   ELSE IF cursor = None THEN m.newest ELSE Btc!Max({cursor, m.newest})
      /\ scanner' = [scanner EXCEPT ![s] = Btc!IdleScan] /\ UNCHANGED <<head, block, rows>>
  BY DEF Btc!UpsertCursor
<1>2. m.newest # None => m.newest # 0 /\ m.newest <= head
  BY <1>0 DEF Written
<1>3. /\ cursor' = cursor \/ (m.newest # None /\ cursor' = m.newest)
      /\ cursor # None => cursor' # None /\ cursor <= cursor'
  <2>1. CASE m.newest = None
    BY <1>0, <1>1, <2>1 DEF Cursors
  <2>2. CASE m.newest # None /\ cursor = None
    BY <1>1, <2>2
  <2>3. CASE m.newest # None /\ cursor # None
    <3>1. cursor \in Int /\ m.newest \in Int /\ cursor' = Btc!Max({cursor, m.newest})
      BY <1>0, <1>1, <2>3 DEF Cursors
    <3> PICK n : n = m.newest
      OBVIOUS
    <3>2. cursor' \in {cursor, n} /\ cursor' >= cursor
      BY <3>1, BtcMaxOfTwo
    <3>3. QED  BY <1>0, <2>3, <3>1, <3>2
  <2>4. QED  BY <2>1, <2>2, <2>3
<1>4. cursor' \in Cursors /\ (cursor' # None => cursor' <= head)
  BY <1>0, <1>2, <1>3 DEF Cursors
<1>5. Onward(cursor, cursor', rows, rows')
  BY <1>1, <1>3 DEF Onward
<1>6. scanner' \in [Bitcoin.scanners -> BtcScan] /\ ScansOk'
  BY <1>0, <1>1, <1>4, <1>5, BtcIdleIsOk, BtcOneScanMoves
<1>7. ASSUME NEW t \in Bitcoin.transactions, block[t] # None, cursor' # None, block[t] < cursor'
      PROVE  rows[t] = 1
  <2>1. block[t] \in Nat
    BY <1>0, <1>7 DEF Blocks
  <2>2. CASE cursor' = cursor
    BY <1>7, <2>2 DEF CursorInv, Btc!NoTransferIsPassed
  <2>3. CASE m.newest # None /\ cursor' = m.newest
    <3>1. CASE block[t] >= m.from
      BY <1>0, <1>7, <2>1, <2>3, <3>1 DEF Written
    <3>2. CASE block[t] < m.from
      <4>1. m.from # 0 /\ cursor # None /\ m.from <= cursor
        BY <1>0, <2>1, <3>2 DEF Behind
      <4>2. cursor \in Nat
        BY <1>0, <4>1 DEF Cursors
      <4>3. block[t] < cursor
        BY <1>0, <2>1, <3>2, <4>1, <4>2
      <4>4. QED  BY <1>7, <4>1, <4>3 DEF CursorInv, Btc!NoTransferIsPassed
    <3>3. QED  BY <1>0, <2>1, <3>1, <3>2
  <2>4. QED  BY <1>3, <2>2, <2>3
<1>8. Btc!NoTransferIsPassed'
  BY <1>1, <1>7 DEF Btc!NoTransferIsPassed
<1>9. QED  BY <1>1, <1>4, <1>6, <1>8 DEF CursorInv, BtcTypes, Cursors

LEMMA CursorStep ==
    ASSUME Btc!Assumptions, CursorInv, [Btc!Next]_(Btc!vars)
    PROVE  CursorInv'
<1>1. CASE Btc!NewBlock \/ \E t \in Bitcoin.transactions : Btc!Index(t)
  BY <1>1, ChainKeeps
<1>2. ASSUME NEW s \in Bitcoin.scanners, Btc!ScanStep(s) \/ Btc!ScanEnds(s)
      PROVE  CursorInv'
  <2>1. CASE Btc!ScanEnds(s)
    BY <2>1, EndKeeps DEF Btc!ScanEnds
  <2>2. CASE Btc!ScanStep(s)
    BY <2>2, BtcBeginKeeps, ReadPageKeeps, InsertKeeps, UpsertKeeps DEF Btc!ScanStep
  <2>3. QED  BY <1>2, <2>1, <2>2
<1>3. CASE UNCHANGED Btc!vars
  BY <1>3 DEF Btc!vars, CursorInv, BtcTypes, Btc!NoTransferIsPassed, ScansOk
<1>4. QED  BY <1>1, <1>2, <1>3 DEF Btc!Next

LEMMA CursorInvTells ==
    ASSUME Btc!Assumptions, CursorInv
    PROVE  Btc!TypeOK /\ Btc!NoTransferIsPassed
<1>1. /\ head \in Nat \ {0} /\ head <= Bitcoin.maxBlock /\ Bitcoin.maxBlock \in Nat
      /\ block \in Blocks /\ cursor \in Cursors /\ cursor # None => cursor <= head
  BY DEF CursorInv, BtcTypes, Btc!Assumptions, Blocks, Cursors
<1>2. \A t \in Bitcoin.transactions : block[t] \in (1..Bitcoin.maxBlock) \cup {None}
  <2>1. SUFFICES ASSUME NEW t \in Bitcoin.transactions, block[t] # None
                 PROVE  block[t] \in 1..Bitcoin.maxBlock
    OBVIOUS
  <2>2. block[t] \in Nat \ {0} /\ block[t] <= head
    BY <1>1, <2>1 DEF CursorInv, BtcTypes
  <2>3. QED  BY <1>1, <2>2
<1>3. cursor \in (1..Bitcoin.maxBlock) \cup {None}
  <2>1. SUFFICES ASSUME cursor # None  PROVE cursor \in 1..Bitcoin.maxBlock
    OBVIOUS
  <2>2. cursor \in Nat \ {0} /\ cursor <= head
    BY <1>1, <2>1 DEF CursorInv, BtcTypes
  <2>3. QED  BY <1>1, <2>2
<1>4. QED  BY <1>1, <1>2, <1>3 DEF CursorInv, BtcTypes, Btc!TypeOK

-----------------------------------------------------------------------------
(* The pool of providers.                                                  *)

Health == [failures : 0..Providers.threshold, disabled : 0..Providers.cooldown]
Counter == [count : 0..Providers.limit + 1, ttl : 0..Providers.keyTTL]
PoolScan == [pc : {"idle", "acquire", "request"}, age : Pool!Ages,
         candidates : SUBSET Providers.all, result : {"none", "ok", "failed"}]

PoolTypes ==
    /\ active \in SUBSET Providers.all
    /\ health \in [Providers.all -> Health]
    /\ key \in [Providers.all -> [Pool!Ages -> Counter]]
    /\ scanner \in [Providers.scanners -> PoolScan]
    /\ streak \in [Providers.all -> 0..Providers.threshold]
    /\ admitted \in [Providers.all -> [Pool!Ages -> Nat]]

\* A scan that is at work has a candidate.
HasCandidate == \A s \in Providers.scanners : Pool!Busy(s) => scanner[s].candidates # {}

\* provider_health counts the failures in a row of all workers, as far as the
\* threshold, and a circuit is open only where the count is there.
Counts(h, n) == h.failures = n /\ (h.disabled > 0 => n >= Providers.threshold)
CircuitInv == \A p \in Providers.all : Counts(health[p], streak[p])

\* The counter of a second in time, of age a, counts what was admitted, and lives
\* until the second is too old for it.
Accounts(k, n, a) ==
    a < Providers.keyTTL => n <= k.count /\ (k.count > 0 => k.ttl >= Providers.keyTTL - a)
RateInv ==
    \A p \in Providers.all, a \in Pool!Ages :
        admitted[p][a] <= Providers.limit /\ Accounts(key[p][a], admitted[p][a], a)

PoolInv == PoolTypes /\ HasCandidate /\ CircuitInv /\ RateInv

-----------------------------------------------------------------------------
(* The operators of the model.                                             *)

LEMMA PoolMaxOfTwo ==
    ASSUME NEW a \in Int, NEW b \in Int
    PROVE  /\ Pool!Max({a, b}) \in {a, b}
           /\ Pool!Max({a, b}) >= a /\ Pool!Max({a, b}) >= b
<1>1. \E x \in {a, b} : \A y \in {a, b} : x >= y
  <2>1. CASE a >= b  BY <2>1
  <2>2. CASE b >= a  BY <2>2
  <2>3. QED  BY <2>1, <2>2
<1>2. QED  BY <1>1 DEF Pool!Max

LEMMA MinOfTwo ==
    ASSUME NEW a \in Int, NEW b \in Int
    PROVE  /\ Pool!Min({a, b}) \in {a, b}
           /\ Pool!Min({a, b}) <= a /\ Pool!Min({a, b}) <= b
<1>1. \E x \in {a, b} : \A y \in {a, b} : x =< y
  <2>1. CASE a >= b  BY <2>1
  <2>2. CASE b >= a  BY <2>2
  <2>3. QED  BY <2>1, <2>2
<1>2. QED  BY <1>1 DEF Pool!Min

\* The first of the candidates is one of them.
LEMMA LeastNatural ==
    ASSUME NEW S, S \subseteq Nat, S # {}
    PROVE  Pool!Min(S) \in S
<1>1. \E x \in S : \A y \in S : <<y, x>> \notin OpToRel(<, Nat)
  BY NatLessThanWellFounded, WFMin, Zenon
<1>2. PICK x \in S : \A y \in S : <<y, x>> \notin OpToRel(<, Nat)
  BY <1>1, Zenon
<1>3. \A y \in S : ~(y < x)
  BY <1>2, Zenon DEF OpToRel
<1>4. \A y \in S : x =< y
  BY <1>3
<1>5. QED  BY <1>4 DEF Pool!Min

LEMMA Parameters ==
    ASSUME Pool!Assumptions
    PROVE  /\ Providers.limit \in Nat /\ Providers.limit > 0 /\ Providers.threshold \in Nat /\ Providers.threshold > 0
           /\ Providers.cooldown \in Nat /\ Providers.cooldown > 0 /\ Providers.keyTTL \in Nat /\ Providers.keyTTL > 0
           /\ Providers.maxAge \in Nat
BY DEF Pool!Assumptions

LEMMA CandidateIsProvider ==
    ASSUME Pool!Assumptions, PoolInv, NEW s \in Providers.scanners, Pool!Busy(s)
    PROVE  Pool!Candidate(s) \in Providers.all
<1>1. scanner[s].candidates # {} /\ scanner[s].candidates \subseteq Providers.all
  BY DEF PoolInv, PoolTypes, HasCandidate, PoolScan
<1>2. Providers.all \subseteq Nat
  BY DEF Pool!Assumptions
<1>3. QED  BY <1>1, <1>2, LeastNatural DEF Pool!Candidate

\* Failover: the scan ends, or goes on with another candidate.
LEMMA FailoverIsOk ==
    ASSUME Pool!Assumptions, PoolInv, NEW s \in Providers.scanners, Pool!Busy(s)
    PROVE  /\ Pool!NextCandidate(s) \in PoolScan
           /\ Pool!NextCandidate(s).pc # "idle" => Pool!NextCandidate(s).candidates # {}
<1>1. scanner[s] \in PoolScan /\ scanner[s].candidates # {}
  BY DEF PoolInv, PoolTypes, HasCandidate
<1>2. 0 \in Pool!Ages
  BY Parameters DEF Pool!Ages
<1>3. CASE scanner[s].candidates = {Pool!Candidate(s)}
  <2>1. Pool!NextCandidate(s) = [Pool!IdleScan EXCEPT !.result = "failed"]
    BY <1>3 DEF Pool!NextCandidate
  <2>2. QED  BY <1>2, <2>1 DEF Pool!IdleScan, PoolScan
<1>4. CASE scanner[s].candidates # {Pool!Candidate(s)}
  <2>1. Pool!NextCandidate(s) = [scanner[s] EXCEPT !.pc = "acquire",
                                !.candidates = scanner[s].candidates \ {Pool!Candidate(s)}]
    BY <1>4 DEF Pool!NextCandidate
  <2>2. scanner[s].candidates \ {Pool!Candidate(s)} # {}
    BY <1>1, <1>4
  <2>3. scanner[s].candidates \ {Pool!Candidate(s)} \in SUBSET Providers.all
    BY <1>1 DEF PoolScan
  <2>4. QED  BY <1>1, <2>1, <2>2, <2>3 DEF PoolScan
<1>5. QED  BY <1>3, <1>4

LEMMA PoolIdleIsOk ==
    ASSUME Pool!Assumptions, NEW result \in {"none", "ok", "failed"}
    PROVE  [Pool!IdleScan EXCEPT !.result = result] \in PoolScan
           /\ [Pool!IdleScan EXCEPT !.result = result].pc = "idle"
<1>1. 0 \in Pool!Ages
  BY Parameters DEF Pool!Ages
<1>2. QED  BY <1>1 DEF Pool!IdleScan, PoolScan

\* A step of one scan leaves the others as they are.
LEMMA PoolOneScanMoves ==
    ASSUME PoolInv, NEW s \in Providers.scanners, NEW m \in PoolScan, m.pc # "idle" => m.candidates # {},
           scanner' = [scanner EXCEPT ![s] = m]
    PROVE  scanner' \in [Providers.scanners -> PoolScan] /\ HasCandidate'
<1>1. scanner' \in [Providers.scanners -> PoolScan]
  BY DEF PoolInv, PoolTypes
<1>2. ASSUME NEW r \in Providers.scanners, scanner'[r].pc # "idle"
      PROVE  scanner'[r].candidates # {}
  <2>1. CASE r = s
    <3>1. scanner'[r] = m  BY <2>1 DEF PoolInv, PoolTypes
    <3>2. QED  BY <1>2, <3>1
  <2>2. CASE r # s
    <3>1. scanner'[r] = scanner[r]  BY <2>2 DEF PoolInv, PoolTypes
    <3>2. QED  BY <1>2, <3>1 DEF PoolInv, HasCandidate, Pool!Busy
  <2>3. QED  BY <2>1, <2>2
<1>3. QED  BY <1>1, <1>2 DEF HasCandidate, Pool!Busy

\* A failure is counted once, and opens the circuit at the threshold.
LEMMA FailureCounts ==
    ASSUME Pool!Assumptions, NEW h \in Health, NEW n \in 0..Providers.threshold, NEW age \in Pool!Ages, Counts(h, n)
    PROVE  /\ Pool!FailureRecorded(h, age) \in Health
           /\ Pool!Min({n + 1, Providers.threshold}) \in 0..Providers.threshold
           /\ Counts(Pool!FailureRecorded(h, age), Pool!Min({n + 1, Providers.threshold}))
<1>0. /\ h.failures \in 0..Providers.threshold /\ h.disabled \in 0..Providers.cooldown /\ h.failures = n
      /\ age \in Nat
  BY DEF Health, Counts, Pool!Ages
<1> PICK more : more = Pool!Min({n + 1, Providers.threshold})
  OBVIOUS
<1> PICK left : left = Pool!Max({Providers.cooldown - age, 0})
  OBVIOUS
<1> PICK disabled : disabled = IF n + 1 >= Providers.threshold THEN left ELSE h.disabled
  OBVIOUS
<1>1. /\ more \in Int /\ more <= Providers.threshold /\ more >= 0 /\ (more = n + 1 \/ more = Providers.threshold)
      /\ more <= n + 1
  <2>1. n + 1 \in Int /\ Providers.threshold \in Int /\ n \in Nat
    BY Parameters
  <2>2. more \in {n + 1, Providers.threshold} /\ more <= n + 1 /\ more <= Providers.threshold
    BY <2>1, MinOfTwo
  <2>3. QED  BY <2>1, <2>2, Parameters
<1>2. left \in 0..Providers.cooldown
  <2>1. Providers.cooldown - age \in Int /\ 0 \in Int
    BY <1>0, Parameters
  <2>2. left \in {Providers.cooldown - age, 0} /\ left >= 0
    BY <2>1, PoolMaxOfTwo
  <2>3. QED  BY <1>0, <2>1, <2>2, Parameters
<1>3. Pool!FailureRecorded(h, age) = [failures |-> more, disabled |-> disabled]
  BY <1>0 DEF Pool!FailureRecorded
<1>4. disabled \in 0..Providers.cooldown
  BY <1>0, <1>2
<1>5. more \in 0..Providers.threshold
  BY <1>1, Parameters
<1>6. disabled > 0 => more >= Providers.threshold
  BY <1>0, <1>1, Parameters DEF Counts
<1>7. QED  BY <1>3, <1>4, <1>5, <1>6 DEF Health, Counts

\* INCR and EXPIRE.
LEMMA IncrementCounts ==
    ASSUME Pool!Assumptions, NEW k \in Counter
    PROVE  /\ Pool!Incremented(k) \in Counter
           /\ Pool!Incremented(k).count >= k.count
           /\ Pool!Incremented(k).ttl = Providers.keyTTL
           /\ Pool!Permits(k) => Pool!Incremented(k).count = k.count + 1 /\ k.count + 1 <= Providers.limit
<1>0. k.count \in 0..Providers.limit + 1
  BY DEF Counter
<1> PICK more : more = Pool!Min({k.count + 1, Providers.limit + 1})
  OBVIOUS
<1>1. /\ more \in {k.count + 1, Providers.limit + 1} /\ more <= k.count + 1 /\ more <= Providers.limit + 1
  <2>1. k.count + 1 \in Int /\ Providers.limit + 1 \in Int
    BY <1>0, Parameters
  <2>2. QED  BY <2>1, MinOfTwo
<1>2. more \in 0..Providers.limit + 1 /\ more >= k.count
  BY <1>0, <1>1, Parameters
<1>3. Pool!Incremented(k) = [count |-> more, ttl |-> Providers.keyTTL]
  BY DEF Pool!Incremented
<1>4. Providers.keyTTL \in 0..Providers.keyTTL
  BY Parameters
<1>5. more <= Providers.limit => more = k.count + 1
  BY <1>0, <1>1, Parameters
<1>6. QED  BY <1>1, <1>2, <1>3, <1>4, <1>5 DEF Counter, Pool!Permits

\* A second later a counter still accounts for what was admitted in its second.
LEMMA AgedCounts ==
    ASSUME Pool!Assumptions, NEW k \in Counter, NEW n \in Nat, NEW a \in Pool!Ages, a # 0,
           Accounts(k, n, a - 1)
    PROVE  Pool!Aged(k) \in Counter /\ Accounts(Pool!Aged(k), n, a)
<1>0. k.count \in 0..Providers.limit + 1 /\ k.ttl \in 0..Providers.keyTTL /\ a \in Nat
  BY DEF Counter, Pool!Ages
<1>1. CASE k.ttl <= 1
  <2>1. Pool!Aged(k) = Pool!NoKey
    BY <1>1 DEF Pool!Aged
  <2>2. Pool!NoKey \in Counter
    BY Parameters DEF Pool!NoKey, Counter
  <2>3. a < Providers.keyTTL => k.count = 0
    BY <1>0, <1>1, Parameters DEF Accounts
  <2>4. a < Providers.keyTTL => n <= 0
    BY <1>0, <2>3, Parameters DEF Accounts
  <2>5. Pool!NoKey.count = 0
    BY DEF Pool!NoKey
  <2>6. QED  BY <2>1, <2>2, <2>4, <2>5 DEF Accounts
<1>2. CASE ~(k.ttl <= 1)
  <2>1. Pool!Aged(k) = [k EXCEPT !.ttl = k.ttl - 1]
    BY <1>2 DEF Pool!Aged
  <2>2. Pool!Aged(k) \in Counter /\ Pool!Aged(k).count = k.count /\ Pool!Aged(k).ttl = k.ttl - 1
    BY <1>0, <1>2, <2>1, Parameters DEF Counter
  <2>3. QED  BY <1>0, <2>2, Parameters DEF Accounts
<1>3. QED  BY <1>1, <1>2

-----------------------------------------------------------------------------
LEMMA PoolInit ==
    ASSUME Pool!Assumptions, Pool!Init
    PROVE  PoolInv
<1>1. /\ 0 \in 0..Providers.threshold /\ 0 \in 0..Providers.cooldown /\ 0 \in 0..Providers.limit + 1 /\ 0 \in 0..Providers.keyTTL
      /\ 0 <= Providers.limit /\ 0 \in Nat
  BY Parameters
<1>2. Pool!NoKey \in Counter /\ Pool!NoKey.count = 0
  BY <1>1 DEF Pool!NoKey, Counter
<1>3. Pool!IdleScan \in PoolScan /\ Pool!IdleScan.pc = "idle"
  <2>1. 0 \in Pool!Ages  BY Parameters DEF Pool!Ages
  <2>2. QED  BY <2>1 DEF Pool!IdleScan, PoolScan
<1>4. PoolTypes
  <2>1. [failures |-> 0, disabled |-> 0] \in Health
    BY <1>1 DEF Health
  <2>2. QED  BY <1>1, <1>2, <1>3, <2>1 DEF Pool!Init, PoolTypes
<1>5. HasCandidate /\ CircuitInv
  BY <1>3 DEF Pool!Init, HasCandidate, Pool!Busy, CircuitInv, Counts
<1>6. RateInv
  BY <1>1, <1>2 DEF Pool!Init, RateInv, Accounts
<1>7. QED  BY <1>4, <1>5, <1>6 DEF PoolInv

\* A second goes by.
LEMMA TickKeeps ==
    ASSUME Pool!Assumptions, PoolInv, Pool!Tick
    PROVE  PoolInv'
<1>1. health' \in [Providers.all -> Health] /\ CircuitInv'
  <2>1. ASSUME NEW p \in Providers.all
        PROVE  /\ health'[p] \in Health /\ Counts(health'[p], streak'[p])
    <3> PICK left : left = Pool!Max({health[p].disabled - 1, 0})
      OBVIOUS
    <3>1. /\ health[p] \in Health /\ health[p].disabled \in 0..Providers.cooldown
          /\ Counts(health[p], streak[p])
      BY DEF PoolInv, PoolTypes, Health, CircuitInv
    <3>2. left \in 0..Providers.cooldown /\ (left > 0 => health[p].disabled > 0)
      <4>1. health[p].disabled - 1 \in Int /\ 0 \in Int
        BY <3>1
      <4>2. left \in {health[p].disabled - 1, 0} /\ left >= 0
        BY <4>1, PoolMaxOfTwo
      <4>3. QED  BY <3>1, <4>2, Parameters
    <3>3. health'[p] = [health[p] EXCEPT !.disabled = left]
      BY DEF Pool!Tick
    <3>4. streak'[p] = streak[p]
      BY DEF Pool!Tick
    <3>5. health'[p] \in Health /\ health'[p].failures = health[p].failures /\ health'[p].disabled = left
      BY <3>1, <3>2, <3>3 DEF Health
    <3>6. Counts(health'[p], streak[p])
      BY <3>1, <3>2, <3>5 DEF Counts
    <3>7. QED  BY <3>4, <3>5, <3>6
  <2>2. health' = [p \in Providers.all |-> health'[p]]
    BY DEF Pool!Tick
  <2>3. health' \in [Providers.all -> Health]
    BY <2>1, <2>2
  <2>4. QED  BY <2>1, <2>3 DEF CircuitInv
<1>2. /\ key' \in [Providers.all -> [Pool!Ages -> Counter]]
      /\ admitted' \in [Providers.all -> [Pool!Ages -> Nat]] /\ RateInv'
  <2>1. ASSUME NEW p \in Providers.all, NEW a \in Pool!Ages
        PROVE  /\ key'[p][a] \in Counter /\ admitted'[p][a] \in Nat
               /\ admitted'[p][a] <= Providers.limit /\ Accounts(key'[p][a], admitted'[p][a], a)
    <3>1. CASE a = 0 \/ ~Pool!InUse(a)
      <4>1. key'[p][a] = Pool!NoKey /\ admitted'[p][a] = 0
        BY <3>1 DEF Pool!Tick, Pool!Shifted
      <4>2. Pool!NoKey \in Counter /\ Pool!NoKey.count = 0 /\ 0 <= Providers.limit
        BY Parameters DEF Pool!NoKey, Counter
      <4>3. QED  BY <4>1, <4>2 DEF Accounts
    <3>2. CASE a # 0 /\ Pool!InUse(a)
      <4>1. a - 1 \in Pool!Ages
        BY <3>2, Parameters DEF Pool!Ages
      <4>2. key'[p][a] = Pool!Aged(key[p][a - 1]) /\ admitted'[p][a] = admitted[p][a - 1]
        BY <3>2, <4>1 DEF Pool!Tick, Pool!Shifted
      <4>3. /\ key[p][a - 1] \in Counter /\ admitted[p][a - 1] \in Nat
            /\ admitted[p][a - 1] <= Providers.limit
            /\ Accounts(key[p][a - 1], admitted[p][a - 1], a - 1)
        BY <4>1 DEF PoolInv, PoolTypes, RateInv
      <4>4. QED  BY <3>2, <4>2, <4>3, AgedCounts
    <3>3. QED  BY <3>1, <3>2
  <2>2. /\ key' = [p \in Providers.all |-> [a \in Pool!Ages |-> key'[p][a]]]
        /\ admitted' = [p \in Providers.all |-> [a \in Pool!Ages |-> admitted'[p][a]]]
    BY DEF Pool!Tick, Pool!Shifted
  <2>3. key' \in [Providers.all -> [Pool!Ages -> Counter]] /\ admitted' \in [Providers.all -> [Pool!Ages -> Nat]]
    BY <2>1, <2>2
  <2>4. QED  BY <2>1, <2>3 DEF RateInv
<1>3. scanner' \in [Providers.scanners -> PoolScan] /\ HasCandidate'
  <2>1. ASSUME NEW s \in Providers.scanners
        PROVE  /\ scanner'[s] \in PoolScan
               /\ scanner'[s].pc # "idle" => scanner'[s].candidates # {}
    <3>1. scanner[s] \in PoolScan /\ (scanner[s].pc # "idle" => scanner[s].candidates # {})
      BY DEF PoolInv, PoolTypes, HasCandidate, Pool!Busy
    <3>2. CASE Pool!Busy(s)
      <4>1. scanner'[s] = [scanner[s] EXCEPT !.age = scanner[s].age + 1]
        BY <3>2 DEF Pool!Tick
      <4>2. scanner[s].age + 1 \in Pool!Ages
        BY <3>1, <3>2, Parameters DEF Pool!Tick, PoolScan, Pool!Ages
      <4>3. QED  BY <3>1, <4>1, <4>2 DEF PoolScan
    <3>3. CASE ~Pool!Busy(s)
      BY <3>1, <3>3 DEF Pool!Tick
    <3>4. QED  BY <3>2, <3>3
  <2>2. scanner' = [s \in Providers.scanners |-> scanner'[s]]
    BY DEF Pool!Tick
  <2>3. scanner' \in [Providers.scanners -> PoolScan]
    BY <2>1, <2>2
  <2>4. QED  BY <2>1, <2>3 DEF HasCandidate, Pool!Busy
<1>4. active' \in SUBSET Providers.all /\ streak' \in [Providers.all -> 0..Providers.threshold]
  BY DEF Pool!Tick, PoolInv, PoolTypes
<1>5. QED  BY <1>1, <1>2, <1>3, <1>4 DEF PoolInv, PoolTypes

LEMMA SetStatusKeeps ==
    ASSUME Pool!Assumptions, PoolInv, NEW p \in Providers.all, Pool!SetStatus(p)
    PROVE  PoolInv'
<1>1. PoolTypes'
  BY DEF PoolInv, PoolTypes, Pool!SetStatus
<1>2. HasCandidate' /\ CircuitInv' /\ RateInv'
  BY DEF PoolInv, HasCandidate, Pool!Busy, CircuitInv, RateInv, Pool!SetStatus
<1>3. QED  BY <1>1, <1>2 DEF PoolInv

\* A step of a scan that records nothing.
LEMMA PoolOneScanThinks ==
    ASSUME PoolInv, NEW s \in Providers.scanners, NEW m \in PoolScan, m.pc # "idle" => m.candidates # {},
           scanner' = [scanner EXCEPT ![s] = m],
           UNCHANGED <<active, health, key, streak, admitted>>
    PROVE  PoolInv'
<1>1. scanner' \in [Providers.scanners -> PoolScan] /\ HasCandidate'
  BY PoolOneScanMoves
<1>2. PoolTypes' /\ CircuitInv' /\ RateInv'
  BY <1>1 DEF PoolInv, PoolTypes, CircuitInv, RateInv
<1>3. QED  BY <1>1, <1>2 DEF PoolInv

LEMMA PoolBeginKeeps ==
    ASSUME Pool!Assumptions, PoolInv, NEW s \in Providers.scanners, Pool!Begin(s)
    PROVE  PoolInv'
<1> PICK m : m = IF Pool!Candidates = {} THEN [Pool!IdleScan EXCEPT !.result = "failed"]
                 ELSE [Pool!IdleScan EXCEPT !.pc = "acquire", !.candidates = Pool!Candidates]
  OBVIOUS
<1>1. m \in PoolScan /\ (m.pc # "idle" => m.candidates # {})
  <2>1. CASE Pool!Candidates = {}
    <3>1. m = [Pool!IdleScan EXCEPT !.result = "failed"]  BY <2>1
    <3>2. QED  BY <3>1, PoolIdleIsOk
  <2>2. CASE Pool!Candidates # {}
    <3>1. m = [Pool!IdleScan EXCEPT !.pc = "acquire", !.candidates = Pool!Candidates]  BY <2>2
    <3>2. 0 \in Pool!Ages  BY Parameters DEF Pool!Ages
    <3>3. Pool!Candidates \in SUBSET Providers.all  BY DEF Pool!Candidates, PoolInv, PoolTypes
    <3>4. QED  BY <2>2, <3>1, <3>2, <3>3 DEF Pool!IdleScan, PoolScan
  <2>3. QED  BY <2>1, <2>2
<1>2. scanner' = [scanner EXCEPT ![s] = m]
  BY DEF Pool!Begin
<1>3. QED  BY <1>1, <1>2, PoolOneScanThinks DEF Pool!Begin

\* A token is taken of the counter of the second of the claim.
LEMMA AcquireKeeps ==
    ASSUME Pool!Assumptions, PoolInv, NEW s \in Providers.scanners, Pool!Acquire(s)
    PROVE  PoolInv'
<1> PICK p : p = Pool!Candidate(s)
  OBVIOUS
<1> PICK a : a = scanner[s].age
  OBVIOUS
<1>0. scanner[s] \in PoolScan /\ scanner[s].pc = "acquire" /\ Pool!Busy(s)
  BY DEF PoolInv, PoolTypes, Pool!Acquire, Pool!Busy
<1>1. p \in Providers.all /\ a \in Pool!Ages
  BY <1>0, CandidateIsProvider DEF PoolScan
<1>2. /\ key[p][a] \in Counter /\ admitted[p][a] \in Nat /\ admitted[p][a] <= Providers.limit
      /\ Accounts(key[p][a], admitted[p][a], a)
  BY <1>1 DEF PoolInv, PoolTypes, RateInv
<1> PICK k : k = Pool!Incremented(key[p][a])
  OBVIOUS
<1>3. /\ k \in Counter /\ k.count >= key[p][a].count /\ k.ttl = Providers.keyTTL
      /\ Pool!Permits(key[p][a]) => k.count = key[p][a].count + 1 /\ key[p][a].count + 1 <= Providers.limit
  BY <1>2, IncrementCounts
<1>4. a \in Nat /\ key[p][a].count \in Nat /\ k.count \in Nat
  <2>1. a \in Nat
    BY <1>1 DEF Pool!Ages
  <2>2. \A c \in Counter : c.count \in Nat
    BY Parameters DEF Counter
  <2>3. QED  BY <1>2, <1>3, <2>1, <2>2
<1>5. key' = [key EXCEPT ![p][a] = k] /\ UNCHANGED <<active, health, streak>>
  BY DEF Pool!Acquire
<1>6. key' \in [Providers.all -> [Pool!Ages -> Counter]]
  BY <1>1, <1>3, <1>5 DEF PoolInv, PoolTypes
<1>7. CASE Pool!Permits(key[p][a])
  <2> PICK n : n = IF a < Providers.keyTTL THEN admitted[p][a] + 1 ELSE admitted[p][a]
    OBVIOUS
  <2>1. admitted' = [admitted EXCEPT ![p][a] = n]
    BY <1>7 DEF Pool!Acquire
  <2>2. n \in Nat /\ n <= Providers.limit /\ Accounts(k, n, a)
    BY <1>2, <1>3, <1>4, <1>7, Parameters DEF Accounts
  <2>3. admitted' \in [Providers.all -> [Pool!Ages -> Nat]]
    BY <1>1, <2>1, <2>2 DEF PoolInv, PoolTypes
  <2>4. ASSUME NEW q \in Providers.all, NEW b \in Pool!Ages
        PROVE  admitted'[q][b] <= Providers.limit /\ Accounts(key'[q][b], admitted'[q][b], b)
    <3>1. CASE q = p /\ b = a
      <4>1. admitted'[q][b] = n /\ key'[q][b] = k
        BY <1>1, <1>5, <2>1, <3>1 DEF PoolInv, PoolTypes
      <4>2. QED  BY <2>2, <3>1, <4>1
    <3>2. CASE ~(q = p /\ b = a)
      <4>1. admitted'[q][b] = admitted[q][b] /\ key'[q][b] = key[q][b]
        BY <1>1, <1>5, <2>1, <3>2 DEF PoolInv, PoolTypes
      <4>2. QED  BY <4>1 DEF PoolInv, RateInv
    <3>3. QED  BY <3>1, <3>2
  <2>5. scanner' = [scanner EXCEPT ![s] = [scanner[s] EXCEPT !.pc = "request"]]
    BY <1>7 DEF Pool!Acquire, PoolInv, PoolTypes
  <2> PICK m : m = [scanner[s] EXCEPT !.pc = "request"]
    OBVIOUS
  <2>6. m \in PoolScan /\ m.candidates # {}
    BY <1>0 DEF PoolScan, PoolInv, HasCandidate
  <2>7. scanner' \in [Providers.scanners -> PoolScan] /\ HasCandidate'
    BY <2>5, <2>6, PoolOneScanMoves
  <2>8. CircuitInv'
    BY <1>5 DEF PoolInv, CircuitInv
  <2>9. QED  BY <1>5, <1>6, <2>3, <2>4, <2>7, <2>8 DEF PoolInv, PoolTypes, RateInv
<1>8. CASE ~Pool!Permits(key[p][a])
  <2>1. admitted' = admitted /\ scanner' = [scanner EXCEPT ![s] = Pool!NextCandidate(s)]
    BY <1>8 DEF Pool!Acquire
  <2>2. Accounts(k, admitted[p][a], a)
    BY <1>2, <1>3, <1>4, Parameters DEF Accounts
  <2>3. ASSUME NEW q \in Providers.all, NEW b \in Pool!Ages
        PROVE  admitted'[q][b] <= Providers.limit /\ Accounts(key'[q][b], admitted'[q][b], b)
    <3>1. CASE q = p /\ b = a
      <4>1. key'[q][b] = k
        BY <1>1, <1>5, <3>1 DEF PoolInv, PoolTypes
      <4>2. QED  BY <1>2, <2>1, <2>2, <3>1, <4>1
    <3>2. CASE ~(q = p /\ b = a)
      <4>1. key'[q][b] = key[q][b]
        BY <1>1, <1>5, <3>2 DEF PoolInv, PoolTypes
      <4>2. QED  BY <2>1, <4>1 DEF PoolInv, RateInv
    <3>3. QED  BY <3>1, <3>2
  <2>4. scanner' \in [Providers.scanners -> PoolScan] /\ HasCandidate'
    BY <1>0, <2>1, FailoverIsOk, PoolOneScanMoves
  <2>5. CircuitInv'
    BY <1>5 DEF PoolInv, CircuitInv
  <2>6. QED  BY <1>5, <1>6, <2>1, <2>3, <2>4, <2>5 DEF PoolInv, PoolTypes, RateInv
<1>9. QED  BY <1>7, <1>8

\* A success closes the circuit and ends the row of failures, however old the scan.
LEMMA SucceedsKeeps ==
    ASSUME Pool!Assumptions, PoolInv, NEW s \in Providers.scanners, Pool!Succeeds(s)
    PROVE  PoolInv'
<1> PICK p : p = Pool!Candidate(s)
  OBVIOUS
<1> PICK h : h = [failures |-> 0, disabled |-> 0]
  OBVIOUS
<1>1. /\ health' = [health EXCEPT ![p] = h] /\ streak' = [streak EXCEPT ![p] = 0]
      /\ UNCHANGED <<active, key, admitted>>
      /\ scanner' = [scanner EXCEPT ![s] = [Pool!IdleScan EXCEPT !.result = "ok"]]
  BY DEF Pool!Succeeds, Pool!RecordSuccess
<1>2. h \in Health /\ Counts(h, 0) /\ 0 \in 0..Providers.threshold
  BY Parameters DEF Health, Counts
<1>3. /\ health' \in [Providers.all -> Health] /\ streak' \in [Providers.all -> 0..Providers.threshold]
  BY <1>1, <1>2 DEF PoolInv, PoolTypes
<1>4. CircuitInv'
  <2>1. ASSUME NEW q \in Providers.all  PROVE Counts(health'[q], streak'[q])
    <3>1. CASE q = p
      <4>1. health'[q] = h /\ streak'[q] = 0
        BY <1>1, <3>1 DEF PoolInv, PoolTypes
      <4>2. QED  BY <1>2, <4>1
    <3>2. CASE q # p
      <4>1. health'[q] = health[q] /\ streak'[q] = streak[q]
        BY <1>1, <3>2 DEF PoolInv, PoolTypes
      <4>2. QED  BY <4>1 DEF PoolInv, CircuitInv
    <3>3. QED  BY <3>1, <3>2
  <2>2. QED  BY <2>1 DEF CircuitInv
<1>5. scanner' \in [Providers.scanners -> PoolScan] /\ HasCandidate'
  BY <1>1, PoolIdleIsOk, PoolOneScanMoves
<1>6. RateInv'
  BY <1>1 DEF PoolInv, RateInv
<1>7. QED  BY <1>1, <1>3, <1>4, <1>5, <1>6 DEF PoolInv, PoolTypes

LEMMA IsUnavailableKeeps ==
    ASSUME Pool!Assumptions, PoolInv, NEW s \in Providers.scanners, Pool!IsUnavailable(s)
    PROVE  PoolInv'
<1> PICK p : p = Pool!Candidate(s)
  OBVIOUS
<1> PICK age : age = scanner[s].age
  OBVIOUS
<1>0. scanner[s] \in PoolScan /\ Pool!Busy(s)
  BY DEF PoolInv, PoolTypes, Pool!IsUnavailable, Pool!Busy
<1>1. p \in Providers.all /\ age \in Pool!Ages
  BY <1>0, CandidateIsProvider DEF PoolScan
<1>2. health[p] \in Health /\ streak[p] \in 0..Providers.threshold /\ Counts(health[p], streak[p])
  BY <1>1 DEF PoolInv, PoolTypes, CircuitInv
<1> PICK h : h = Pool!FailureRecorded(health[p], age)
  OBVIOUS
<1> PICK n : n = Pool!Min({streak[p] + 1, Providers.threshold})
  OBVIOUS
<1>3. h \in Health /\ n \in 0..Providers.threshold /\ Counts(h, n)
  BY <1>1, <1>2, FailureCounts
<1>4. /\ health' = [health EXCEPT ![p] = h] /\ streak' = [streak EXCEPT ![p] = n]
      /\ UNCHANGED <<active, key, admitted>>
      /\ scanner' = [scanner EXCEPT ![s] = Pool!NextCandidate(s)]
  BY DEF Pool!IsUnavailable, Pool!RecordFailure
<1>5. /\ health' \in [Providers.all -> Health] /\ streak' \in [Providers.all -> 0..Providers.threshold]
  BY <1>3, <1>4 DEF PoolInv, PoolTypes
<1>6. CircuitInv'
  <2>1. ASSUME NEW q \in Providers.all  PROVE Counts(health'[q], streak'[q])
    <3>1. CASE q = p
      <4>1. health'[q] = h /\ streak'[q] = n
        BY <1>4, <3>1 DEF PoolInv, PoolTypes
      <4>2. QED  BY <1>3, <4>1
    <3>2. CASE q # p
      <4>1. health'[q] = health[q] /\ streak'[q] = streak[q]
        BY <1>4, <3>2 DEF PoolInv, PoolTypes
      <4>2. QED  BY <4>1 DEF PoolInv, CircuitInv
    <3>3. QED  BY <3>1, <3>2
  <2>2. QED  BY <2>1 DEF CircuitInv
<1>7. scanner' \in [Providers.scanners -> PoolScan] /\ HasCandidate'
  BY <1>0, <1>4, FailoverIsOk, PoolOneScanMoves
<1>8. RateInv'
  BY <1>4 DEF PoolInv, RateInv
<1>9. QED  BY <1>4, <1>5, <1>6, <1>7, <1>8 DEF PoolInv, PoolTypes

\* A record that is lost, or another error.
LEMMA UnrecordedKeeps ==
    ASSUME Pool!Assumptions, PoolInv, NEW s \in Providers.scanners, Pool!RecordIsLost(s) \/ Pool!ScanFails(s)
    PROVE  PoolInv'
<1>1. Pool!Busy(s) /\ UNCHANGED <<active, health, key, streak, admitted>>
  BY DEF Pool!RecordIsLost, Pool!ScanFails, Pool!Busy
<1>2. CASE scanner' = [scanner EXCEPT ![s] = Pool!NextCandidate(s)]
  BY <1>1, <1>2, FailoverIsOk, PoolOneScanThinks
<1>3. ASSUME NEW result \in {"ok", "failed"},
             scanner' = [scanner EXCEPT ![s] = [Pool!IdleScan EXCEPT !.result = result]]
      PROVE  PoolInv'
  BY <1>1, <1>3, PoolIdleIsOk, PoolOneScanThinks
<1>4. \/ scanner' = [scanner EXCEPT ![s] = Pool!NextCandidate(s)]
      \/ \E result \in {"ok", "failed"} :
             scanner' = [scanner EXCEPT ![s] = [Pool!IdleScan EXCEPT !.result = result]]
  BY DEF Pool!RecordIsLost, Pool!ScanFails
<1>5. QED  BY <1>2, <1>3, <1>4

LEMMA PoolStep ==
    ASSUME Pool!Assumptions, PoolInv, [Pool!Next]_(Pool!vars)
    PROVE  PoolInv'
<1>1. CASE Pool!Tick  BY <1>1, TickKeeps
<1>2. CASE \E p \in Providers.all : Pool!SetStatus(p)  BY <1>2, SetStatusKeeps
<1>3. ASSUME NEW s \in Providers.scanners, Pool!ScanStep(s) \/ Pool!ScanFails(s)
      PROVE  PoolInv'
  BY <1>3, PoolBeginKeeps, AcquireKeeps, SucceedsKeeps, IsUnavailableKeeps, UnrecordedKeeps
     DEF Pool!ScanStep
<1>4. CASE UNCHANGED Pool!vars
  <2>1. PoolTypes'
    BY <1>4 DEF Pool!vars, PoolInv, PoolTypes
  <2>2. HasCandidate' /\ CircuitInv' /\ RateInv'
    BY <1>4 DEF Pool!vars, PoolInv, HasCandidate, Pool!Busy, CircuitInv, RateInv
  <2>3. QED  BY <2>1, <2>2 DEF PoolInv
<1>5. QED  BY <1>1, <1>2, <1>3, <1>4 DEF Pool!Next

LEMMA PoolInvTells ==
    ASSUME PoolInv
    PROVE  Pool!TypeOK /\ Pool!OpenCircuitHasItsFailures /\ Pool!WithinRateLimit
<1>1. Pool!TypeOK
  BY DEF PoolInv, PoolTypes, Pool!TypeOK, Health, PoolScan
<1>2. Pool!OpenCircuitHasItsFailures
  BY DEF PoolInv, CircuitInv, Counts, Pool!OpenCircuitHasItsFailures, Pool!CircuitOpen
<1>3. Pool!WithinRateLimit
  BY DEF PoolInv, RateInv, Pool!WithinRateLimit
<1>4. QED  BY <1>1, <1>2, <1>3

-----------------------------------------------------------------------------
(* The parts together: one of them moves, the others are not there.        *)

ScansInv ==
    /\ part = "evm" => Evm!EvmInv
    /\ part = "evm overlap" => EvmOverlap!EvmInv
    /\ part = "tron" => Tron!TronInv
    /\ part = "tron sole" => TronSole!TronInv
    /\ part = "btc" => CursorInv
    /\ part = "pool" => PoolInv

LEMMA ScansInvInit ==
    ASSUME Init
    PROVE  ScansInv
<1>1. ASSUME part = "evm"  PROVE Evm!EvmInv
  BY <1>1, PartsAssumption, Evm!EvmInvInit DEF Init
<1>2. ASSUME part = "evm overlap"  PROVE EvmOverlap!EvmInv
  BY <1>2, PartsAssumption, EvmOverlap!EvmInvInit DEF Init
<1>3. ASSUME part = "tron"  PROVE Tron!TronInv
  BY <1>3, PartsAssumption, Tron!TronInvInit DEF Init
<1>4. ASSUME part = "tron sole"  PROVE TronSole!TronInv
  BY <1>4, PartsAssumption, TronSole!TronInvInit DEF Init
<1>5. ASSUME part = "btc"  PROVE CursorInv
  BY <1>5, PartsAssumption, CursorInit DEF Init
<1>6. ASSUME part = "pool"  PROVE PoolInv
  BY <1>6, PartsAssumption, PoolInit DEF Init
<1>7. QED  BY <1>1, <1>2, <1>3, <1>4, <1>5, <1>6 DEF ScansInv

LEMMA ScansInvStep ==
    ASSUME ScansInv, [Next]_all
    PROVE  ScansInv'
<1>0. part' = part
  BY DEF Next, all, shared, EvmRest, TronRest, BtcRest, PoolRest
<1>1. ASSUME part = "evm"  PROVE Evm!EvmInv'
  <2>1. [Evm!Next]_(Evm!vars)
    BY <1>1 DEF Next, all, shared, evm, Evm!vars
  <2>2. QED  BY <1>1, <2>1, PartsAssumption, Evm!EvmInvStep DEF ScansInv
<1>2. ASSUME part = "evm overlap"  PROVE EvmOverlap!EvmInv'
  <2>1. [EvmOverlap!Next]_(EvmOverlap!vars)
    BY <1>2 DEF Next, all, shared, evm, EvmOverlap!vars
  <2>2. QED  BY <1>2, <2>1, PartsAssumption, EvmOverlap!EvmInvStep DEF ScansInv
<1>3. ASSUME part = "tron"  PROVE Tron!TronInv'
  <2>1. [Tron!Next]_(Tron!vars)
    BY <1>3 DEF Next, all, shared, tron, Tron!vars
  <2>2. QED  BY <1>3, <2>1, PartsAssumption, Tron!TronInvStep DEF ScansInv
<1>4. ASSUME part = "tron sole"  PROVE TronSole!TronInv'
  <2>1. [TronSole!Next]_(TronSole!vars)
    BY <1>4 DEF Next, all, shared, tron, TronSole!vars
  <2>2. QED  BY <1>4, <2>1, PartsAssumption, TronSole!TronInvStep DEF ScansInv
<1>5. ASSUME part = "btc"  PROVE CursorInv'
  <2>1. [Btc!Next]_(Btc!vars)
    BY <1>5 DEF Next, all, shared, Btc!vars
  <2>2. QED  BY <1>5, <2>1, PartsAssumption, CursorStep DEF ScansInv
<1>6. ASSUME part = "pool"  PROVE PoolInv'
  <2>1. [Pool!Next]_(Pool!vars)
    BY <1>6 DEF Next, all, shared, pool, Pool!vars
  <2>2. QED  BY <1>6, <2>1, PartsAssumption, PoolStep DEF ScansInv
<1>7. QED  BY <1>0, <1>1, <1>2, <1>3, <1>4, <1>5, <1>6 DEF ScansInv

LEMMA ScansInvTells ==
    ASSUME ScansInv
    PROVE  /\ TypesOK /\ NoTransferIsPassed /\ BalanceStory
           /\ OneEventUnlessInterrupted /\ OpenCircuitHasItsFailures /\ WithinRateLimit
<1>1. ASSUME part = "evm"  PROVE Evm!TypeOK /\ Evm!NoTransferIsPassed
  BY <1>1, PartsAssumption, Evm!EvmInvTells DEF ScansInv
<1>2. ASSUME part = "evm overlap"
      PROVE  EvmOverlap!TypeOK /\ EvmOverlap!NoTransferIsPassed /\ EvmOverlap!BalanceStory
  BY <1>2, PartsAssumption, EvmOverlap!EvmInvTells DEF ScansInv
<1>3. ASSUME part = "tron"
      PROVE  Tron!TypeOK /\ Tron!NoTransferIsPassed /\ Tron!OneEventUnlessInterrupted
  BY <1>3, PartsAssumption, Tron!TronInvTells DEF ScansInv
<1>4. ASSUME part = "tron sole"
      PROVE  TronSole!TypeOK /\ TronSole!NoTransferIsPassed /\ TronSole!OneEventUnlessInterrupted
  BY <1>4, PartsAssumption, TronSole!TronInvTells DEF ScansInv
<1>5. ASSUME part = "btc"  PROVE Btc!TypeOK /\ Btc!NoTransferIsPassed
  BY <1>5, PartsAssumption, CursorInvTells DEF ScansInv
<1>6. ASSUME part = "pool"
      PROVE  Pool!TypeOK /\ Pool!OpenCircuitHasItsFailures /\ Pool!WithinRateLimit
  BY <1>6, PoolInvTells DEF ScansInv
<1>7. TypesOK
  BY <1>1, <1>2, <1>3, <1>4, <1>5, <1>6 DEF TypesOK
<1>8. NoTransferIsPassed
  BY <1>1, <1>2, <1>3, <1>4, <1>5 DEF NoTransferIsPassed
<1>9. BalanceStory /\ OneEventUnlessInterrupted
  BY <1>2, <1>3, <1>4 DEF BalanceStory, OneEventUnlessInterrupted
<1>10. OpenCircuitHasItsFailures /\ WithinRateLimit
  BY <1>6 DEF OpenCircuitHasItsFailures, WithinRateLimit
<1>11. QED  BY <1>7, <1>8, <1>9, <1>10

LEMMA SpecScansInv == Spec => []ScansInv
<1>1. Init => ScansInv
  BY ScansInvInit
<1>2. ScansInv /\ [Next]_all => ScansInv'
  BY ScansInvStep
<1>3. QED  BY <1>1, <1>2, PTL DEF Spec

\* The types of the state of each part; a transfer of an EVM chain and one of the
\* Bitcoin chain have one row of address_events at most.
THEOREM ScanTypesAreRight == Spec => []TypesOK
<1>1. ScansInv => TypesOK
  BY ScansInvTells
<1>2. QED  BY <1>1, SpecScansInv, PTL

\* Whatever ends a scan, however scans overlap, whichever node they ask and
\* whatever happens to the selection: upsert_scan_cursor puts an EVM cursor past
\* no transfer of a token selected all along that is not in address_events, the
\* TRX cursor past none, the TRC20 cursor, which all contracts of the address
\* share, past none but for one at least as new of another contract, and the
\* Bitcoin cursor past none, although pages miss what is indexed meanwhile.
THEOREM CursorsPassNoTransfer == Spec => []NoTransferIsPassed
<1>1. ScansInv => NoTransferIsPassed
  BY ScansInvTells
<1>2. QED  BY <1>1, SpecScansInv, PTL

\* The balance_change events, told one after the other, say what the newest
\* snapshot says, whatever balances the nodes answer with, as long as no two scans
\* are between their snapshot and its comparison at once and none ends there.
THEOREM EventsTellTheBalance == Spec => []BalanceStory
<1>1. ScansInv => BalanceStory
  BY ScansInvTells
<1>2. QED  BY <1>1, SpecScansInv, PTL

\* A TRON transfer has one row of address_events, whatever log_index its place in
\* the listings gave it, as long as no scan ended early and none overlaps another.
THEOREM TransfersHaveOneEvent == Spec => []OneEventUnlessInterrupted
<1>1. ScansInv => OneEventUnlessInterrupted
  BY ScansInvTells
<1>2. QED  BY <1>1, SpecScansInv, PTL

\* disabled_until in provider_health lies ahead only after as many failures in a
\* row as the threshold says, whichever workers recorded them, in whatever order
\* and however late their scans end.
THEOREM CircuitsOpenForAReason == Spec => []OpenCircuitHasItsFailures
<1>1. ScansInv => OpenCircuitHasItsFailures
  BY ScansInvTells
<1>2. QED  BY <1>1, SpecScansInv, PTL

\* try_acquire_provider_qps lets no more attempts of the scans claimed in one
\* second through than the provider's limit, as long as the counter of that
\* second cannot have expired.
THEOREM RateLimitHolds == Spec => []WithinRateLimit
<1>1. ScansInv => WithinRateLimit
  BY ScansInvTells
<1>2. QED  BY <1>1, SpecScansInv, PTL
=============================================================================
