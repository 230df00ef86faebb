-------------------------- MODULE NativeBookProofs --------------------------
(***************************************************************************)
(* The native book and the structures under it.  SideLevels: insertion and *)
(* deletion keep a side well-formed and do to its prices what they should, *)
(* for every window and every prices; the visit of a side lists all of its *)
(* levels, best first.  Bitmap: its searches find the nearest place set,   *)
(* for every number of places and every word size.  IdMap: it holds what   *)
(* was inserted and not erased, for every hash function, whatever          *)
(* collides, grows and shifts back.  NativeBook: both sides are            *)
(* well-formed and levels, nodes and sides are one book; what it shows and *)
(* what the Python objects say is of that book; and it does what the       *)
(* linear-scan book does.  For every set of ids, every window, price and   *)
(* quantity.                                                               *)
(***************************************************************************)
EXTENDS NativeBook, SideLevels, Bitmap, IdMap, ListLemmas, FiniteSetTheorems

(* SideLevels.                                                             *)

\* A side whose prices are at most n.
SideUpTo(n) ==
  [side : {"bid", "ask"}, base : Int, slots : [Slot -> 0..n], bits : SUBSET Slot,
   count : Nat, far : SUBSET (1..n), best : 0..n]

\* A bounded set of integers has a least and a greatest element.
LEMMA Extremes ==
  ASSUME NEW a \in Int, NEW b \in Int, NEW T \in SUBSET (a..b), T # {}
  PROVE  /\ Min(T) \in T /\ \A t \in T : Min(T) <= t
         /\ Max(T) \in T /\ \A t \in T : t <= Max(T)
<1>1. \E m \in T : \A t \in T : m <= t
  <2> DEFINE U == {t - a : t \in T}
  <2>0. \A t \in T : t - a \in Nat
    OBVIOUS
  <2>1. U \in SUBSET Nat /\ U # {}
    BY <2>0, Zenon
  <2>2. PICK u \in U : \A v \in U : u <= v
    BY <2>1, LeastNatural
  <2>3. PICK m \in T : u = m - a
    OBVIOUS
  <2>4. \A t \in T : m - a <= t - a
    BY <2>2, <2>3
  <2>5. QED
    BY <2>4
<1>2. \E m \in T : \A t \in T : t <= m
  <2> DEFINE U == {b - t : t \in T}
  <2>0. \A t \in T : b - t \in Nat
    OBVIOUS
  <2>1. U \in SUBSET Nat /\ U # {}
    BY <2>0, Zenon
  <2>2. PICK u \in U : \A v \in U : u <= v
    BY <2>1, LeastNatural
  <2>3. PICK m \in T : u = b - m
    OBVIOUS
  <2>4. \A t \in T : b - m <= b - t
    BY <2>2, <2>3
  <2>5. QED
    BY <2>4
<1>3. Min(T) \in T /\ \A t \in T : Min(T) <= t
  BY <1>1 DEF Min
<1>4. Max(T) \in T /\ \A t \in T : Max(T) >= t
  BY <1>2 DEF Max
<1>5. QED
  BY <1>3, <1>4

\* The searches of the bitmap.
LEMMA PrevBitFacts ==
  ASSUME NEW n \in Nat, NEW sl \in SideUpTo(n), NEW i \in Slot
  PROVE  LET b == PrevBit(sl, i)
         IN  \/ b = -1 /\ \A c \in sl.bits : c > i
             \/ b \in sl.bits /\ b <= i /\ \A c \in sl.bits : c <= i => c <= b
<1> DEFINE T == {c \in sl.bits : c <= i} \union {-1}
<1>1. Window \in Int /\ sl.bits \subseteq Slot
  BY WindowAssumption DEF SideUpTo
<1>2. T \in SUBSET (-1..Window) /\ T # {}
  BY <1>1 DEF Slot
<1>4. PrevBit(sl, i) = Max(T)
  BY DEF PrevBit
<1>5. \A c \in sl.bits : c \in Int /\ (c \in T <=> c <= i)
  BY <1>1 DEF Slot
<1> HIDE DEF T
<1>3. Max(T) \in T /\ \A t \in T : t <= Max(T)
  <2>1. -1 \in Int
    OBVIOUS
  <2>2. QED
    BY <1>1, <1>2, <2>1, Extremes
<1>6. CASE Max(T) = -1
  <2>1. \A c \in sl.bits : c >= 0
    BY <1>1 DEF Slot
  <2>2. i \in Int
    BY DEF Slot
  <2>3. \A c \in sl.bits : c > i
    BY <1>3, <1>5, <1>6, <2>1, <2>2
  <2>4. QED
    BY <1>4, <1>6, <2>3
<1>7. CASE Max(T) # -1
  <2>1. Max(T) \in sl.bits /\ Max(T) <= i
    BY <1>3, <1>7 DEF T
  <2>2. QED
    BY <1>3, <1>4, <1>5, <2>1
<1>8. QED
  BY <1>6, <1>7

\* The search for the next slot with a level, or none.
LEMMA NextBitFacts ==
  ASSUME NEW n \in Nat, NEW sl \in SideUpTo(n), NEW i \in Slot
  PROVE  LET b == NextBit(sl, i)
         IN  \/ b = -1 /\ \A c \in sl.bits : c < i
             \/ b \in sl.bits /\ b >= i /\ \A c \in sl.bits : c >= i => b <= c
<1> DEFINE T == {c \in sl.bits : c >= i}
<1>1. Window \in Int /\ sl.bits \subseteq Slot
  BY WindowAssumption DEF SideUpTo
<1>2. NextBit(sl, i) = IF T = {} THEN -1 ELSE Min(T)
  BY DEF NextBit
<1>3. CASE T = {}
  <2>1. \A c \in sl.bits : c < i
    BY <1>1, <1>3 DEF Slot
  <2>2. QED
    BY <1>2, <1>3, <2>1
<1>4. CASE T # {}
  <2>1. T \in SUBSET (0..Window)
    BY <1>1 DEF Slot
  <2>2. Min(T) \in T /\ \A t \in T : Min(T) <= t
    <3> HIDE DEF T
    <3>1. 0 \in Int
      OBVIOUS
    <3>2. QED
      BY <1>1, <1>4, <2>1, <3>1, Extremes
  <2>3. QED
    BY <1>2, <1>4, <2>2
<1>5. QED
  BY <1>3, <1>4

\* The best level of the window is where FirstIndex says.
LEMMA FirstIndexFacts ==
  ASSUME NEW n \in Nat, NEW sl \in SideUpTo(n), sl.bits # {}
  PROVE  /\ FirstIndex(sl) \in sl.bits
         /\ \A c \in sl.bits \ {FirstIndex(sl)} :
              Better(sl, sl.base + FirstIndex(sl), sl.base + c)
<1>1. /\ Window \in Nat \ {0} /\ sl.bits \subseteq Slot /\ sl.base \in Int
      /\ sl.side \in {"bid", "ask"}
  BY WindowAssumption DEF SideUpTo
<1>2. CASE sl.side = "bid"
  <2>1. Window - 1 \in Slot
    BY <1>1 DEF Slot
  <2>2. FirstIndex(sl) = PrevBit(sl, Window - 1)
    BY <1>2 DEF FirstIndex
  <2> DEFINE f == FirstIndex(sl)
  <2>3. \/ f = -1 /\ \A c \in sl.bits : c > Window - 1
        \/ f \in sl.bits /\ f <= Window - 1 /\ \A c \in sl.bits : c <= Window - 1 => c <= f
    BY <2>1, <2>2, PrevBitFacts
  <2> HIDE DEF f
  <2>4. f \in sl.bits /\ \A c \in sl.bits : c <= f
    BY <1>1, <2>3 DEF Slot
  <2>5. \A c \in sl.bits \ {f} : sl.base + f > sl.base + c
    BY <1>1, <2>4 DEF Slot
  <2>6. QED
    BY <1>2, <2>4, <2>5 DEF Better, f
<1>3. CASE sl.side = "ask"
  <2>1. 0 \in Slot
    BY <1>1 DEF Slot
  <2>2. FirstIndex(sl) = NextBit(sl, 0)
    BY <1>3 DEF FirstIndex
  <2> DEFINE f == FirstIndex(sl)
  <2>3. \/ f = -1 /\ \A c \in sl.bits : c < 0
        \/ f \in sl.bits /\ f >= 0 /\ \A c \in sl.bits : c >= 0 => f <= c
    BY <2>1, <2>2, NextBitFacts
  <2> HIDE DEF f
  <2>4. f \in sl.bits /\ \A c \in sl.bits : f <= c
    BY <1>1, <2>3 DEF Slot
  <2>5. \A c \in sl.bits \ {f} : sl.base + f < sl.base + c
    BY <1>1, <2>4 DEF Slot
  <2>6. QED
    BY <1>3, <2>4, <2>5 DEF Better, f
<1>4. QED
  BY <1>1, <1>2, <1>3

\* The best level outside the window.
LEMMA FarBestFacts ==
  ASSUME NEW n \in Nat, NEW sl \in SideUpTo(n)
  PROVE  IF sl.far = {} THEN FarBest(sl) = NoLevel
         ELSE /\ FarBest(sl) \in sl.far
              /\ \A q \in sl.far \ {FarBest(sl)} : Better(sl, FarBest(sl), q)
<1>1. sl.far \in SUBSET (1..n) /\ sl.side \in {"bid", "ask"}
  BY DEF SideUpTo
<1>2. CASE sl.far = {}
  BY <1>2 DEF FarBest
<1>3. CASE sl.far # {}
  <2>1. 1 \in Int /\ n \in Int /\ \A q \in sl.far : q \in Int
    BY <1>1
  <2>2. /\ Min(sl.far) \in sl.far /\ \A q \in sl.far : Min(sl.far) <= q
        /\ Max(sl.far) \in sl.far /\ \A q \in sl.far : q <= Max(sl.far)
    BY <1>1, <1>3, <2>1, Extremes
  <2>3. QED
    BY <1>1, <1>3, <2>1, <2>2 DEF FarBest, Better
<1>4. QED
  BY <1>2, <1>3

\* Where a price is: in the window exactly when its slot is taken, outside
\* exactly when it is in far.
LEMMA PricesFacts ==
  ASSUME NEW n \in Nat, NEW sl \in SideUpTo(n), Consistent(sl)
  PROVE  /\ Prices(sl) \subseteq 1..n
         /\ \A p \in Int :
              IF InWindow(sl, p)
              THEN p - sl.base \in Slot /\ (p \in Prices(sl) <=> p - sl.base \in sl.bits)
              ELSE p \in Prices(sl) <=> p \in sl.far
<1>1. /\ Window \in Int /\ sl.base \in Int /\ sl.bits \subseteq Slot
      /\ sl.far \subseteq 1..n /\ sl.slots \in [Slot -> 0..n]
  BY WindowAssumption DEF SideUpTo
<1>2. \A i \in sl.bits : sl.base + i \in 1..n
  <2>1. SUFFICES ASSUME NEW i \in sl.bits PROVE sl.base + i \in 1..n
    OBVIOUS
  <2>2. i \in Slot /\ sl.slots[i] = sl.base + i
    BY <1>1 DEF Consistent
  <2>3. sl.slots[i] \in 0..n /\ sl.base + i \in Nat \ {0}
    BY <1>1, <2>2 DEF Consistent, Prices
  <2>4. QED
    BY <2>2, <2>3
<1>3. Prices(sl) \subseteq 1..n
  BY <1>1, <1>2 DEF Prices
<1>4. ASSUME NEW p \in Int, InWindow(sl, p)
      PROVE  p - sl.base \in Slot /\ (p \in Prices(sl) <=> p - sl.base \in sl.bits)
  <2>1. p - sl.base \in Slot
    BY <1>1, <1>4 DEF InWindow, Slot
  <2>2. p \notin sl.far
    BY <1>4 DEF Consistent
  <2>3. \A i \in sl.bits : i \in Int
    BY <1>1 DEF Slot
  <2>4. p = sl.base + (p - sl.base) /\ \A i \in sl.bits : p = sl.base + i => i = p - sl.base
    BY <1>1, <2>3
  <2>5. QED
    BY <2>1, <2>2, <2>4 DEF Prices
<1>5. ASSUME NEW p \in Int, ~InWindow(sl, p)
      PROVE  p \in Prices(sl) <=> p \in sl.far
  <2>1. \A i \in sl.bits : InWindow(sl, sl.base + i)
    BY <1>1 DEF InWindow, Slot
  <2>2. QED
    BY <1>5, <2>1 DEF Prices
<1>6. QED
  BY <1>3, <1>4, <1>5

\* find: the level of a price exactly when the side has one there.
LEMMA FindCorrect ==
  ASSUME NEW n \in Nat, NEW sl \in SideUpTo(n), Consistent(sl), NEW p \in Nat \ {0}
  PROVE  Find(sl, p) = IF p \in Prices(sl) THEN p ELSE NoLevel
<1>1. sl.base \in Int /\ sl.far \subseteq 1..n
  BY DEF SideUpTo
<1>2. CASE InWindow(sl, p)
  <2>1. p - sl.base \in Slot /\ (p \in Prices(sl) <=> p - sl.base \in sl.bits)
    BY <1>2, PricesFacts
  <2>2. sl.base + (p - sl.base) = p
    BY <1>1
  <2>3. Find(sl, p) = sl.slots[p - sl.base]
    BY <1>2 DEF Find
  <2>4. sl.slots[p - sl.base] = IF p - sl.base \in sl.bits THEN p ELSE NoLevel
    BY <2>1, <2>2 DEF Consistent
  <2>5. QED
    BY <2>1, <2>3, <2>4
<1>3. CASE ~InWindow(sl, p)
  <2>1. p \in Prices(sl) <=> p \in sl.far
    BY <1>3, PricesFacts
  <2>2. p \in LowerBound(sl, p) <=> p \in sl.far
    BY <1>1 DEF LowerBound
  <2>3. QED
    BY <1>3, <2>1, <2>2 DEF Find
<1>4. QED
  BY <1>2, <1>3

\* An empty window can be put anywhere: the levels it spans move into it and the
\* prices stay what they are.
LEMMA RecentreCorrect ==
  ASSUME NEW n \in Nat, NEW sl \in SideUpTo(n), Consistent(sl), sl.count = 0, NEW p \in 1..n
  PROVE  LET r == Recentre(sl, p)
         IN  /\ r \in SideUpTo(n) /\ Consistent(r)
             /\ Prices(r) = Prices(sl) /\ r.best = sl.best /\ r.side = sl.side
             /\ InWindow(r, p)
             /\ p \in sl.far => r.count # 0
<1> DEFINE base    == p - Window \div 2
           moved   == {q \in sl.far : base <= q /\ q < base + Window}
           shifted == {q - base : q \in moved}
           r       == Recentre(sl, p)
<1>1. /\ Window \in Nat \ {0} /\ Window \div 2 \in Nat /\ Window \div 2 < Window
      /\ sl.far \subseteq 1..n /\ sl.bits \subseteq Slot /\ IsFiniteSet(Slot)
  <2>1. Window \in Nat \ {0}
    BY WindowAssumption
  <2>2. Window \div 2 \in Nat /\ Window \div 2 < Window
    BY <2>1
  <2>3. 0 \in Int /\ Window - 1 \in Int
    BY <2>1
  <2>4. IsFiniteSet(Slot)
    BY <2>3, FS_Interval DEF Slot
  <2>5. sl.far \subseteq 1..n /\ sl.bits \subseteq Slot
    BY DEF SideUpTo
  <2>6. QED
    BY <2>1, <2>2, <2>4, <2>5
<1>2. sl.bits = {}
  <2>1. IsFiniteSet(sl.bits)
    BY <1>1, FS_Subset
  <2>2. QED
    BY <2>1, FS_EmptySet DEF Consistent
<1>3. \A i \in Slot : sl.slots[i] = NoLevel
  BY <1>2 DEF Consistent
<1>4. base \in Int /\ base <= p /\ p < base + Window
  BY <1>1
<1>5. \A q \in moved : q \in 1..n /\ q - base \in Slot
  BY <1>1, <1>4 DEF Slot
<1>6. \A i \in Slot : base + i \in moved <=> i \in shifted
  <2>1. \A i \in Slot : i \in Int /\ (base + i) - base = i
    BY <1>4 DEF Slot
  <2>2. \A q \in moved : base + (q - base) = q
    BY <1>4, <1>5
  <2>3. QED
    BY <2>1, <2>2
<1>7. IsFiniteSet(moved) /\ Cardinality(moved) \in Nat /\ (moved # {} => Cardinality(moved) # 0)
  <2>1. IsFiniteSet(1..n)
    BY FS_Interval
  <2>2. moved \in SUBSET (1..n)
    BY <1>5
  <2>3. QED
    BY <2>1, <2>2, FS_Subset, FS_EmptySet, FS_CardinalityType
<1>8. Cardinality(shifted) = Cardinality(moved)
  <2> DEFINE f == [q \in moved |-> q - base]
  <2>1. f \in [moved -> shifted]
    OBVIOUS
  <2>2. \A a, b \in moved : f[a] = f[b] => a = b
    BY <1>4, <1>5
  <2>3. \A t \in shifted : \E q \in moved : f[q] = t
    OBVIOUS
  <2>4. f \in Bijection(moved, shifted)
    BY <2>1, <2>2, <2>3 DEF Bijection, Injection, Surjection, IsInjective
  <2>5. QED
    BY <1>7, <2>4, FS_Bijection DEF ExistsBijection
<1>9. /\ r.side = sl.side /\ r.best = sl.best /\ r.base = base
      /\ r.slots = [i \in Slot |-> IF base + i \in moved THEN base + i ELSE sl.slots[i]]
      /\ r.bits = shifted /\ r.count = Cardinality(moved) /\ r.far = sl.far \ moved
      /\ r = [side |-> r.side, base |-> r.base, slots |-> r.slots, bits |-> r.bits,
              count |-> r.count, far |-> r.far, best |-> r.best]
  <2> HIDE DEF base, moved, shifted
  <2>0. moved = {q \in sl.far : base <= q /\ q < base + Window} /\ base = p - Window \div 2
        /\ shifted = {q - base : q \in moved}
    BY DEF moved, base, shifted
  <2>1. r = [sl EXCEPT !.base  = base,
                       !.slots = [i \in Slot |-> IF base + i \in moved THEN base + i ELSE @[i]],
                       !.bits  = @ \union shifted,
                       !.count = @ + Cardinality(moved),
                       !.far   = @ \ moved]
    BY <2>0 DEF Recentre
  <2> HIDE DEF r
  <2>2. /\ r.side = sl.side /\ r.best = sl.best /\ r.base = base
        /\ r.slots = [i \in Slot |-> IF base + i \in moved THEN base + i ELSE sl.slots[i]]
        /\ r.bits = sl.bits \union shifted /\ r.count = sl.count + Cardinality(moved)
        /\ r.far = sl.far \ moved
    BY <2>1 DEF SideUpTo
  <2>3. r = [side |-> r.side, base |-> r.base, slots |-> r.slots, bits |-> r.bits,
             count |-> r.count, far |-> r.far, best |-> r.best]
    BY <2>1 DEF SideUpTo
  <2>4. 0 + Cardinality(moved) = Cardinality(moved)
    BY <1>7 DEF moved
  <2>5. QED
    BY <1>2, <2>2, <2>3, <2>4
<1>10. r \in SideUpTo(n)
  <2>1. r.slots \in [Slot -> 0..n]
    BY <1>3, <1>5, <1>9 DEF NoLevel
  <2>2. r.bits \in SUBSET Slot /\ r.far \in SUBSET (1..n) /\ r.count \in Nat /\ r.base \in Int
    BY <1>1, <1>4, <1>5, <1>7, <1>9
  <2>3. r.side \in {"bid", "ask"} /\ r.best \in 0..n
    BY <1>9 DEF SideUpTo
  <2> HIDE DEF r
  <2>4. QED
    BY <1>9, <2>1, <2>2, <2>3 DEF SideUpTo
<1>11. Prices(r) = Prices(sl)
  <2>0. \A q \in moved : q - base \in shifted /\ base + (q - base) = q
    BY <1>4, <1>5
  <2>1. {base + i : i \in shifted} = moved
    <3>1. \A i \in shifted : base + i \in moved
      BY <2>0
    <3>2. QED
      BY <2>0, <3>1, Zenon
  <2>2. Prices(sl) = sl.far
    BY <1>2 DEF Prices
  <2>3. Prices(r) = (sl.far \ moved) \union {base + i : i \in shifted}
    BY <1>9 DEF Prices
  <2>4. QED
    BY <2>1, <2>2, <2>3
<1>12. Consistent(r)
  <2>1. r.bits \subseteq Slot /\ Prices(r) \subseteq Nat \ {0}
    BY <1>5, <1>9, <1>11 DEF Consistent
  <2>2. \A i \in Slot : r.slots[i] = IF i \in r.bits THEN r.base + i ELSE NoLevel
    BY <1>3, <1>6, <1>9
  <2>3. r.count = Cardinality(r.bits)
    BY <1>8, <1>9
  <2>4. \A q \in r.far : ~InWindow(r, q)
    BY <1>1, <1>4, <1>9 DEF InWindow
  <2>5. QED
    BY <2>1, <2>2, <2>3, <2>4 DEF Consistent
<1>13. InWindow(r, p)
  BY <1>1, <1>4, <1>9 DEF InWindow
<1>14. p \in sl.far => r.count # 0
  BY <1>4, <1>7, <1>9
<1>15. QED
  BY <1>9, <1>10, <1>11, <1>12, <1>13, <1>14

\* A record that is a side is the side of its fields.
LEMMA SideType ==
  ASSUME NEW n \in Nat, NEW sl \in SideUpTo(n)
  PROVE  /\ sl.side \in {"bid", "ask"} /\ sl.base \in Int /\ sl.slots \in [Slot -> 0..n]
         /\ sl.bits \in SUBSET Slot /\ sl.count \in Nat /\ sl.far \in SUBSET (1..n)
         /\ sl.best \in 0..n
         /\ Window \in Nat \ {0} /\ IsFiniteSet(sl.bits)
<1>1. Window \in Nat \ {0}
  BY WindowAssumption
<1>2. 0 \in Int /\ Window - 1 \in Int
  BY <1>1
<1>3. IsFiniteSet(Slot)
  BY <1>2, FS_Interval DEF Slot
<1>4. sl.bits \in SUBSET Slot
  BY DEF SideUpTo
<1>5. IsFiniteSet(sl.bits)
  BY <1>3, <1>4, FS_Subset
<1>6. QED
  BY <1>1, <1>4, <1>5 DEF SideUpTo

\* A level put in adds its price and nothing else.
LEMMA PlaceCorrect ==
  ASSUME NEW n \in Nat, NEW sl \in SideUpTo(n), Consistent(sl),
         NEW p \in 1..n, p \notin Prices(sl)
  PROVE  LET r == Place(sl, p)
         IN  /\ r \in SideUpTo(n) /\ Consistent(r)
             /\ Prices(r) = Prices(sl) \union {p} /\ r.best = sl.best /\ r.side = sl.side
             /\ r.count = 0 => ~InWindow(sl, p) /\ sl.count = 0
<1> DEFINE i == p - sl.base
           r == Place(sl, p)
<1>1. /\ sl.side \in {"bid", "ask"} /\ sl.base \in Int /\ sl.slots \in [Slot -> 0..n]
      /\ sl.bits \in SUBSET Slot /\ sl.count \in Nat /\ sl.far \in SUBSET (1..n)
      /\ sl.best \in 0..n
      /\ Window \in Nat \ {0} /\ IsFiniteSet(sl.bits)
  BY SideType
<1>2. CASE InWindow(sl, p)
  <2>1. i \in Slot /\ i \notin sl.bits /\ sl.base + i = p
    BY <1>1, <1>2, PricesFacts
  <2>2. r = [sl EXCEPT !.slots[i] = p, !.bits = @ \union {i}, !.count = @ + 1]
    BY <1>2 DEF Place
  <2> HIDE DEF i, r
  <2>3. /\ r.side = sl.side /\ r.base = sl.base /\ r.far = sl.far /\ r.best = sl.best
        /\ r.slots = [sl.slots EXCEPT ![i] = p]
        /\ r.bits = sl.bits \union {i} /\ r.count = sl.count + 1
        /\ r \in SideUpTo(n)
    <3>1. sl.count + 1 \in Nat /\ sl.bits \union {i} \in SUBSET Slot /\ p \in 0..n
      BY <1>1, <2>1
    <3>2. [sl.slots EXCEPT ![i] = p] \in [Slot -> 0..n]
      BY <1>1, <2>1, <3>1
    <3>3. /\ r.side = sl.side /\ r.base = sl.base /\ r.far = sl.far /\ r.best = sl.best
          /\ r.slots = [sl.slots EXCEPT ![i] = p]
          /\ r.bits = sl.bits \union {i} /\ r.count = sl.count + 1
          /\ r = [side |-> r.side, base |-> r.base, slots |-> r.slots, bits |-> r.bits,
                  count |-> r.count, far |-> r.far, best |-> r.best]
      BY <2>2 DEF SideUpTo
    <3>4. QED
      BY <1>1, <3>1, <3>2, <3>3 DEF SideUpTo
  <2>4. Prices(r) = Prices(sl) \union {p}
    <3>1. {sl.base + k : k \in sl.bits \union {i}} = {sl.base + k : k \in sl.bits} \union {p}
      BY <2>1
    <3>2. QED
      BY <2>3, <3>1 DEF Prices
  <2>5. r.count = Cardinality(r.bits)
    <3>1. Cardinality(sl.bits \union {i}) = Cardinality(sl.bits) + 1
      BY <1>1, <2>1, FS_AddElement
    <3>2. QED
      BY <2>3, <3>1 DEF Consistent
  <2>6. \A k \in Slot : r.slots[k] = IF k \in r.bits THEN r.base + k ELSE NoLevel
    <3>1. \A k \in Slot : sl.slots[k] = IF k \in sl.bits THEN sl.base + k ELSE NoLevel
      BY DEF Consistent
    <3>2. QED
      BY <1>1, <2>1, <2>3, <3>1
  <2>7. Prices(r) \subseteq Nat \ {0}
    BY <2>4 DEF Consistent
  <2>8. \A q \in r.far : ~InWindow(r, q)
    BY <2>3 DEF Consistent, InWindow
  <2>9. Consistent(r)
    BY <1>1, <2>1, <2>3, <2>5, <2>6, <2>7, <2>8 DEF Consistent
  <2>10. r.count # 0
    BY <1>1, <2>3
  <2>11. QED
    BY <2>3, <2>4, <2>9, <2>10 DEF r
<1>3. CASE ~InWindow(sl, p)
  <2>1. r = [sl EXCEPT !.far = @ \union {p}]
    BY <1>3 DEF Place
  <2> HIDE DEF r
  <2>2. /\ r.side = sl.side /\ r.base = sl.base /\ r.best = sl.best /\ r.slots = sl.slots
        /\ r.bits = sl.bits /\ r.count = sl.count /\ r.far = sl.far \union {p}
        /\ r \in SideUpTo(n)
    BY <1>1, <2>1 DEF SideUpTo
  <2>3. Prices(r) = Prices(sl) \union {p}
    BY <2>2 DEF Prices
  <2>4. \A q \in r.far : ~InWindow(r, q)
    BY <1>3, <2>2 DEF Consistent, InWindow
  <2>5. Consistent(r)
    BY <2>2, <2>3, <2>4 DEF Consistent
  <2>6. QED
    BY <1>3, <2>2, <2>3, <2>5 DEF r
<1>4. QED
  BY <1>2, <1>3

\* A level taken out removes its price and nothing else.
LEMMA TakeOutCorrect ==
  ASSUME NEW n \in Nat, NEW sl \in SideUpTo(n), Consistent(sl), NEW p \in Prices(sl)
  PROVE  LET r == TakeOut(sl, p)
         IN  /\ r \in SideUpTo(n) /\ Consistent(r)
             /\ Prices(r) = Prices(sl) \ {p} /\ r.best = sl.best /\ r.side = sl.side
<1> DEFINE i == p - sl.base
           r == TakeOut(sl, p)
<1>1. /\ sl.side \in {"bid", "ask"} /\ sl.base \in Int /\ sl.slots \in [Slot -> 0..n]
      /\ sl.bits \in SUBSET Slot /\ sl.count \in Nat /\ sl.far \in SUBSET (1..n)
      /\ sl.best \in 0..n
      /\ Window \in Nat \ {0} /\ IsFiniteSet(sl.bits)
  BY SideType
<1>2. p \in 1..n
  BY PricesFacts
<1>3. CASE InWindow(sl, p)
  <2>1. i \in Slot /\ i \in sl.bits /\ sl.base + i = p
    BY <1>1, <1>2, <1>3, PricesFacts
  <2>2. r = [sl EXCEPT !.slots[i] = NoLevel, !.bits = @ \ {i}, !.count = @ - 1]
    BY <1>3 DEF TakeOut
  <2>3. \A k \in sl.bits : sl.base + k = p => k = i
    BY <1>1 DEF Slot
  <2> HIDE DEF i, r
  <2>4. /\ sl.count = Cardinality(sl.bits) /\ Cardinality(sl.bits \ {i}) = sl.count - 1
        /\ sl.count - 1 \in Nat
    <3>1. IsFiniteSet(sl.bits \ {i}) /\ Cardinality(sl.bits \ {i}) = Cardinality(sl.bits) - 1
      BY <1>1, <2>1, FS_RemoveElement
    <3>2. Cardinality(sl.bits \ {i}) \in Nat
      BY <3>1, FS_CardinalityType
    <3>3. QED
      BY <3>1, <3>2 DEF Consistent
  <2>5. /\ r.side = sl.side /\ r.base = sl.base /\ r.far = sl.far /\ r.best = sl.best
        /\ r.slots = [sl.slots EXCEPT ![i] = NoLevel]
        /\ r.bits = sl.bits \ {i} /\ r.count = sl.count - 1
        /\ r \in SideUpTo(n)
    <3>1. sl.bits \ {i} \in SUBSET Slot /\ NoLevel \in 0..n
      BY <1>1 DEF NoLevel
    <3>2. [sl.slots EXCEPT ![i] = NoLevel] \in [Slot -> 0..n]
      BY <1>1, <2>1, <3>1
    <3>3. /\ r.side = sl.side /\ r.base = sl.base /\ r.far = sl.far /\ r.best = sl.best
          /\ r.slots = [sl.slots EXCEPT ![i] = NoLevel]
          /\ r.bits = sl.bits \ {i} /\ r.count = sl.count - 1
          /\ r = [side |-> r.side, base |-> r.base, slots |-> r.slots, bits |-> r.bits,
                  count |-> r.count, far |-> r.far, best |-> r.best]
      BY <2>2 DEF SideUpTo
    <3>4. QED
      BY <1>1, <2>4, <3>1, <3>2, <3>3 DEF SideUpTo
  <2>6. p \notin sl.far
    BY <1>3 DEF Consistent
  <2>7. Prices(r) = Prices(sl) \ {p}
    <3>1. {sl.base + k : k \in sl.bits \ {i}} = {sl.base + k : k \in sl.bits} \ {p}
      BY <2>1, <2>3
    <3>2. QED
      BY <2>5, <2>6, <3>1 DEF Prices
  <2>8. \A k \in Slot : r.slots[k] = IF k \in r.bits THEN r.base + k ELSE NoLevel
    <3>1. \A k \in Slot : sl.slots[k] = IF k \in sl.bits THEN sl.base + k ELSE NoLevel
      BY DEF Consistent
    <3>2. QED
      BY <1>1, <2>1, <2>5, <3>1
  <2>9. \A q \in r.far : ~InWindow(r, q)
    BY <2>5 DEF Consistent, InWindow
  <2>10. Prices(r) \subseteq Nat \ {0} /\ r.bits \subseteq Slot
    BY <1>1, <2>5, <2>7 DEF Consistent
  <2>11. Consistent(r)
    BY <2>4, <2>5, <2>8, <2>9, <2>10 DEF Consistent
  <2>12. QED
    BY <2>5, <2>7, <2>11 DEF r
<1>4. CASE ~InWindow(sl, p)
  <2>1. p \in sl.far
    BY <1>2, <1>4, PricesFacts
  <2>2. LowerBound(sl, p) = {p}
    BY <1>1, <1>2, <2>1 DEF LowerBound
  <2>3. r = [sl EXCEPT !.far = @ \ {p}]
    BY <1>4, <2>2 DEF TakeOut
  <2> HIDE DEF r
  <2>4. /\ r.side = sl.side /\ r.base = sl.base /\ r.best = sl.best /\ r.slots = sl.slots
        /\ r.bits = sl.bits /\ r.count = sl.count /\ r.far = sl.far \ {p}
        /\ r \in SideUpTo(n)
    BY <1>1, <2>3 DEF SideUpTo
  <2>5. \A k \in sl.bits : sl.base + k # p
    BY <1>1, <1>4 DEF InWindow, Slot
  <2>6. Prices(r) = Prices(sl) \ {p}
    BY <2>4, <2>5 DEF Prices
  <2>7. \A q \in r.far : ~InWindow(r, q)
    BY <2>4 DEF Consistent, InWindow
  <2>8. Consistent(r)
    BY <2>4, <2>6, <2>7 DEF Consistent
  <2>9. QED
    BY <2>4, <2>6, <2>8 DEF r
<1>5. QED
  BY <1>3, <1>4

\* No price is better than itself, and of two the one or the other is better.
LEMMA BetterOrder ==
  ASSUME NEW n \in Nat, NEW sl \in SideUpTo(n)
  PROVE  /\ \A p \in Int : ~Better(sl, p, p)
         /\ \A p, q \in Int : p # q => Better(sl, p, q) \/ Better(sl, q, p)
         /\ \A p, q, r \in Int : Better(sl, p, q) /\ Better(sl, q, r) => Better(sl, p, r)
BY SideType DEF Better

\* The best of the remaining levels is found, whether it is in the window
\* before or after the level that went, or outside.
LEMMA ScanBestCorrect ==
  ASSUME NEW n \in Nat, NEW sl \in SideUpTo(n), Consistent(sl), NEW p \in 1..n,
         \A q \in Prices(sl) : Better(sl, p, q)
  PROVE  IF Prices(sl) = {} THEN ScanBest(sl, p) = NoLevel
         ELSE IsBest(sl, ScanBest(sl, p))
<1> DEFINE f       == FirstIndex(sl)
           onward  == IF sl.side = "bid" THEN PrevBit(sl, p - sl.base)
                      ELSE NextBit(sl, p - sl.base)
           i       == IF InWindow(sl, p) /\ onward >= 0 THEN onward ELSE f
           near    == IF sl.count = 0 \/ i < 0 THEN NoLevel ELSE sl.slots[i]
           far     == FarBest(sl)
<1>1. /\ sl.side \in {"bid", "ask"} /\ sl.base \in Int /\ sl.bits \in SUBSET Slot
      /\ sl.far \in SUBSET (1..n) /\ IsFiniteSet(sl.bits)
      /\ \A k \in Slot : k \in Int /\ k >= 0
  BY SideType DEF Slot
<1>2. sl.count = 0 <=> sl.bits = {}
  BY <1>1, FS_EmptySet DEF Consistent
<1>3. \A k \in sl.bits : sl.base + k \in Prices(sl) /\ sl.slots[k] = sl.base + k
  BY <1>1 DEF Prices, Consistent
<1>4. Prices(sl) \subseteq 1..n /\ sl.far \subseteq Prices(sl)
  BY PricesFacts DEF Prices
<1>5. ASSUME sl.bits # {}
      PROVE  /\ i \in sl.bits
             /\ \A c \in sl.bits \ {i} : Better(sl, sl.base + i, sl.base + c)
  <2>1. f \in sl.bits /\ \A c \in sl.bits \ {f} : Better(sl, sl.base + f, sl.base + c)
    BY <1>5, FirstIndexFacts
  <2>2. CASE InWindow(sl, p) /\ onward >= 0
    <3>1. p - sl.base \in Slot
      BY <2>2, PricesFacts
    <3>2. CASE sl.side = "bid"
      <4>1. onward = PrevBit(sl, p - sl.base)
        BY <3>2
      <4> HIDE DEF onward
      <4>2. onward \in sl.bits /\ \A c \in sl.bits : c <= p - sl.base => c <= onward
        BY <2>2, <3>1, <4>1, PrevBitFacts
      <4>3. \A c \in sl.bits : p > sl.base + c
        BY <1>3, <3>2 DEF Better
      <4>4. \A c \in sl.bits \ {onward} : sl.base + onward > sl.base + c
        BY <1>1, <4>2, <4>3
      <4>5. QED
        BY <2>2, <3>2, <4>2, <4>4 DEF Better
    <3>3. CASE sl.side = "ask"
      <4>1. onward = NextBit(sl, p - sl.base)
        BY <3>3
      <4> HIDE DEF onward
      <4>2. onward \in sl.bits /\ \A c \in sl.bits : c >= p - sl.base => onward <= c
        BY <2>2, <3>1, <4>1, NextBitFacts
      <4>3. \A c \in sl.bits : p < sl.base + c
        BY <1>3, <3>3 DEF Better
      <4>4. \A c \in sl.bits \ {onward} : sl.base + onward < sl.base + c
        BY <1>1, <4>2, <4>3
      <4>5. QED
        BY <2>2, <3>3, <4>2, <4>4 DEF Better
    <3>4. QED
      BY <1>1, <3>2, <3>3
  <2>3. CASE ~(InWindow(sl, p) /\ onward >= 0)
    BY <2>1, <2>3
  <2>4. QED
    BY <2>2, <2>3
<1>6. ScanBest(sl, p) = IF near = NoLevel THEN far
                        ELSE IF far = NoLevel \/ Better(sl, near, far) THEN near ELSE far
  BY DEF ScanBest
<1>7. IF sl.far = {} THEN far = NoLevel
      ELSE far \in sl.far /\ \A q \in sl.far \ {far} : Better(sl, far, q)
  BY FarBestFacts
<1>8. IF sl.bits = {} THEN near = NoLevel
      ELSE /\ near \in Prices(sl) /\ near \notin sl.far
           /\ \A c \in sl.bits : sl.base + c # near => Better(sl, near, sl.base + c)
  <2>1. CASE sl.bits = {}
    BY <1>2, <2>1
  <2>2. CASE sl.bits # {}
    <3>1. i \in sl.bits /\ \A c \in sl.bits \ {i} : Better(sl, sl.base + i, sl.base + c)
      BY <1>5, <2>2
    <3> HIDE DEF i
    <3>2. near = sl.base + i
      BY <1>1, <1>2, <1>3, <2>2, <3>1
    <3>3. InWindow(sl, sl.base + i)
      BY <1>1, <3>1, SideType DEF InWindow, Slot
    <3>4. near \notin sl.far
      BY <3>2, <3>3 DEF Consistent
    <3>5. QED
      BY <1>3, <2>2, <3>1, <3>2, <3>4
  <2>3. QED
    BY <2>1, <2>2
<1> DEFINE best == ScanBest(sl, p)
<1> HIDE DEF near, far, best, i, f, onward
<1>9. Prices(sl) = sl.far \union {sl.base + c : c \in sl.bits}
  BY DEF Prices
<1>10. CASE sl.bits = {} /\ sl.far = {}
  <2>1. Prices(sl) = {}
    BY <1>9, <1>10
  <2>2. QED
    BY <1>6, <1>7, <1>8, <1>10, <2>1
<1>11. CASE sl.bits = {} /\ sl.far # {}
  BY <1>4, <1>6, <1>7, <1>8, <1>9, <1>11 DEF IsBest, NoLevel
<1>12. CASE sl.bits # {} /\ sl.far = {}
  <2>1. near \in Prices(sl) /\ near # NoLevel /\ ScanBest(sl, p) = near
    BY <1>4, <1>6, <1>7, <1>8, <1>12 DEF NoLevel
  <2>2. \A q \in Prices(sl) \ {near} : Better(sl, near, q)
    BY <1>8, <1>9, <1>12
  <2>3. QED
    BY <2>1, <2>2 DEF IsBest
<1>13. CASE sl.bits # {} /\ sl.far # {}
  <2>1. near \in Prices(sl) /\ far \in Prices(sl) /\ near # far
    BY <1>4, <1>7, <1>8, <1>13
  <2>2. near \in 1..n /\ far \in 1..n
    BY <1>4, <2>1
  <2>3. near \in Int /\ far \in Int /\ near # NoLevel /\ far # NoLevel
    BY <2>2 DEF NoLevel
  <2>4. ASSUME NEW q \in Prices(sl)
        PROVE  q \in Int /\ (q = near \/ Better(sl, near, q) \/ q = far \/ Better(sl, far, q))
    <3>1. q \in Int
      BY <1>4
    <3>2. CASE q \in sl.far
      BY <1>7, <1>13, <3>1, <3>2
    <3>3. CASE q \notin sl.far
      <4>1. PICK c \in sl.bits : q = sl.base + c
        BY <1>9, <3>3
      <4>2. QED
        BY <1>8, <1>13, <3>1, <4>1
    <3>4. QED
      BY <3>2, <3>3
  <2>5. CASE Better(sl, near, far)
    <3>1. ScanBest(sl, p) = near
      BY <1>6, <2>3, <2>5
    <3>2. \A q \in Prices(sl) \ {near} : Better(sl, near, q)
      BY <2>3, <2>4, <2>5, BetterOrder
    <3>3. QED
      BY <2>1, <3>1, <3>2 DEF IsBest
  <2>6. CASE ~Better(sl, near, far)
    <3>1. ScanBest(sl, p) = far
      BY <1>6, <2>3, <2>6
    <3>2. Better(sl, far, near)
      BY <2>1, <2>3, <2>6, BetterOrder
    <3>3. \A q \in Prices(sl) \ {far} : Better(sl, far, q)
      BY <2>3, <2>4, <3>2, BetterOrder
    <3>4. QED
      BY <2>1, <3>1, <3>3 DEF IsBest
  <2>7. QED
    BY <2>5, <2>6
<1>14. QED
  BY <1>10, <1>11, <1>12, <1>13

\* insert: a new level gets its price and the side stays well-formed.
LEMMA InsertCorrect ==
  ASSUME NEW n \in Nat, NEW sl \in SideUpTo(n), WellFormed(sl),
         NEW p \in 1..n, p \notin Prices(sl)
  PROVE  LET r == Insert(sl, p)
         IN  /\ r \in SideUpTo(n) /\ WellFormed(r) /\ r.side = sl.side
             /\ Prices(r) = Prices(sl) \union {p}
<1> DEFINE at     == IF ~InWindow(sl, p) /\ sl.count = 0 THEN Recentre(sl, p) ELSE sl
           placed == Place(at, p)
           r      == Insert(sl, p)
<1>1. /\ at \in SideUpTo(n) /\ Consistent(at) /\ Prices(at) = Prices(sl)
      /\ at.best = sl.best /\ at.side = sl.side
      /\ at.count = 0 => InWindow(at, p)
  <2>1. CASE ~InWindow(sl, p) /\ sl.count = 0
    <3>1. at = Recentre(sl, p)
      BY <2>1
    <3> HIDE DEF at
    <3>2. QED
      BY <2>1, <3>1, RecentreCorrect DEF WellFormed
  <2>2. CASE ~(~InWindow(sl, p) /\ sl.count = 0)
    <3>1. at = sl
      BY <2>2
    <3> HIDE DEF at
    <3>2. QED
      BY <2>2, <3>1 DEF WellFormed
  <2>3. QED
    BY <2>1, <2>2
<1>2. r = IF sl.best = NoLevel \/ Better(sl, p, sl.best) THEN [placed EXCEPT !.best = p]
          ELSE placed
  BY DEF Insert
<1> HIDE DEF at
<1>3. /\ placed \in SideUpTo(n) /\ Consistent(placed)
      /\ Prices(placed) = Prices(sl) \union {p} /\ placed.best = sl.best
      /\ placed.side = sl.side /\ placed.count # 0
  BY <1>1, PlaceCorrect
<1> HIDE DEF placed, r
<1>4. /\ r \in SideUpTo(n) /\ r.side = placed.side /\ r.base = placed.base
      /\ r.slots = placed.slots /\ r.bits = placed.bits /\ r.count = placed.count
      /\ r.far = placed.far
      /\ r.best = IF sl.best = NoLevel \/ Better(sl, p, sl.best) THEN p ELSE sl.best
  <2>1. p \in 0..n
    OBVIOUS
  <2>2. QED
    BY <1>2, <1>3, <2>1 DEF SideUpTo
<1>5. Prices(r) = Prices(sl) \union {p}
  BY <1>3, <1>4 DEF Prices
<1>6. Consistent(r)
  BY <1>3, <1>4 DEF Consistent, Prices, InWindow
<1>7. BestIsBest(r)
  <2>1. Prices(sl) \subseteq 1..n
    BY PricesFacts DEF WellFormed
  <2>2. \A a, b : Better(r, a, b) <=> Better(sl, a, b)
    BY <1>3, <1>4 DEF Better
  <2>3. CASE Prices(sl) = {}
    <3>1. sl.best = NoLevel
      BY <2>3 DEF WellFormed, BestIsBest
    <3>2. QED
      BY <1>4, <1>5, <2>3, <3>1 DEF BestIsBest, IsBest
  <2>4. CASE Prices(sl) # {}
    <3>1. sl.best \in Prices(sl) /\ \A q \in Prices(sl) \ {sl.best} : Better(sl, sl.best, q)
      BY <2>4 DEF WellFormed, BestIsBest, IsBest
    <3>2. sl.best # NoLevel /\ sl.best \in Int /\ sl.best # p
      BY <2>1, <3>1 DEF NoLevel
    <3>3. \A q \in Prices(sl) : q \in Int
      BY <2>1
    <3>4. CASE Better(sl, p, sl.best)
      <4>1. \A q \in Prices(sl) : Better(sl, p, q)
        BY <3>1, <3>2, <3>3, <3>4, BetterOrder
      <4>2. QED
        BY <1>4, <1>5, <2>2, <3>4, <4>1 DEF BestIsBest, IsBest
    <3>5. CASE ~Better(sl, p, sl.best)
      <4>1. Better(sl, sl.best, p)
        BY <3>2, <3>5, BetterOrder
      <4>2. QED
        BY <1>4, <1>5, <2>2, <3>1, <3>2, <3>5, <4>1 DEF BestIsBest, IsBest
    <3>6. QED
      BY <3>4, <3>5
  <2>5. QED
    BY <2>3, <2>4
<1>8. QED
  BY <1>3, <1>4, <1>5, <1>6, <1>7 DEF WellFormed, r

\* erase: a level that goes takes its price along, the best of the others is the
\* new best one, and the window moves to it when nothing is left in the window.
LEMMA EraseCorrect ==
  ASSUME NEW n \in Nat, NEW sl \in SideUpTo(n), WellFormed(sl), NEW p \in Prices(sl)
  PROVE  LET r == Erase(sl, p)
         IN  /\ r \in SideUpTo(n) /\ WellFormed(r) /\ r.side = sl.side
             /\ Prices(r) = Prices(sl) \ {p}
<1> DEFINE out  == TakeOut(sl, p)
           scan == ScanBest(out, p)
           kept == IF sl.best = p THEN [out EXCEPT !.best = scan] ELSE out
           r    == Erase(sl, p)
<1>1. Consistent(sl) /\ p \in 1..n /\ Prices(sl) \subseteq 1..n
  BY PricesFacts DEF WellFormed
<1>2. sl.best \in Prices(sl) /\ \A q \in Prices(sl) \ {sl.best} : Better(sl, sl.best, q)
  BY DEF WellFormed, BestIsBest, IsBest
<1>3. /\ out \in SideUpTo(n) /\ Consistent(out)
      /\ Prices(out) = Prices(sl) \ {p} /\ out.best = sl.best /\ out.side = sl.side
  BY <1>1, TakeOutCorrect
<1>4. r = IF kept.count = 0 /\ kept.far # {} THEN Recentre(kept, kept.best) ELSE kept
  BY DEF Erase
<1> HIDE DEF out, r
<1>5. \A a, b : Better(out, a, b) <=> Better(sl, a, b)
  BY <1>3 DEF Better
<1>6. sl.best = p => IF Prices(out) = {} THEN scan = NoLevel ELSE IsBest(out, scan)
  <2>1. SUFFICES ASSUME sl.best = p
                 PROVE  IF Prices(out) = {} THEN scan = NoLevel ELSE IsBest(out, scan)
    OBVIOUS
  <2>2. \A q \in Prices(out) : Better(out, p, q)
    BY <1>2, <1>3, <1>5, <2>1
  <2>3. QED
    BY <1>1, <1>3, <2>2, ScanBestCorrect
<1>7. scan \in 0..n \/ sl.best # p
  <2>1. Prices(out) \subseteq 1..n
    BY <1>1, <1>3
  <2>2. QED
    BY <1>6, <2>1 DEF IsBest, NoLevel
<1> HIDE DEF scan
<1>8. /\ kept \in SideUpTo(n) /\ kept.side = out.side /\ kept.base = out.base
      /\ kept.slots = out.slots /\ kept.bits = out.bits /\ kept.count = out.count
      /\ kept.far = out.far /\ kept.best = IF sl.best = p THEN scan ELSE sl.best
  BY <1>3, <1>7 DEF SideUpTo
<1> HIDE DEF kept
<1>9. Prices(kept) = Prices(sl) \ {p} /\ Consistent(kept)
  BY <1>3, <1>8 DEF Consistent, Prices, InWindow
<1>10. BestIsBest(kept)
  <2>1. \A a, b : Better(kept, a, b) <=> Better(sl, a, b)
    BY <1>3, <1>8 DEF Better
  <2>2. CASE sl.best = p
    BY <1>3, <1>5, <1>6, <1>8, <1>9, <2>1, <2>2 DEF BestIsBest, IsBest
  <2>3. CASE sl.best # p
    BY <1>2, <1>8, <1>9, <2>1, <2>3 DEF BestIsBest, IsBest
  <2>4. QED
    BY <2>2, <2>3
<1>11. CASE kept.count = 0 /\ kept.far # {}
  <2>1. IsFiniteSet(kept.bits)
    BY <1>8, SideType
  <2>2. kept.bits = {}
    BY <1>9, <1>11, <2>1, FS_EmptySet DEF Consistent
  <2>3. Prices(kept) = kept.far
    BY <2>2 DEF Prices
  <2>4. kept.best \in kept.far /\ kept.best \in 1..n
    BY <1>1, <1>9, <1>10, <1>11, <2>3 DEF BestIsBest, IsBest
  <2>5. r = Recentre(kept, kept.best)
    BY <1>4, <1>11
  <2>6. /\ r \in SideUpTo(n) /\ Consistent(r) /\ Prices(r) = Prices(kept)
        /\ r.best = kept.best /\ r.side = kept.side /\ r.count # 0
    BY <1>8, <1>9, <1>11, <2>4, <2>5, RecentreCorrect
  <2>7. BestIsBest(r)
    BY <1>10, <2>6 DEF BestIsBest, IsBest, Better
  <2>8. QED
    BY <1>3, <1>8, <1>9, <2>6, <2>7 DEF WellFormed, r
<1>12. CASE ~(kept.count = 0 /\ kept.far # {})
  <2>1. r = kept
    BY <1>4, <1>12
  <2>2. QED
    BY <1>3, <1>8, <1>9, <1>10, <1>12, <2>1 DEF WellFormed, r
<1>13. QED
  BY <1>11, <1>12

-----------------------------------------------------------------------------
(***************************************************************************)
(* What depth shows.                                                       *)
(***************************************************************************)

\* The levels of a side not shown yet.
Unshown(sl, v) ==
  v.far \union {sl.base + b : b \in {b \in sl.bits : /\ v.next # -1
                                                     /\ \/ b = v.next
                                                        \/ Better(sl, sl.base + v.next, sl.base + b)}}

Views(sl) == [shown : Seq(Nat), next : -1..(Window - 1), far : SUBSET sl.far]

\* After k rounds: what is shown is sorted and better than what is not, nothing is
\* lost, and each round showed a level while there were any.
ShownWell(sl, v, k) ==
  /\ v \in Views(sl) /\ v.next \in sl.bits \union {-1}
  /\ Range(v.shown) \union Unshown(sl, v) = Prices(sl)
  /\ \A i, j \in DOMAIN v.shown : i < j => Better(sl, v.shown[i], v.shown[j])
  /\ \A i \in DOMAIN v.shown : \A q \in Unshown(sl, v) : Better(sl, v.shown[i], q)
  /\ Unshown(sl, v) # {} => Len(v.shown) = k

\* The next slot holds the next best level of the window.
LEMMA NextIndexFacts ==
  ASSUME NEW n \in Nat, NEW sl \in SideUpTo(n), NEW i \in sl.bits
  PROVE  LET b == NextIndex(sl, i)
         IN  /\ b \in sl.bits \union {-1}
             /\ b \in -1..(Window - 1)
             /\ b = -1 => \A c \in sl.bits : ~Better(sl, sl.base + i, sl.base + c)
             /\ b # -1 => \A c \in sl.bits : Better(sl, sl.base + i, sl.base + c)
                            <=> c = b \/ Better(sl, sl.base + b, sl.base + c)
<1>1. /\ sl.side \in {"bid", "ask"} /\ sl.base \in Int /\ sl.bits \subseteq Slot
      /\ Window \in Nat \ {0} /\ i \in Slot
  BY SideType
<1>2. \A c \in Slot : c \in Int /\ 0 <= c /\ c <= Window - 1
  BY <1>1 DEF Slot
<1>3. PICK b : b = NextIndex(sl, i)
  OBVIOUS
<1>4. CASE sl.side = "bid"
  <2>1. \A p, q : Better(sl, p, q) <=> p > q
    BY <1>4 DEF Better
  <2>2. CASE i = 0
    <3>1. b = -1
      BY <1>3, <1>4, <2>2 DEF NextIndex
    <3>2. ASSUME NEW c \in sl.bits
          PROVE  ~Better(sl, sl.base + i, sl.base + c)
      <4>1. c \in Int /\ i \in Int /\ sl.base \in Int /\ c >= i
        BY <1>1, <1>2, <2>2
      <4>2. QED
        BY <2>1, <4>1
    <3>3. QED
      BY <1>1, <1>3, <3>1, <3>2
  <2>3. CASE i # 0
    <3>1. i - 1 \in Slot
      BY <1>1, <1>2, <2>3 DEF Slot
    <3>2. b = PrevBit(sl, i - 1)
      BY <1>3, <1>4, <2>3 DEF NextIndex
    <3>3. PICK h : h = i - 1
      OBVIOUS
    <3>4. \/ b = -1 /\ \A c \in sl.bits : c > h
          \/ b \in sl.bits /\ b <= h /\ \A c \in sl.bits : c <= h => c <= b
      BY <3>1, <3>2, <3>3, PrevBitFacts
    <3>5. CASE b = -1 /\ \A c \in sl.bits : c > h
      BY <1>1, <1>2, <1>3, <2>1, <3>3, <3>5
    <3>6. CASE b \in sl.bits /\ b <= h /\ \A c \in sl.bits : c <= h => c <= b
      <4>1. b \in Slot /\ b \in Int /\ b # -1 /\ b \in -1..(Window - 1) /\ b < i
        BY <1>1, <1>2, <3>3, <3>6
      <4>2. ASSUME NEW c \in sl.bits
            PROVE  sl.base + i > sl.base + c <=> c = b \/ sl.base + b > sl.base + c
        <5>1. c \in Int /\ i \in Int /\ b \in Int /\ sl.base \in Int
          BY <1>1, <1>2, <4>1
        <5>2. i > c <=> c = b \/ b > c
          BY <3>3, <3>6, <4>1, <5>1
        <5>3. QED
          BY <5>1, <5>2
      <4>3. QED
        BY <1>3, <2>1, <3>6, <4>1, <4>2
    <3>7. QED
      BY <3>4, <3>5, <3>6
  <2>4. QED
    BY <2>2, <2>3
<1>5. CASE sl.side = "ask"
  <2>1. \A p, q : Better(sl, p, q) <=> p < q
    BY <1>5 DEF Better
  <2>2. CASE i + 1 >= Window
    <3>1. b = -1
      BY <1>3, <1>5, <2>2 DEF NextIndex
    <3>2. ASSUME NEW c \in sl.bits
          PROVE  ~Better(sl, sl.base + i, sl.base + c)
      <4>1. c \in Int /\ i \in Int /\ sl.base \in Int /\ c <= i
        BY <1>1, <1>2, <2>2
      <4>2. QED
        BY <2>1, <4>1
    <3>3. QED
      BY <1>1, <1>3, <3>1, <3>2
  <2>3. CASE ~(i + 1 >= Window)
    <3>1. i + 1 \in Slot
      BY <1>1, <1>2, <2>3 DEF Slot
    <3>2. b = NextBit(sl, i + 1)
      BY <1>3, <1>5, <2>3 DEF NextIndex
    <3>3. PICK h : h = i + 1
      OBVIOUS
    <3>4. \/ b = -1 /\ \A c \in sl.bits : c < h
          \/ b \in sl.bits /\ b >= h /\ \A c \in sl.bits : c >= h => b <= c
      BY <3>1, <3>2, <3>3, NextBitFacts
    <3>5. CASE b = -1 /\ \A c \in sl.bits : c < h
      BY <1>1, <1>2, <1>3, <2>1, <3>3, <3>5
    <3>6. CASE b \in sl.bits /\ b >= h /\ \A c \in sl.bits : c >= h => b <= c
      <4>1. b \in Slot /\ b \in Int /\ b # -1 /\ b \in -1..(Window - 1) /\ b > i
        BY <1>1, <1>2, <3>3, <3>6
      <4>2. ASSUME NEW c \in sl.bits
            PROVE  sl.base + i < sl.base + c <=> c = b \/ sl.base + b < sl.base + c
        <5>1. c \in Int /\ i \in Int /\ b \in Int /\ sl.base \in Int
          BY <1>1, <1>2, <4>1
        <5>2. i < c <=> c = b \/ b < c
          BY <3>3, <3>6, <4>1, <5>1
        <5>3. QED
          BY <5>1, <5>2
      <4>3. QED
        BY <1>3, <2>1, <3>6, <4>1, <4>2
    <3>7. QED
      BY <3>4, <3>5, <3>6
  <2>4. QED
    BY <2>2, <2>3
<1>6. QED
  BY <1>1, <1>4, <1>5

\* Showing the best of the levels not shown yet keeps the view right.
LEMMA ShowOne ==
  ASSUME NEW n \in Nat, NEW sl \in SideUpTo(n), Consistent(sl), NEW k \in Nat, NEW v, ShownWell(sl, v, k),
         NEW w \in Views(sl), w.next \in sl.bits \union {-1}, NEW x \in Unshown(sl, v),
         \A q \in Unshown(sl, v) \ {x} : Better(sl, x, q),
         w.shown = Append(v.shown, x), Unshown(sl, w) = Unshown(sl, v) \ {x}
  PROVE  ShownWell(sl, w, k + 1)
<1>1. PICK s, t, U : s = v.shown /\ t = w.shown /\ U = Unshown(sl, v)
  OBVIOUS
<1>2. /\ s \in Seq(Nat) /\ t = Append(s, x) /\ x \in U /\ U # {}
      /\ Range(s) \union U = Prices(sl) /\ Len(s) = k
      /\ \A i, j \in DOMAIN s : i < j => Better(sl, s[i], s[j])
      /\ \A i \in DOMAIN s : \A q \in U : Better(sl, s[i], q)
      /\ \A q \in U \ {x} : Better(sl, x, q)
  BY <1>1 DEF ShownWell, Views
<1>3. x \in Nat
  <2>1. x \in Prices(sl)
    BY <1>2
  <2>2. QED
    BY <2>1, PricesFacts
<1>4. /\ DOMAIN s = 1..k /\ DOMAIN t = 1..(k + 1) /\ Len(t) = k + 1 /\ t[k + 1] = x
      /\ \A i \in 1..k : t[i] = s[i]
      /\ \A i \in 1..(k + 1) : i = k + 1 \/ i \in 1..k
  BY <1>2, <1>3
<1>5. Range(t) = Range(s) \union {x}
  <2>1. \A y : y \in Range(t) <=> \E i \in 1..(k + 1) : t[i] = y
    BY <1>4 DEF Range
  <2>2. \A y : y \in Range(s) <=> \E i \in 1..k : s[i] = y
    BY <1>4 DEF Range
  <2>3. k + 1 \in 1..(k + 1) /\ \A i \in 1..k : i \in 1..(k + 1)
    OBVIOUS
  <2>4. \A y : y \in Range(t) <=> y \in Range(s) \union {x}
    BY <1>4, <2>1, <2>2, <2>3
  <2>5. QED
    BY <2>4
<1>6. \A i, j \in 1..(k + 1) : i < j => Better(sl, t[i], t[j])
  <2>1. SUFFICES ASSUME NEW i \in 1..(k + 1), NEW j \in 1..(k + 1), i < j
                 PROVE  Better(sl, t[i], t[j])
    OBVIOUS
  <2>2. i \in 1..k
    BY <2>1
  <2>3. QED
    BY <1>2, <1>4, <2>1, <2>2
<1>7. \A i \in 1..(k + 1) : \A q \in U \ {x} : Better(sl, t[i], q)
  BY <1>2, <1>4
<1>8. Range(t) \union (U \ {x}) = Prices(sl)
  BY <1>2, <1>5
<1>9. QED
  BY <1>1, <1>4, <1>6, <1>7, <1>8 DEF ShownWell

\* A round of visit shows the best of them, in the window or outside.
LEMMA VisitOneShows ==
  ASSUME NEW n \in Nat, NEW sl \in SideUpTo(n), Consistent(sl), NEW k \in Nat, NEW v, ShownWell(sl, v, k)
  PROVE  ShownWell(sl, VisitOne(sl, v), k + 1)
<1>1. /\ sl.side \in {"bid", "ask"} /\ sl.base \in Int /\ sl.slots \in [Slot -> 0..n]
      /\ sl.bits \subseteq Slot /\ sl.far \in SUBSET (1..n) /\ Window \in Nat \ {0}
      /\ \A c \in Slot : c \in Int /\ 0 <= c /\ c <= Window - 1
  BY SideType DEF Slot
<1>2. /\ Prices(sl) \subseteq 1..n
      /\ \A c \in sl.bits : sl.slots[c] = sl.base + c /\ sl.base + c \in Prices(sl)
      /\ \A p \in sl.far : \A c \in sl.bits : p # sl.base + c
  <2>1. Prices(sl) \subseteq 1..n
    BY PricesFacts
  <2>2. \A c \in sl.bits : sl.slots[c] = sl.base + c /\ sl.base + c \in Prices(sl)
    BY <1>1 DEF Consistent, Prices
  <2>3. ASSUME NEW p \in sl.far, NEW c \in sl.bits, p = sl.base + c
        PROVE  FALSE
    <3>1. c \in Int /\ 0 <= c /\ c < Window
      BY <1>1
    <3>2. InWindow(sl, p)
      BY <1>1, <2>3, <3>1 DEF InWindow
    <3>3. QED
      BY <3>2 DEF Consistent
  <2>4. QED
    BY <2>1, <2>2, <2>3
<1>3. PICK shown, next, far : shown = v.shown /\ next = v.next /\ far = v.far
  OBVIOUS
<1>4. /\ shown \in Seq(Nat) /\ next \in sl.bits \union {-1} /\ far \in SUBSET sl.far
      /\ v = [shown |-> shown, next |-> next, far |-> far] /\ next \in -1..(Window - 1)
  BY <1>3 DEF ShownWell, Views
<1>5. PICK rest, near : rest = FarBest([sl EXCEPT !.far = far])
                        /\ near = IF next >= 0 THEN sl.slots[next] ELSE NoLevel
  OBVIOUS
<1>6. VisitOne(sl, v)
      = IF next < 0 /\ far = {} THEN v
        ELSE IF near # NoLevel /\ (rest = NoLevel \/ Better(sl, near, rest))
        THEN [v EXCEPT !.shown = Append(@, near), !.next = NextIndex(sl, @)]
        ELSE [v EXCEPT !.shown = Append(@, rest), !.far = @ \ {rest}]
  BY <1>3, <1>5 DEF VisitOne
<1>7. IF far = {} THEN rest = NoLevel
      ELSE rest \in far /\ \A q \in far \ {rest} : Better(sl, rest, q)
  <2>1. PICK sf : sf = [sl EXCEPT !.far = far]
    OBVIOUS
  <2>2. sf \in SideUpTo(n) /\ sf.far = far /\ sf.side = sl.side
    BY <1>1, <1>4, <2>1 DEF SideUpTo
  <2>3. IF sf.far = {} THEN FarBest(sf) = NoLevel
        ELSE FarBest(sf) \in sf.far /\ \A q \in sf.far \ {FarBest(sf)} : Better(sf, FarBest(sf), q)
    BY <2>2, FarBestFacts
  <2>4. \A p, q : Better(sf, p, q) <=> Better(sl, p, q)
    BY <2>2 DEF Better
  <2>5. QED
    BY <1>5, <2>1, <2>2, <2>3, <2>4
<1>8. /\ next # -1 => next \in sl.bits /\ next >= 0 /\ near = sl.base + next
                      /\ near \in 1..n /\ near # NoLevel
      /\ next = -1 => next < 0 /\ near = NoLevel
  <2>1. CASE next = -1
    BY <1>5, <2>1
  <2>2. CASE next # -1
    <3>1. next \in sl.bits /\ next >= 0
      BY <1>1, <1>4, <2>2
    <3>2. near = sl.base + next /\ near \in 1..n
      BY <1>2, <1>5, <3>1
    <3>3. QED
      BY <2>2, <3>1, <3>2 DEF NoLevel
  <2>3. QED
    BY <2>1, <2>2
<1>9. \A q : q \in Unshown(sl, v) <=>
        \/ q \in far
        \/ next # -1 /\ \E b \in sl.bits : q = sl.base + b
                                         /\ (b = next \/ Better(sl, near, q))
  BY <1>3, <1>8 DEF Unshown
<1>10. /\ \A p \in Int : ~Better(sl, p, p)
       /\ \A p, q \in Int : p # q => Better(sl, p, q) \/ Better(sl, q, p)
       /\ \A p, q, r \in Int : Better(sl, p, q) /\ Better(sl, q, r) => Better(sl, p, r)
  BY BetterOrder
<1>11. far \subseteq 1..n /\ \A q \in far : q \in Int /\ q # NoLevel
  BY <1>1, <1>4 DEF NoLevel
<1>12. \A b \in sl.bits : sl.base + b \in Int
  BY <1>1
<1>13. CASE next < 0 /\ far = {}
  <2>0. next = -1
    BY <1>4, <1>8, <1>13
  <2>1. Unshown(sl, v) = {}
    BY <1>9, <1>13, <2>0
  <2>2. VisitOne(sl, v) = v
    BY <1>6, <1>13
  <2>3. QED
    BY <2>1, <2>2 DEF ShownWell
<1>14. CASE ~(next < 0 /\ far = {}) /\ near # NoLevel /\ (rest = NoLevel \/ Better(sl, near, rest))
  <2>1. PICK b : b = NextIndex(sl, next)
    OBVIOUS
  <2>2. PICK w : w = [shown |-> Append(shown, near), next |-> b, far |-> far]
    OBVIOUS
  <2>3. VisitOne(sl, v) = w
    BY <1>4, <1>6, <1>14, <2>1, <2>2
  <2>4. next # -1 /\ next \in sl.bits /\ near = sl.base + next /\ near \in 1..n
    BY <1>8, <1>14
  <2>5. /\ b \in sl.bits \union {-1} /\ b \in -1..(Window - 1)
        /\ b = -1 => \A c \in sl.bits : ~Better(sl, near, sl.base + c)
        /\ b # -1 => \A c \in sl.bits : Better(sl, near, sl.base + c)
                       <=> c = b \/ Better(sl, sl.base + b, sl.base + c)
    BY <2>1, <2>4, NextIndexFacts
  <2>6. near \in Unshown(sl, v)
    BY <1>9, <2>4
  <2>7. \A q \in far : Better(sl, near, q)
    <3>1. SUFFICES ASSUME NEW q \in far PROVE Better(sl, near, q)
      OBVIOUS
    <3>2. rest \in far /\ rest \in Int /\ q \in Int /\ near \in Int /\ Better(sl, near, rest)
      <4>1. rest \in far
        BY <1>7, <3>1
      <4>2. rest \in Int /\ rest # NoLevel /\ q \in Int
        BY <1>11, <3>1, <4>1
      <4>3. QED
        BY <1>14, <2>4, <4>1, <4>2
    <3>3. CASE q = rest
      BY <3>2, <3>3
    <3>4. CASE q # rest
      <4>1. Better(sl, rest, q)
        BY <1>7, <3>1, <3>4
      <4>2. QED
        BY <1>10, <3>2, <4>1
    <3>5. QED
      BY <3>3, <3>4
  <2>8. \A q \in Unshown(sl, v) \ {near} : Better(sl, near, q)
    BY <1>9, <2>4, <2>7
  <2>9. \A q : q \in Unshown(sl, w) <=>
          \/ q \in far
          \/ b # -1 /\ \E c \in sl.bits : q = sl.base + c
                                        /\ (c = b \/ Better(sl, sl.base + b, q))
    BY <2>2 DEF Unshown
  <2>10. ~Better(sl, near, near) /\ near \notin far
    BY <1>2, <1>4, <1>10, <2>4
  <2>11. Unshown(sl, w) = Unshown(sl, v) \ {near}
    <3>1. ASSUME NEW q
          PROVE  q \in Unshown(sl, w) <=> q \in far \/ \E c \in sl.bits : q = sl.base + c
                                                                    /\ Better(sl, near, q)
      BY <2>5, <2>9
    <3>2. ASSUME NEW q
          PROVE  q \in Unshown(sl, v) /\ q # near
                 <=> q \in far \/ \E c \in sl.bits : q = sl.base + c /\ Better(sl, near, q)
      BY <1>9, <2>4, <2>10
    <3>3. QED
      BY <3>1, <3>2
  <2>12. w \in Views(sl) /\ w.shown = Append(v.shown, near) /\ w.next \in sl.bits \union {-1}
    <3>1. Append(shown, near) \in Seq(Nat)
      BY <1>4, <2>4
    <3>2. QED
      BY <1>3, <1>4, <2>2, <2>5, <3>1 DEF Views
  <2>13. ShownWell(sl, w, k + 1)
    BY <2>6, <2>8, <2>11, <2>12, ShowOne
  <2>14. QED
    BY <2>3, <2>13
<1>15. CASE ~(next < 0 /\ far = {}) /\ ~(near # NoLevel /\ (rest = NoLevel \/ Better(sl, near, rest)))
  <2>1. PICK w : w = [shown |-> Append(shown, rest), next |-> next, far |-> far \ {rest}]
    OBVIOUS
  <2>2. VisitOne(sl, v) = w
    BY <1>4, <1>6, <1>15, <2>1
  <2>3. far # {} /\ rest \in far /\ rest \in Int /\ rest # NoLevel /\ rest \in 1..n
    BY <1>7, <1>8, <1>11, <1>15
  <2>4. next # -1 => near \in Int /\ Better(sl, rest, near)
    <3>1. SUFFICES ASSUME next # -1 PROVE near \in Int /\ Better(sl, rest, near)
      OBVIOUS
    <3>2. near = sl.base + next /\ next \in sl.bits /\ near \in Int /\ ~Better(sl, near, rest)
      BY <1>8, <1>15, <3>1
    <3>3. near # rest
      BY <1>2, <1>4, <2>3, <3>2
    <3>4. QED
      BY <1>10, <2>3, <3>2, <3>3
  <2>5. rest \in Unshown(sl, v)
    BY <1>9, <2>3
  <2>6. \A q \in Unshown(sl, v) \ {rest} : Better(sl, rest, q)
    <3>1. SUFFICES ASSUME NEW q \in Unshown(sl, v), q # rest PROVE Better(sl, rest, q)
      OBVIOUS
    <3>2. CASE q \in far
      BY <1>7, <2>3, <3>1, <3>2
    <3>3. CASE q \notin far
      <4>1. PICK c \in sl.bits : q = sl.base + c /\ (c = next \/ Better(sl, near, q))
        BY <1>9, <3>3
      <4>2. next # -1 /\ near = sl.base + next /\ q \in Int
        BY <1>8, <1>9, <1>12, <3>3, <4>1
      <4>3. CASE c = next
        BY <2>4, <4>1, <4>2, <4>3
      <4>4. CASE Better(sl, near, q)
        BY <1>10, <2>3, <2>4, <4>2, <4>4
      <4>5. QED
        BY <4>1, <4>3, <4>4
    <3>4. QED
      BY <3>2, <3>3
  <2>7. \A q : q \in Unshown(sl, w) <=>
          \/ q \in far \ {rest}
          \/ next # -1 /\ \E c \in sl.bits : q = sl.base + c
                                           /\ (c = next \/ Better(sl, near, q))
    BY <1>8, <2>1 DEF Unshown
  <2>8. \A c \in sl.bits : rest # sl.base + c
    BY <1>2, <1>4, <2>3
  <2>9. Unshown(sl, w) = Unshown(sl, v) \ {rest}
    BY <1>9, <2>7, <2>8
  <2>10. w \in Views(sl) /\ w.shown = Append(v.shown, rest) /\ w.next \in sl.bits \union {-1}
    <3>1. Append(shown, rest) \in Seq(Nat)
      BY <1>4, <2>3
    <3>2. QED
      BY <1>3, <1>4, <2>1, <3>1 DEF Views
  <2>11. ShownWell(sl, w, k + 1)
    BY <2>5, <2>6, <2>9, <2>10, ShowOne
  <2>12. QED
    BY <2>2, <2>11
<1>16. QED
  BY <1>13, <1>14, <1>15

\* Before the first round everything is still to come.
LEMMA VisitStartShows ==
  ASSUME NEW n \in Nat, NEW sl \in SideUpTo(n), Consistent(sl)
  PROVE  ShownWell(sl, VisitStart(sl), 0)
<1>1. PICK v : v = VisitStart(sl)
  OBVIOUS
<1>2. /\ v.shown = <<>> /\ v.far = sl.far
      /\ v.next = (IF sl.count = 0 THEN -1 ELSE FirstIndex(sl))
      /\ v = [shown |-> <<>>, next |-> v.next, far |-> sl.far]
  BY <1>1 DEF VisitStart
<1>3. sl.count = Cardinality(sl.bits) /\ IsFiniteSet(sl.bits) /\ Window \in Nat \ {0}
      /\ sl.bits \subseteq Slot
  BY SideType DEF Consistent
<1>4. sl.count = 0 <=> sl.bits = {}
  BY <1>3, FS_EmptySet
<1>5. \A b \in sl.bits : b # -1 /\ b \in -1..(Window - 1)
  BY <1>3 DEF Slot
<1>6. v.next \in sl.bits \union {-1} /\ v.next \in -1..(Window - 1)
      /\ (v.next = -1 <=> sl.bits = {})
  <2>1. CASE sl.bits = {}
    BY <1>2, <1>3, <1>4, <2>1
  <2>2. CASE sl.bits # {}
    <3>1. v.next \in sl.bits
      BY <1>2, <1>4, <2>2, FirstIndexFacts
    <3>2. QED
      BY <1>5, <2>2, <3>1
  <2>3. QED
    BY <2>1, <2>2
<1>7. Unshown(sl, v) = Prices(sl)
  <2>1. CASE sl.bits = {}
    BY <1>2, <2>1 DEF Unshown, Prices
  <2>2. CASE sl.bits # {}
    <3>1. /\ v.next = FirstIndex(sl) /\ v.next # -1
          /\ \A c \in sl.bits : c = v.next \/ Better(sl, sl.base + v.next, sl.base + c)
      BY <1>2, <1>4, <1>6, <2>2, FirstIndexFacts
    <3>2. QED
      BY <1>2, <3>1 DEF Unshown, Prices
  <2>3. QED
    BY <2>1, <2>2
<1>8. v \in Views(sl)
  <2>1. PICK i \in -1..(Window - 1) : i = v.next
    BY <1>6
  <2>2. PICK s, far : s = <<>> /\ far = sl.far
    OBVIOUS
  <2>3. s \in Seq(Nat) /\ far \in SUBSET sl.far
    BY <2>2, EmptySeq
  <2>4. v = [shown |-> s, next |-> i, far |-> far]
    BY <1>2, <2>1, <2>2
  <2>5. QED
    BY <2>3, <2>4 DEF Views
<1>9. DOMAIN <<>> = {} /\ Range(<<>>) = {} /\ Len(<<>>) = 0
  BY DEF Range
<1>10. ShownWell(sl, v, 0)
  BY <1>2, <1>6, <1>7, <1>8, <1>9 DEF ShownWell
<1>11. QED
  BY <1>1, <1>10

\* The rounds of visit as a function.
Rounds(sl, m, f) == \A k \in 0..m : f[k] = IF k = 0 THEN VisitStart(sl) ELSE VisitOne(sl, f[k - 1])

\* A number of rounds from the start, as visit takes them, is such a function.
LEMMA VisitRounds ==
  ASSUME NEW n \in Nat, NEW sl \in SideUpTo(n), Consistent(sl), NEW m \in Nat
  PROVE  \E f : Rounds(sl, m, f) /\ Visit(sl, m) = f[m].shown
<1> DEFINE A == {v \in Views(sl) : \E k \in Nat : ShownWell(sl, v, k)}
           step == [v \in A |-> VisitOne(sl, v)]
           Iter(f) == f = [k \in 0..m |-> IF k = 0 THEN VisitStart(sl) ELSE VisitOne(sl, f[k - 1])]
           after == CHOOSE f : Iter(f)
<1>1. VisitStart(sl) \in A
  <2>1. ShownWell(sl, VisitStart(sl), 0) /\ 0 \in Nat
    BY VisitStartShows
  <2>2. VisitStart(sl) \in Views(sl)
    BY <2>1 DEF ShownWell
  <2>3. QED
    BY <2>1, <2>2
<1>2. step \in [A -> A]
  <2>1. ASSUME NEW v \in A
        PROVE  VisitOne(sl, v) \in A
    <3>1. PICK k \in Nat : ShownWell(sl, v, k)
      OBVIOUS
    <3>2. ShownWell(sl, VisitOne(sl, v), k + 1) /\ k + 1 \in Nat
      BY <3>1, VisitOneShows
    <3>3. VisitOne(sl, v) \in Views(sl)
      BY <3>2 DEF ShownWell
    <3>4. QED
      BY <3>2, <3>3
  <2> HIDE DEF A
  <2>2. QED
    BY <2>1
<1>3. \A v \in A : step[v] = VisitOne(sl, v)
  OBVIOUS
<1> HIDE DEF A, step
<1>4. PICK f \in [0..m -> A] : \A k \in 0..m : f[k] = IF k = 0 THEN VisitStart(sl) ELSE step[f[k - 1]]
  <2>1. PICK base, A0, g : base = VisitStart(sl) /\ A0 = A /\ g = step
    OBVIOUS
  <2>2. base \in A0 /\ g \in [A0 -> A0]
    BY <1>1, <1>2, <2>1
  <2>3. m \in Nat
    OBVIOUS
  <2>4. \E f \in [0..m -> A0] : Steps(f, m, base, g)
    BY <2>2, <2>3, StepsExist
  <2>5. QED
    BY <2>1, <2>4 DEF Steps
<1>5. \A k \in 0..m : k # 0 => f[k - 1] \in A
  OBVIOUS
<1>6. \A k \in 0..m : f[k] = IF k = 0 THEN VisitStart(sl) ELSE VisitOne(sl, f[k - 1])
  BY <1>3, <1>4, <1>5
<1>7. Iter(f)
  BY <1>6
<1>8. Iter(after)
  BY <1>7
<1>9. Visit(sl, m) = after[m].shown
  BY DEF Visit
<1> HIDE DEF after
<1>10. Rounds(sl, m, after)
  BY <1>8 DEF Rounds
<1>11. QED
  BY <1>9, <1>10

\* visit shows the prices of a side best first, all of them if asked for enough.
LEMMA VisitCorrect ==
  ASSUME NEW n \in Nat, NEW sl \in SideUpTo(n), Consistent(sl), NEW m \in Nat,
         Cardinality(Prices(sl)) < m
  PROVE  LET shown == Visit(sl, m)
         IN  /\ Range(shown) = Prices(sl)
             /\ \A i, j \in DOMAIN shown : i < j => Better(sl, shown[i], shown[j])
<1>1. PICK f : Rounds(sl, m, f) /\ Visit(sl, m) = f[m].shown
  BY VisitRounds
<1> DEFINE T == {k \in Nat : k <= m => ShownWell(sl, f[k], k)}
<1>2. 0 \in T
  <2>1. f[0] = VisitStart(sl)
    BY <1>1 DEF Rounds
  <2>2. ShownWell(sl, f[0], 0)
    BY <2>1, VisitStartShows
  <2>3. QED
    BY <2>2
<1>3. ASSUME NEW k \in T
      PROVE  k + 1 \in T
  <2>1. SUFFICES ASSUME k + 1 <= m
                 PROVE  ShownWell(sl, f[k + 1], k + 1)
    OBVIOUS
  <2>2. k \in Nat /\ ShownWell(sl, f[k], k)
    BY <2>1
  <2>3. f[k + 1] = VisitOne(sl, f[k])
    <3>1. k + 1 \in 0..m /\ k + 1 # 0 /\ (k + 1) - 1 = k
      BY <2>1, <2>2
    <3>2. QED
      BY <1>1, <3>1 DEF Rounds
  <2>4. QED
    BY <2>2, <2>3, VisitOneShows
<1>4. T \in SUBSET Nat
  OBVIOUS
<1>5. T = Nat
  <2> HIDE DEF T
  <2>1. QED
    BY <1>2, <1>3, <1>4, Induction
<1>6. ShownWell(sl, f[m], m)
  BY <1>5
<1>7. PICK s, U : s = Visit(sl, m) /\ U = Unshown(sl, f[m])
  OBVIOUS
<1>8. /\ s \in Seq(Nat) /\ Range(s) \union U = Prices(sl) /\ (U # {} => Len(s) = m)
      /\ \A i, j \in DOMAIN s : i < j => Better(sl, s[i], s[j])
  BY <1>1, <1>6, <1>7 DEF ShownWell, Views
<1>9. U = {}
  <2>1. SUFFICES ASSUME U # {} PROVE FALSE
    OBVIOUS
  <2>2. DOMAIN s = 1..m /\ s \in [1..m -> Prices(sl)]
    <3>1. Len(s) = m /\ DOMAIN s = 1..m /\ \A i \in 1..m : s[i] \in Range(s)
      BY <1>8, <2>1 DEF Range
    <3>2. QED
      BY <1>8, <3>1
  <2>3. \A p \in Int : ~Better(sl, p, p)
    BY BetterOrder
  <2>4. ASSUME NEW i \in 1..m, NEW j \in 1..m, s[i] = s[j]
        PROVE  i = j
    <3>1. s[i] \in Int /\ ~Better(sl, s[i], s[j]) /\ ~Better(sl, s[j], s[i])
      BY <1>8, <2>2, <2>3, <2>4
    <3>2. ~(i < j) /\ ~(j < i)
      BY <1>8, <2>2, <3>1
    <3>3. QED
      BY <3>2
  <2>5. s \in Injection(1..m, Prices(sl))
    BY <2>2, <2>4 DEF Injection, IsInjective
  <2>6. IsFiniteSet(Prices(sl))
    <3>1. Prices(sl) \subseteq 1..n
      BY PricesFacts
    <3>2. QED
      BY <3>1, FS_Interval, FS_Subset
  <2>7. Cardinality(1..m) <= Cardinality(Prices(sl))
    BY <2>5, <2>6, FS_Injection
  <2>8. Cardinality(1..m) = m
    BY FS_Interval
  <2>9. Cardinality(Prices(sl)) \in Nat
    BY <2>6, FS_CardinalityType
  <2>10. QED
    BY <2>7, <2>8, <2>9
<1>10. QED
  BY <1>7, <1>8, <1>9

-----------------------------------------------------------------------------
(* Bitmap.                                                                 *)

\* A place is its word and its bit.
LEMMA PlaceOfSlot ==
  ASSUME NEW i \in Nat
  PROVE  WordOf(i) \in Nat /\ BitOf(i) \in 0..(WordBits - 1) /\ i = WordOf(i) * WordBits + BitOf(i)
  BY BitmapAssumption DEF WordOf, BitOf

\* Places are in the order of their words, in one word in that of their bits.
LEMMA PlaceOrder ==
  ASSUME NEW v \in Nat, NEW a \in 0..(WordBits - 1), NEW w \in Nat, NEW b \in 0..(WordBits - 1)
  PROVE  /\ v * WordBits + a \in Nat
         /\ v < w => v * WordBits + a < w * WordBits + b
         /\ v = w /\ a <= b => v * WordBits + a <= w * WordBits + b
         /\ v * WordBits + a <= w * WordBits + b => v < w \/ (v = w /\ a <= b)
         /\ v * WordBits + a = w * WordBits + b => v = w /\ a = b
<1>1. v * WordBits \in Nat /\ w * WordBits \in Nat /\ WordBits \in Nat \ {0}
  BY BitmapAssumption
<1>2. ASSUME NEW x \in Nat, NEW y \in Nat, x < y
      PROVE  x * WordBits + WordBits <= y * WordBits
  <2>1. PICK d \in Nat : y = x + 1 + d
    <3>1. y - x - 1 \in Nat /\ y = x + 1 + (y - x - 1)
      BY <1>2
    <3>2. QED
      BY <3>1
  <2>2. y * WordBits = x * WordBits + WordBits + d * WordBits
    BY <1>1, <2>1
  <2>3. d * WordBits \in Nat /\ x * WordBits \in Nat
    BY <1>1
  <2>4. QED
    BY <1>1, <2>2, <2>3
<1>3. v < w => v * WordBits + WordBits <= w * WordBits
  BY <1>2
<1>4. w < v => w * WordBits + WordBits <= v * WordBits
  BY <1>2
<1>5. v * WordBits + a \in Nat
  BY <1>1
<1>6. v < w => v * WordBits + a < w * WordBits + b
  BY <1>1, <1>3
<1>7. w < v => w * WordBits + b < v * WordBits + a
  BY <1>1, <1>4
<1>8. v = w => (v * WordBits + a <= w * WordBits + b <=> a <= b)
  BY <1>1
<1>9. QED
  BY <1>1, <1>5, <1>6, <1>7, <1>8

\* The place with a word and a bit.
LEMMA SlotOfPlace ==
  ASSUME NEW w \in Nat, NEW b \in 0..(WordBits - 1)
  PROVE  w * WordBits + b \in Nat /\ WordOf(w * WordBits + b) = w /\ BitOf(w * WordBits + b) = b
<1>1. w * WordBits + b \in Nat
  BY PlaceOrder
<1>2. PICK i \in Nat : i = w * WordBits + b
  BY <1>1
<1>3. WordOf(i) \in Nat /\ BitOf(i) \in 0..(WordBits - 1) /\ i = WordOf(i) * WordBits + BitOf(i)
  BY PlaceOfSlot
<1>4. \A v \in Nat, a \in 0..(WordBits - 1) :
        v * WordBits + a = w * WordBits + b => v = w /\ a = b
  BY PlaceOrder
<1>5. WordOf(i) = w /\ BitOf(i) = b
  BY <1>2, <1>3, <1>4
<1>6. QED
  BY <1>1, <1>2, <1>5

\* A word and a bit are those of one place.
LEMMA SamePlace ==
  ASSUME NEW w \in Nat, NEW b \in 0..(WordBits - 1), NEW i \in Nat
  PROVE  w * WordBits + b = i <=> w = WordOf(i) /\ b = BitOf(i)
  BY SlotOfPlace, PlaceOfSlot

\* There are words for all places.
LEMMA EnoughWords ==
  ASSUME NEW n \in Nat \ {0}
  PROVE  WordsFor(n) \in Nat \ {0} /\ \A i \in 0..(n - 1) : WordOf(i) \in 0..(WordsFor(n) - 1)
<1>1. n + WordBits - 1 \in Nat /\ n + WordBits - 1 >= WordBits
  BY BitmapAssumption
<1>2. WordsFor(n) = WordOf(n + WordBits - 1)
  BY DEF WordsFor, WordOf
<1>3. SUFFICES ASSUME NEW i \in 0..(n - 1) PROVE WordOf(i) + 1 <= WordsFor(n) /\ WordsFor(n) \in Nat
  <2>1. 0 \in 0..(n - 1) /\ WordOf(0) \in Nat
    BY PlaceOfSlot
  <2>2. \A i \in 0..(n - 1) : WordOf(i) \in Nat
    BY PlaceOfSlot
  <2>3. QED
    BY <1>3, <2>1, <2>2
<1>4. i + WordBits \in Nat /\ i + WordBits <= n + WordBits - 1 /\ i \in Nat
  BY BitmapAssumption
<1>5. WordOf(i) \in Nat /\ BitOf(i) \in 0..(WordBits - 1) /\ i = WordOf(i) * WordBits + BitOf(i)
  BY <1>4, PlaceOfSlot
<1>6. i + WordBits = (WordOf(i) + 1) * WordBits + BitOf(i)
  BY <1>5, BitmapAssumption
<1>7. PICK j \in Nat : j = n + WordBits - 1
  BY <1>1
<1>8. WordOf(j) \in Nat /\ BitOf(j) \in 0..(WordBits - 1) /\ j = WordOf(j) * WordBits + BitOf(j)
  BY PlaceOfSlot
<1>9. WordOf(i) + 1 \in Nat
  BY <1>5
<1>10. (WordOf(i) + 1) * WordBits + BitOf(i) <= WordOf(j) * WordBits + BitOf(j)
  BY <1>4, <1>6, <1>7, <1>8
<1>11. \A v \in Nat, w \in Nat, a \in 0..(WordBits - 1), b \in 0..(WordBits - 1) :
         v * WordBits + a <= w * WordBits + b => v < w \/ (v = w /\ a <= b)
  BY PlaceOrder
<1>12. WordOf(i) + 1 < WordOf(j) \/ WordOf(i) + 1 = WordOf(j)
  BY <1>5, <1>8, <1>9, <1>10, <1>11
<1>13. QED
  BY <1>2, <1>5, <1>7, <1>8, <1>12

-----------------------------------------------------------------------------

\* Words of the two levels, and what they say of the places set.
BitmapTypeOK ==
  /\ l0 \in [0..(Words - 1) -> Word] /\ l1 \in [0..(WordsFor(Words) - 1) -> Word]
  /\ members \in SUBSET BitSlot

BitsExact ==
  \A w \in 0..(Words - 1), b \in 0..(WordBits - 1) : b \in l0[w] <=> w * WordBits + b \in members

SummaryHolds ==
  \A s \in 0..(WordsFor(Words) - 1), b \in 0..(WordBits - 1) :
    b \in l1[s] <=> s * WordBits + b \in 0..(Words - 1) /\ l0[s * WordBits + b] # {}

BitmapInv == BitmapTypeOK /\ BitsExact /\ SummaryHolds

\* Where a place and its word have their bits.
LEMMA PlaceTypes ==
  /\ Words \in Nat \ {0} /\ WordsFor(Words) \in Nat \ {0}
  /\ \A i \in BitSlot : /\ WordOf(i) \in 0..(Words - 1) /\ BitOf(i) \in 0..(WordBits - 1)
                        /\ i = WordOf(i) * WordBits + BitOf(i)
  /\ \A w \in 0..(Words - 1) :
        /\ WordOf(w) \in 0..(WordsFor(Words) - 1) /\ BitOf(w) \in 0..(WordBits - 1)
        /\ w = WordOf(w) * WordBits + BitOf(w)
<1>1. Words \in Nat \ {0} /\ \A i \in BitSlot : WordOf(i) \in 0..(Words - 1)
  BY EnoughWords, BitmapAssumption DEF Words, BitSlot
<1>2. WordsFor(Words) \in Nat \ {0} /\ \A i \in 0..(Words - 1) : WordOf(i) \in 0..(WordsFor(Words) - 1)
  BY <1>1, EnoughWords
<1>3. \A i \in Nat : BitOf(i) \in 0..(WordBits - 1) /\ i = WordOf(i) * WordBits + BitOf(i)
  BY PlaceOfSlot
<1>4. BitSlot \in SUBSET Nat /\ 0..(Words - 1) \in SUBSET Nat
  BY <1>1, BitmapAssumption DEF BitSlot
<1>5. QED
  BY <1>1, <1>2, <1>3, <1>4

\* Nothing is set.
LEMMA EmptyBitmap ==
  ASSUME BitmapTypeOK', l0' = Zero(Words), l1' = Zero(WordsFor(Words)), members' = {}
  PROVE  BitmapInv'
<1>1. \A w \in 0..(Words - 1) : l0'[w] = {}
  BY DEF Zero
<1>2. \A w \in 0..(WordsFor(Words) - 1) : l1'[w] = {}
  BY DEF Zero
<1>3. QED
  BY <1>1, <1>2 DEF BitmapInv, BitsExact, SummaryHolds

\* The words of an empty bitmap.
LEMMA ZeroType ==
  ASSUME NEW n \in Nat
  PROVE  Zero(n) \in [0..(n - 1) -> Word]
  BY DEF Zero, Word

\* A new bitmap is empty.
LEMMA BitmapInvInit == BitmapInit => BitmapInv
<1>1. SUFFICES ASSUME BitmapInit PROVE BitmapInv
  OBVIOUS
<1>2. /\ \A w \in 0..(Words - 1) : l0[w] = {}
      /\ \A w \in 0..(WordsFor(Words) - 1) : l1[w] = {}
  BY <1>1 DEF BitmapInit, Zero
<1>3. BitmapTypeOK
  BY <1>1, ZeroType, PlaceTypes DEF BitmapInit, BitmapTypeOK
<1>4. QED
  BY <1>1, <1>2, <1>3 DEF BitmapInit, BitmapInv, BitsExact, SummaryHolds

\* One place changes; the words that are not its own stay.
LEMMA BitsAfter ==
  ASSUME BitmapInv, NEW i \in BitSlot, NEW on \in BOOLEAN,
         l0' = [l0 EXCEPT ![WordOf(i)] = IF on THEN @ \union {BitOf(i)} ELSE @ \ {BitOf(i)}],
         members' = IF on THEN members \union {i} ELSE members \ {i}
  PROVE  /\ l0' \in [0..(Words - 1) -> Word] /\ members' \in SUBSET BitSlot /\ BitsExact'
         /\ \A w \in 0..(Words - 1) : w # WordOf(i) => l0'[w] = l0[w]
<1>1. /\ WordOf(i) \in 0..(Words - 1) /\ BitOf(i) \in 0..(WordBits - 1)
      /\ i = WordOf(i) * WordBits + BitOf(i)
  BY PlaceTypes
<1>2. l0 \in [0..(Words - 1) -> Word] /\ members \in SUBSET BitSlot
  BY DEF BitmapInv, BitmapTypeOK
<1>3. /\ l0' \in [0..(Words - 1) -> Word]
      /\ \A w \in 0..(Words - 1) :
           l0'[w] = IF w = WordOf(i) THEN IF on THEN l0[w] \union {BitOf(i)} ELSE l0[w] \ {BitOf(i)} ELSE l0[w]
  BY <1>1, <1>2 DEF Word
<1>4. members' \in SUBSET BitSlot
  BY <1>2
<1>5. BitsExact'
  <2>1. SUFFICES ASSUME NEW w \in 0..(Words - 1), NEW b \in 0..(WordBits - 1)
                 PROVE  b \in l0'[w] <=> w * WordBits + b \in members'
    BY DEF BitsExact
  <2>2. b \in l0[w] <=> w * WordBits + b \in members
    BY DEF BitmapInv, BitsExact
  <2>3. w \in Nat /\ WordOf(i) \in Nat
    BY <1>1, PlaceTypes
  <2>4. w * WordBits + b = i <=> w = WordOf(i) /\ b = BitOf(i)
    BY <1>1, <2>3, PlaceOrder
  <2>5. QED
    BY <1>3, <2>2, <2>4
<1>6. QED
  BY <1>3, <1>4, <1>5

\* A place set is in the summary.
LEMMA SetKeeps ==
  ASSUME BitmapInv, NEW i \in BitSlot, Set(i)
  PROVE  BitmapInv'
<1>1. PICK w : w = WordOf(i)
  OBVIOUS
<1>2. /\ w \in 0..(Words - 1) /\ WordOf(w) \in 0..(WordsFor(Words) - 1) /\ BitOf(w) \in 0..(WordBits - 1)
      /\ w = WordOf(w) * WordBits + BitOf(w) /\ w \in Nat /\ WordOf(w) \in Nat
      /\ BitOf(i) \in 0..(WordBits - 1)
  BY <1>1, PlaceTypes
<1>3. /\ l0' \in [0..(Words - 1) -> Word] /\ members' \in SUBSET BitSlot /\ BitsExact'
      /\ \A v \in 0..(Words - 1) : v # w => l0'[v] = l0[v]
  BY <1>1, BitsAfter DEF Set
<1>4. l0'[w] # {}
  BY <1>1, <1>2 DEF Set, BitmapInv, BitmapTypeOK
<1>5. /\ l1' \in [0..(WordsFor(Words) - 1) -> Word]
      /\ \A s \in 0..(WordsFor(Words) - 1) :
           l1'[s] = IF s = WordOf(w) THEN l1[s] \union {BitOf(w)} ELSE l1[s]
  BY <1>1, <1>2 DEF Set, BitmapInv, BitmapTypeOK, Word
<1>6. SummaryHolds'
  <2>1. SUFFICES ASSUME NEW s \in 0..(WordsFor(Words) - 1), NEW b \in 0..(WordBits - 1)
                 PROVE  b \in l1'[s] <=> s * WordBits + b \in 0..(Words - 1) /\ l0'[s * WordBits + b] # {}
    BY DEF SummaryHolds
  <2>2. b \in l1[s] <=> s * WordBits + b \in 0..(Words - 1) /\ l0[s * WordBits + b] # {}
    BY DEF BitmapInv, SummaryHolds
  <2>3. s * WordBits + b = w <=> s = WordOf(w) /\ b = BitOf(w)
    BY <1>2, SamePlace, PlaceTypes
  <2>4. QED
    BY <1>2, <1>3, <1>4, <1>5, <2>2, <2>3
<1>7. QED
  BY <1>3, <1>5, <1>6 DEF BitmapInv, BitmapTypeOK

\* The summary forgets a word with its last bit.
LEMMA ClearKeeps ==
  ASSUME BitmapInv, NEW i \in BitSlot, Clear(i)
  PROVE  BitmapInv'
<1>1. PICK w : w = WordOf(i)
  OBVIOUS
<1>2. /\ w \in 0..(Words - 1) /\ WordOf(w) \in 0..(WordsFor(Words) - 1) /\ BitOf(w) \in 0..(WordBits - 1)
      /\ w = WordOf(w) * WordBits + BitOf(w) /\ w \in Nat /\ WordOf(w) \in Nat
      /\ BitOf(i) \in 0..(WordBits - 1)
  BY <1>1, PlaceTypes
<1>3. /\ l0' \in [0..(Words - 1) -> Word] /\ members' \in SUBSET BitSlot /\ BitsExact'
      /\ \A v \in 0..(Words - 1) : v # w => l0'[v] = l0[v]
  BY <1>1, BitsAfter DEF Clear
<1>4. /\ l1' \in [0..(WordsFor(Words) - 1) -> Word]
      /\ \A s \in 0..(WordsFor(Words) - 1) :
           l1'[s] = IF l0'[w] = {} /\ s = WordOf(w) THEN l1[s] \ {BitOf(w)} ELSE l1[s]
  BY <1>1, <1>2 DEF Clear, BitmapInv, BitmapTypeOK, Word
<1>5. l0'[w] # {} => l0[w] # {}
  BY <1>1, <1>2 DEF Clear, BitmapInv, BitmapTypeOK
<1>6. SummaryHolds'
  <2>1. SUFFICES ASSUME NEW s \in 0..(WordsFor(Words) - 1), NEW b \in 0..(WordBits - 1)
                 PROVE  b \in l1'[s] <=> s * WordBits + b \in 0..(Words - 1) /\ l0'[s * WordBits + b] # {}
    BY DEF SummaryHolds
  <2>2. b \in l1[s] <=> s * WordBits + b \in 0..(Words - 1) /\ l0[s * WordBits + b] # {}
    BY DEF BitmapInv, SummaryHolds
  <2>3. s * WordBits + b = w <=> s = WordOf(w) /\ b = BitOf(w)
    BY <1>2, SamePlace, PlaceTypes
  <2>4. QED
    BY <1>2, <1>3, <1>4, <1>5, <2>2, <2>3
<1>7. QED
  BY <1>3, <1>4, <1>6 DEF BitmapInv, BitmapTypeOK

\* Every call keeps both levels exact.
LEMMA BitmapInvNext == BitmapInv /\ [BitmapNext]_bitmapVars => BitmapInv'
<1>1. SUFFICES ASSUME BitmapInv, [BitmapNext]_bitmapVars PROVE BitmapInv'
  OBVIOUS
<1>2. CASE UNCHANGED bitmapVars
  BY <1>1, <1>2 DEF BitmapInv, BitmapTypeOK, BitsExact, SummaryHolds, bitmapVars
<1>3. CASE Reset
  <2>1. BitmapTypeOK'
    BY <1>3, ZeroType, PlaceTypes DEF Reset, BitmapTypeOK
  <2>2. QED
    BY <1>3, <2>1, EmptyBitmap DEF Reset
<1>4. QED
  BY <1>1, <1>2, <1>3, SetKeeps, ClearKeeps DEF BitmapNext

-----------------------------------------------------------------------------

\* The least and the greatest element of a set of words or of bits.
LEMMA LeastOf ==
  ASSUME NEW n \in Int, NEW T \in SUBSET (0..n), T # {}
  PROVE  Min(T) \in T /\ \A y \in T : Min(T) <= y
<1>1. \E m \in T : \A y \in T : m <= y
  BY LeastNatural
<1>2. QED
  BY <1>1 DEF Min

\* See LeastOf.
LEMMA GreatestOf ==
  ASSUME NEW n \in Int, NEW T \in SUBSET (0..n), T # {}
  PROVE  Max(T) \in T /\ \A y \in T : y <= Max(T)
<1> DEFINE U == {k \in 0..n : n - k \in T}
<1>1. PICK t \in T : TRUE
  OBVIOUS
<1>2. n - t \in U /\ U \in SUBSET Nat
  OBVIOUS
<1>3. PICK m \in U : \A k \in U : m <= k
  BY <1>2, LeastNatural
<1>4. n - m \in T /\ \A y \in T : y <= n - m
  <2>1. \A y \in T : n - y \in U
    OBVIOUS
  <2>2. QED
    BY <1>3, <2>1
<1>5. QED
  BY <1>4 DEF Max

\* What is the greatest element of a set is its maximum.
LEMMA IsMax ==
  ASSUME NEW T \in SUBSET Int, NEW m \in T, \A y \in T : y <= m
  PROVE  Max(T) = m
<1>1. Max(T) \in T /\ \A y \in T : Max(T) >= y
  <2>1. \E x \in T : \A y \in T : x >= y
    OBVIOUS
  <2>2. QED
    BY <2>1 DEF Max
<1>2. PICK x \in T : x = Max(T)
  BY <1>1
<1>3. x \in Int /\ m \in Int /\ x >= m /\ m >= x
  BY <1>1, <1>2
<1>4. QED
  BY <1>2, <1>3

\* See IsMax.
LEMMA IsMin ==
  ASSUME NEW T \in SUBSET Int, NEW m \in T, \A y \in T : m <= y
  PROVE  Min(T) = m
<1>1. Min(T) \in T /\ \A y \in T : Min(T) <= y
  <2>1. \E x \in T : \A y \in T : x <= y
    OBVIOUS
  <2>2. QED
    BY <2>1 DEF Min
<1>2. PICK x \in T : x = Min(T)
  BY <1>1
<1>3. x \in Int /\ m \in Int /\ x <= m /\ m <= x
  BY <1>1, <1>2
<1>4. QED
  BY <1>2, <1>3

\* A place set has its bit and its word's.
LEMMA MemberBits ==
  ASSUME BitmapInv, NEW m \in members
  PROVE  /\ m \in Nat /\ WordOf(m) \in 0..(Words - 1) /\ BitOf(m) \in l0[WordOf(m)]
         /\ WordOf(WordOf(m)) \in 0..(WordsFor(Words) - 1) /\ BitOf(WordOf(m)) \in l1[WordOf(WordOf(m))]
<1>1. m \in BitSlot /\ m \in Nat
  BY BitmapAssumption DEF BitmapInv, BitmapTypeOK, BitSlot
<1>2. /\ WordOf(m) \in 0..(Words - 1) /\ BitOf(m) \in 0..(WordBits - 1)
      /\ m = WordOf(m) * WordBits + BitOf(m)
  BY <1>1, PlaceTypes
<1>3. BitOf(m) \in l0[WordOf(m)]
  BY <1>2 DEF BitmapInv, BitsExact
<1>4. /\ WordOf(WordOf(m)) \in 0..(WordsFor(Words) - 1) /\ BitOf(WordOf(m)) \in 0..(WordBits - 1)
      /\ WordOf(m) = WordOf(WordOf(m)) * WordBits + BitOf(WordOf(m))
  BY <1>2, PlaceTypes
<1>5. BitOf(WordOf(m)) \in l1[WordOf(WordOf(m))]
  BY <1>2, <1>3, <1>4 DEF BitmapInv, SummaryHolds
<1>6. QED
  BY <1>1, <1>2, <1>3, <1>4, <1>5

\* A bit of a word is a place set.
LEMMA BitIsMember ==
  ASSUME BitmapInv, NEW w \in 0..(Words - 1), NEW b \in l0[w]
  PROVE  /\ b \in 0..(WordBits - 1) /\ w * WordBits + b \in members /\ w * WordBits + b \in Nat
         /\ WordOf(w * WordBits + b) = w /\ BitOf(w * WordBits + b) = b
<1>1. b \in 0..(WordBits - 1) /\ w \in Nat
  BY PlaceTypes DEF BitmapInv, BitmapTypeOK, Word
<1>2. QED
  BY <1>1, SlotOfPlace DEF BitmapInv, BitsExact

\* A bit of the summary is a word that is not zero.
LEMMA SummaryIsWord ==
  ASSUME BitmapInv, NEW s \in 0..(WordsFor(Words) - 1), NEW b \in l1[s]
  PROVE  /\ b \in 0..(WordBits - 1) /\ s * WordBits + b \in 0..(Words - 1) /\ l0[s * WordBits + b] # {}
         /\ WordOf(s * WordBits + b) = s /\ BitOf(s * WordBits + b) = b
<1>1. s \in Nat
  BY PlaceTypes
<1>2. l1[s] \in Word
  BY DEF BitmapInv, BitmapTypeOK
<1>3. b \in 0..(WordBits - 1)
  BY <1>2 DEF Word
<1>4. QED
  BY <1>1, <1>3, SlotOfPlace DEF BitmapInv, SummaryHolds

\* The order of places by word and bit.
LEMMA InOrder ==
  ASSUME NEW i \in Nat, NEW j \in Nat
  PROVE  i <= j <=> WordOf(i) < WordOf(j) \/ (WordOf(i) = WordOf(j) /\ BitOf(i) <= BitOf(j))
<1>1. /\ WordOf(i) \in Nat /\ BitOf(i) \in 0..(WordBits - 1) /\ i = WordOf(i) * WordBits + BitOf(i)
      /\ WordOf(j) \in Nat /\ BitOf(j) \in 0..(WordBits - 1) /\ j = WordOf(j) * WordBits + BitOf(j)
  BY PlaceOfSlot
<1>2. QED
  BY <1>1, PlaceOrder
-----------------------------------------------------------------------------

\* The search downwards, as PrevSet has it: the bits of i's own word, then the words
\* of the summary from that of the word before.
PrevPart(i, s) ==
  IF s = WordOf(WordOf(i) - 1) THEN {b \in l1[s] : b <= BitOf(WordOf(i) - 1)} ELSE l1[s]

PrevHere(i) == {b \in l0[WordOf(i)] : b <= BitOf(i)}
PrevHits(i) == {s \in 0..WordOf(WordOf(i) - 1) : PrevPart(i, s) # {}}

\* A place at or before i is in i's word, or its word has a bit in a part searched.
LEMMA PrevFinds ==
  ASSUME BitmapInv, NEW i \in BitSlot, NEW y \in members, y <= i
  PROVE  \/ WordOf(y) = WordOf(i) /\ BitOf(y) \in PrevHere(i)
         \/ /\ WordOf(i) # 0
            /\ WordOf(WordOf(y)) \in PrevHits(i)
            /\ BitOf(WordOf(y)) \in PrevPart(i, WordOf(WordOf(y)))
<1>1. i \in Nat /\ WordOf(i) \in Nat
  BY PlaceTypes, BitmapAssumption DEF BitSlot
<1>2. /\ y \in Nat /\ WordOf(y) \in 0..(Words - 1) /\ BitOf(y) \in l0[WordOf(y)]
      /\ WordOf(WordOf(y)) \in 0..(WordsFor(Words) - 1) /\ BitOf(WordOf(y)) \in l1[WordOf(WordOf(y))]
  BY MemberBits
<1>3. WordOf(y) < WordOf(i) \/ (WordOf(y) = WordOf(i) /\ BitOf(y) <= BitOf(i))
  BY <1>1, <1>2, InOrder
<1>4. CASE WordOf(y) < WordOf(i)
  <2>1. WordOf(y) \in Nat /\ WordOf(i) - 1 \in Nat /\ WordOf(y) <= WordOf(i) - 1 /\ WordOf(i) # 0
    BY <1>1, <1>2, <1>4, PlaceTypes
  <2>2. \/ WordOf(WordOf(y)) < WordOf(WordOf(i) - 1)
        \/ WordOf(WordOf(y)) = WordOf(WordOf(i) - 1) /\ BitOf(WordOf(y)) <= BitOf(WordOf(i) - 1)
    BY <2>1, InOrder
  <2>3. WordOf(WordOf(y)) \in Nat /\ WordOf(WordOf(i) - 1) \in Nat
    BY <2>1, PlaceOfSlot
  <2>4. BitOf(WordOf(y)) \in PrevPart(i, WordOf(WordOf(y)))
    BY <1>2, <2>2, <2>3 DEF PrevPart
  <2>5. WordOf(WordOf(y)) \in 0..WordOf(WordOf(i) - 1)
    BY <2>2, <2>3
  <2>6. QED
    BY <2>1, <2>4, <2>5 DEF PrevHits
<1>5. CASE WordOf(y) = WordOf(i) /\ BitOf(y) <= BitOf(i)
  BY <1>2, <1>5 DEF PrevHere
<1>6. QED
  BY <1>3, <1>4, <1>5

\* prev answers the greatest place set at or before i.
LEMMA PrevSetCorrect ==
  ASSUME BitmapInv, NEW i \in BitSlot
  PROVE  PrevSet(i) = Max({m \in members : m <= i} \union {-1})
<1> DEFINE T == {m \in members : m <= i} \union {-1}
           S == Max(PrevHits(i))
           word == S * WordBits + Max(PrevPart(i, S))
<1>1. PrevSet(i) = IF PrevHere(i) # {} THEN WordOf(i) * WordBits + Max(PrevHere(i))
                   ELSE IF WordOf(i) = 0 \/ PrevHits(i) = {} THEN -1
                   ELSE word * WordBits + Max(l0[word])
  BY DEF PrevSet, PrevHere, PrevHits, PrevPart
<1>2. i \in Nat /\ WordOf(i) \in 0..(Words - 1) /\ WordOf(i) \in Nat /\ BitOf(i) \in 0..(WordBits - 1)
  BY PlaceTypes, BitmapAssumption DEF BitSlot
<1>3. members \in SUBSET Nat /\ T \in SUBSET Int
  <2>1. members \in SUBSET Nat
    BY BitmapAssumption DEF BitmapInv, BitmapTypeOK, BitSlot
  <2>2. \A y \in T : y \in Int
    BY <2>1
  <2>3. QED
    BY <2>1, <2>2
<1>4. l0[WordOf(i)] \in SUBSET (0..(WordBits - 1))
  BY <1>2 DEF BitmapInv, BitmapTypeOK, Word
<1>5. SUFFICES ASSUME NEW r, r = PrevSet(i)
               PROVE  r \in T /\ \A y \in T : y <= r
  <2> HIDE DEF T
  <2>1. PrevSet(i) \in T /\ \A y \in T : y <= PrevSet(i)
    BY <1>5
  <2>2. Max(T) = PrevSet(i)
    BY <1>3, <2>1, IsMax
  <2>3. QED
    BY <2>2 DEF T
<1>6. CASE PrevHere(i) # {}
  <2>1. PICK b : b = Max(PrevHere(i))
    OBVIOUS
  <2>2. b \in PrevHere(i) /\ \A c \in PrevHere(i) : c <= b
    <3>1. PrevHere(i) \in SUBSET (0..(WordBits - 1)) /\ WordBits - 1 \in Int
      BY <1>4, BitmapAssumption DEF PrevHere
    <3>2. QED
      BY <1>6, <2>1, <3>1, GreatestOf
  <2>3. b \in l0[WordOf(i)] /\ b <= BitOf(i) /\ r = WordOf(i) * WordBits + b
    BY <1>1, <1>5, <1>6, <2>1, <2>2 DEF PrevHere
  <2>4. /\ b \in 0..(WordBits - 1) /\ r \in members /\ r \in Nat
        /\ WordOf(r) = WordOf(i) /\ BitOf(r) = b
    BY <1>2, <2>3, BitIsMember
  <2>5. r <= i
    BY <1>2, <2>3, <2>4, InOrder
  <2>6. ASSUME NEW y \in members, y <= i PROVE y <= r
    <3>1. y \in Nat /\ WordOf(y) \in Nat
      BY <1>3, PlaceOfSlot
    <3>2. WordOf(y) < WordOf(i) \/ (WordOf(y) = WordOf(i) /\ BitOf(y) \in PrevHere(i))
      <4>1. WordOf(y) < WordOf(i) \/ (WordOf(y) = WordOf(i) /\ BitOf(y) <= BitOf(i))
        BY <1>2, <2>6, <3>1, InOrder
      <4>2. BitOf(y) \in l0[WordOf(y)]
        BY MemberBits
      <4>3. WordOf(y) = WordOf(i) /\ BitOf(y) <= BitOf(i) => BitOf(y) \in PrevHere(i)
        BY <4>2 DEF PrevHere
      <4>4. QED
        BY <4>1, <4>3
    <3>3. QED
      BY <2>2, <2>4, <3>1, <3>2, InOrder
  <2>7. -1 <= r
    BY <2>4
  <2>8. QED
    BY <2>4, <2>5, <2>6, <2>7
<1>7. CASE PrevHere(i) = {} /\ (WordOf(i) = 0 \/ PrevHits(i) = {})
  <2>1. \A y \in members : ~(y <= i)
    BY <1>7, PrevFinds
  <2>2. r = -1
    BY <1>1, <1>5, <1>7
  <2>3. QED
    BY <2>1, <2>2
<1>8. CASE PrevHere(i) = {} /\ WordOf(i) # 0 /\ PrevHits(i) # {}
  <2>1. PICK s : s = Max(PrevHits(i))
    OBVIOUS
  <2>2. PICK last \in Nat : last = WordOf(i) - 1
    BY <1>2, <1>8
  <2>3. WordOf(last) \in 0..(WordsFor(Words) - 1) /\ last \in 0..(Words - 1) /\ WordOf(last) \in Nat
    BY <1>2, <2>2, PlaceTypes, PlaceOfSlot
  <2>4. s \in PrevHits(i) /\ \A t \in PrevHits(i) : t <= s
    <3>1. PrevHits(i) \in SUBSET (0..WordOf(last)) /\ WordOf(last) \in Int
      BY <2>2, <2>3 DEF PrevHits
    <3>2. QED
      BY <1>8, <2>1, <3>1, GreatestOf
  <2>5. s \in 0..WordOf(last) /\ PrevPart(i, s) # {} /\ s \in 0..(WordsFor(Words) - 1) /\ s \in Nat
    BY <2>2, <2>3, <2>4, PlaceTypes DEF PrevHits
  <2>6. PICK b : b = Max(PrevPart(i, s))
    OBVIOUS
  <2>7. b \in PrevPart(i, s) /\ \A c \in PrevPart(i, s) : c <= b
    <3>1. l1[s] \in SUBSET (0..(WordBits - 1)) /\ WordBits - 1 \in Int
      BY <2>5, BitmapAssumption DEF BitmapInv, BitmapTypeOK, Word
    <3>2. PrevPart(i, s) \in SUBSET (0..(WordBits - 1))
      BY <3>1 DEF PrevPart
    <3>3. QED
      BY <2>5, <2>6, <3>1, <3>2, GreatestOf
  <2>8. b \in l1[s] /\ (s = WordOf(last) => b <= BitOf(last))
    BY <2>2, <2>7 DEF PrevPart
  <2>9. PICK v : v = s * WordBits + b
    OBVIOUS
  <2>10. /\ b \in 0..(WordBits - 1) /\ v \in 0..(Words - 1) /\ l0[v] # {} /\ v \in Nat
         /\ WordOf(v) = s /\ BitOf(v) = b
    <3>1. /\ b \in 0..(WordBits - 1) /\ v \in 0..(Words - 1) /\ l0[v] # {}
          /\ WordOf(v) = s /\ BitOf(v) = b
      BY <2>5, <2>8, <2>9, SummaryIsWord
    <3>2. QED
      BY <3>1, PlaceTypes
  <2>11. v <= last /\ v < WordOf(i)
    <3>1. v <= last
      BY <2>2, <2>3, <2>5, <2>8, <2>10, InOrder
    <3>2. QED
      BY <1>2, <2>2, <2>10, <3>1
  <2>12. PICK a : a = Max(l0[v])
    OBVIOUS
  <2>13. a \in l0[v] /\ \A c \in l0[v] : c <= a
    <3>1. l0[v] \in SUBSET (0..(WordBits - 1)) /\ WordBits - 1 \in Int
      BY <2>10, BitmapAssumption DEF BitmapInv, BitmapTypeOK, Word
    <3>2. QED
      BY <2>10, <2>12, <3>1, GreatestOf
  <2>14. r = v * WordBits + a
    BY <1>1, <1>5, <1>8, <2>1, <2>6, <2>9, <2>12
  <2>15. r \in members /\ r \in Nat /\ WordOf(r) = v /\ BitOf(r) = a
    BY <2>10, <2>13, <2>14, BitIsMember
  <2>16. r <= i
    BY <1>2, <2>11, <2>15, InOrder
  <2>17. ASSUME NEW y \in members, y <= i PROVE y <= r
    <3>1. y \in Nat /\ WordOf(y) \in Nat /\ WordOf(WordOf(y)) \in Nat
      BY <1>3, PlaceOfSlot
    <3>2. /\ WordOf(WordOf(y)) \in PrevHits(i)
          /\ BitOf(WordOf(y)) \in PrevPart(i, WordOf(WordOf(y)))
      BY <1>8, <2>17, PrevFinds
    <3>3. WordOf(WordOf(y)) <= s /\ (WordOf(WordOf(y)) = s => BitOf(WordOf(y)) <= b)
      BY <2>4, <2>7, <3>2
    <3>4. WordOf(WordOf(y)) < s \/ (WordOf(WordOf(y)) = s /\ BitOf(WordOf(y)) <= b)
      BY <2>5, <3>1, <3>3
    <3>5. WordOf(y) <= v
      BY <2>10, <3>1, <3>4, InOrder
    <3>6. BitOf(y) \in l0[WordOf(y)]
      BY MemberBits
    <3>7. WordOf(y) < v \/ (WordOf(y) = v /\ BitOf(y) <= a)
      BY <2>10, <2>13, <3>1, <3>5, <3>6
    <3>8. QED
      BY <2>15, <3>1, <3>7, InOrder
  <2>18. -1 <= r
    BY <2>15
  <2>19. QED
    BY <2>15, <2>16, <2>17, <2>18
<1>9. QED
  BY <1>6, <1>7, <1>8

\* The search upwards, as NextSet has it.
NextPart(i, s) ==
  IF s = WordOf(WordOf(i) + 1) THEN {b \in l1[s] : b >= BitOf(WordOf(i) + 1)} ELSE l1[s]

NextHere(i) == {b \in l0[WordOf(i)] : b >= BitOf(i)}
NextHits(i) == {s \in WordOf(WordOf(i) + 1)..WordOf(Words - 1) : NextPart(i, s) # {}}

\* A place at or after i is in i's word, or its word has a bit in a part searched.
LEMMA NextFinds ==
  ASSUME BitmapInv, NEW i \in BitSlot, NEW y \in members, i <= y
  PROVE  \/ WordOf(y) = WordOf(i) /\ BitOf(y) \in NextHere(i)
         \/ /\ WordOf(i) + 1 < Words
            /\ WordOf(WordOf(y)) \in NextHits(i)
            /\ BitOf(WordOf(y)) \in NextPart(i, WordOf(WordOf(y)))
<1>1. i \in Nat /\ WordOf(i) \in Nat
  BY PlaceTypes, BitmapAssumption DEF BitSlot
<1>2. /\ y \in Nat /\ WordOf(y) \in 0..(Words - 1) /\ BitOf(y) \in l0[WordOf(y)]
      /\ WordOf(WordOf(y)) \in 0..(WordsFor(Words) - 1) /\ BitOf(WordOf(y)) \in l1[WordOf(WordOf(y))]
  BY MemberBits
<1>3. WordOf(i) < WordOf(y) \/ (WordOf(i) = WordOf(y) /\ BitOf(i) <= BitOf(y))
  BY <1>1, <1>2, InOrder
<1>4. CASE WordOf(i) < WordOf(y)
  <2>1. WordOf(y) \in Nat /\ WordOf(i) + 1 \in Nat /\ WordOf(i) + 1 <= WordOf(y) /\ WordOf(i) + 1 < Words
    BY <1>1, <1>2, <1>4, PlaceTypes
  <2>2. \/ WordOf(WordOf(i) + 1) < WordOf(WordOf(y))
        \/ WordOf(WordOf(i) + 1) = WordOf(WordOf(y)) /\ BitOf(WordOf(i) + 1) <= BitOf(WordOf(y))
    BY <2>1, InOrder
  <2>3. /\ WordOf(WordOf(y)) \in Nat /\ WordOf(WordOf(i) + 1) \in Nat
        /\ BitOf(WordOf(y)) \in Int /\ BitOf(WordOf(i) + 1) \in Int
    BY <2>1, PlaceOfSlot
  <2>4. BitOf(WordOf(y)) \in NextPart(i, WordOf(WordOf(y)))
    BY <1>2, <2>2, <2>3 DEF NextPart
  <2>5. WordOf(WordOf(y)) <= WordOf(Words - 1) /\ WordOf(Words - 1) \in Nat
    <3>1. Words - 1 \in Nat /\ WordOf(y) <= Words - 1
      BY <1>2, PlaceTypes
    <3>2. WordOf(Words - 1) \in Nat
      BY <3>1, PlaceOfSlot
    <3>3. WordOf(WordOf(y)) < WordOf(Words - 1) \/ WordOf(WordOf(y)) = WordOf(Words - 1)
      BY <2>1, <3>1, InOrder
    <3>4. QED
      BY <2>3, <3>2, <3>3
  <2>6. WordOf(WordOf(y)) \in WordOf(WordOf(i) + 1)..WordOf(Words - 1)
    BY <2>2, <2>3, <2>5
  <2>7. QED
    BY <2>1, <2>4, <2>6 DEF NextHits
<1>5. CASE WordOf(i) = WordOf(y) /\ BitOf(i) <= BitOf(y)
  <2>1. BitOf(i) \in Int /\ BitOf(y) \in Int
    BY <1>1, <1>2, PlaceOfSlot
  <2>2. QED
    BY <1>2, <1>5, <2>1 DEF NextHere
<1>6. QED
  BY <1>3, <1>4, <1>5

\* next answers the least place set at or after i.
LEMMA NextSetCorrect ==
  ASSUME BitmapInv, NEW i \in BitSlot
  PROVE  NextSet(i) = LET up == {m \in members : m >= i} IN IF up = {} THEN -1 ELSE Min(up)
<1> DEFINE T == {m \in members : m >= i}
           S == Min(NextHits(i))
           word == S * WordBits + Min(NextPart(i, S))
<1>1. NextSet(i) = IF NextHere(i) # {} THEN WordOf(i) * WordBits + Min(NextHere(i))
                   ELSE IF WordOf(i) + 1 >= Words \/ NextHits(i) = {} THEN -1
                   ELSE word * WordBits + Min(l0[word])
  BY DEF NextSet, NextHere, NextHits, NextPart
<1>2. i \in Nat /\ WordOf(i) \in 0..(Words - 1) /\ WordOf(i) \in Nat /\ BitOf(i) \in 0..(WordBits - 1)
  BY PlaceTypes, BitmapAssumption DEF BitSlot
<1>3. members \in SUBSET Nat /\ T \in SUBSET Int
  <2>1. members \in SUBSET Nat
    BY BitmapAssumption DEF BitmapInv, BitmapTypeOK, BitSlot
  <2>2. \A y \in T : y \in Int
    BY <2>1
  <2>3. QED
    BY <2>1, <2>2
<1>4. l0[WordOf(i)] \in SUBSET (0..(WordBits - 1))
  BY <1>2 DEF BitmapInv, BitmapTypeOK, Word
<1>5. SUFFICES ASSUME NEW r, r = NextSet(i)
               PROVE  IF T = {} THEN r = -1 ELSE r \in T /\ \A y \in T : r <= y
  <2> HIDE DEF T
  <2>1. IF T = {} THEN NextSet(i) = -1 ELSE NextSet(i) \in T /\ \A y \in T : NextSet(i) <= y
    BY <1>5
  <2>2. T # {} => Min(T) = NextSet(i)
    BY <1>3, <2>1, IsMin
  <2>3. NextSet(i) = IF T = {} THEN -1 ELSE Min(T)
    BY <2>1, <2>2
  <2>4. QED
    BY <2>3 DEF T
<1>6. CASE NextHere(i) # {}
  <2>1. PICK b : b = Min(NextHere(i))
    OBVIOUS
  <2>2. b \in NextHere(i) /\ \A c \in NextHere(i) : b <= c
    <3>1. NextHere(i) \in SUBSET (0..(WordBits - 1)) /\ WordBits - 1 \in Int
      BY <1>4, BitmapAssumption DEF NextHere
    <3>2. QED
      BY <1>6, <2>1, <3>1, LeastOf
  <2>3. b \in l0[WordOf(i)] /\ b >= BitOf(i) /\ r = WordOf(i) * WordBits + b
    BY <1>1, <1>5, <1>6, <2>1, <2>2 DEF NextHere
  <2>4. /\ b \in 0..(WordBits - 1) /\ r \in members /\ r \in Nat
        /\ WordOf(r) = WordOf(i) /\ BitOf(r) = b
    BY <1>2, <2>3, BitIsMember
  <2>5. r >= i
    <3>1. BitOf(i) <= BitOf(r)
      BY <1>2, <2>3, <2>4
    <3>2. i <= r
      BY <1>2, <2>4, <3>1, InOrder
    <3>3. QED
      BY <1>2, <2>4, <3>2
  <2>6. ASSUME NEW y \in members, y >= i PROVE r <= y
    <3>1. y \in Nat /\ WordOf(y) \in Nat /\ BitOf(y) \in Int /\ i <= y
      BY <1>2, <1>3, <2>6, PlaceOfSlot
    <3>2. WordOf(i) < WordOf(y) \/ (WordOf(y) = WordOf(i) /\ BitOf(y) \in NextHere(i))
      <4>1. WordOf(i) < WordOf(y) \/ (WordOf(i) = WordOf(y) /\ BitOf(i) <= BitOf(y))
        BY <1>2, <3>1, InOrder
      <4>2. BitOf(y) \in l0[WordOf(y)]
        BY MemberBits
      <4>3. WordOf(i) = WordOf(y) /\ BitOf(i) <= BitOf(y) => BitOf(y) \in NextHere(i)
        BY <1>2, <3>1, <4>2 DEF NextHere
      <4>4. QED
        BY <4>1, <4>3
    <3>3. QED
      BY <2>2, <2>4, <3>1, <3>2, InOrder
  <2>7. QED
    BY <2>4, <2>5, <2>6
<1>7. CASE NextHere(i) = {} /\ (WordOf(i) + 1 >= Words \/ NextHits(i) = {})
  <2>1. ~(WordOf(i) + 1 < Words) \/ NextHits(i) = {}
    BY <1>2, <1>7, PlaceTypes
  <2>2. \A y \in members : ~(i <= y)
    BY <1>7, <2>1, NextFinds
  <2>3. T = {}
    BY <1>2, <1>3, <2>2
  <2>4. r = -1
    BY <1>1, <1>5, <1>7
  <2>5. QED
    BY <2>3, <2>4
<1>8. CASE NextHere(i) = {} /\ ~(WordOf(i) + 1 >= Words) /\ NextHits(i) # {}
  <2>1. PICK s : s = Min(NextHits(i))
    OBVIOUS
  <2>2. PICK first \in Nat : first = WordOf(i) + 1
    BY <1>2
  <2>3. WordOf(first) \in Nat /\ WordOf(Words - 1) \in 0..(WordsFor(Words) - 1)
    BY <2>2, PlaceTypes, PlaceOfSlot
  <2>4. s \in NextHits(i) /\ \A t \in NextHits(i) : s <= t
    <3>1. NextHits(i) \in SUBSET (0..WordOf(Words - 1)) /\ WordOf(Words - 1) \in Int
      BY <2>2, <2>3 DEF NextHits
    <3>2. QED
      BY <1>8, <2>1, <3>1, LeastOf
  <2>5. WordOf(first) <= s /\ NextPart(i, s) # {} /\ s \in 0..(WordsFor(Words) - 1) /\ s \in Nat
    <3>1. s \in WordOf(first)..WordOf(Words - 1) /\ NextPart(i, s) # {}
      BY <2>2, <2>4 DEF NextHits
    <3>2. WordOf(Words - 1) \in Int /\ WordOf(Words - 1) <= WordsFor(Words) - 1 /\ WordsFor(Words) \in Nat
      BY <2>3, PlaceTypes
    <3>3. QED
      BY <2>3, <3>1, <3>2
  <2>6. PICK b : b = Min(NextPart(i, s))
    OBVIOUS
  <2>7. b \in NextPart(i, s) /\ \A c \in NextPart(i, s) : b <= c
    <3>1. l1[s] \in SUBSET (0..(WordBits - 1)) /\ WordBits - 1 \in Int
      BY <2>5, BitmapAssumption DEF BitmapInv, BitmapTypeOK, Word
    <3>2. NextPart(i, s) \in SUBSET (0..(WordBits - 1))
      BY <3>1 DEF NextPart
    <3>3. QED
      BY <2>5, <2>6, <3>1, <3>2, LeastOf
  <2>8. b \in l1[s] /\ (s = WordOf(first) => b >= BitOf(first))
    BY <2>2, <2>7 DEF NextPart
  <2>9. PICK v : v = s * WordBits + b
    OBVIOUS
  <2>10. /\ b \in 0..(WordBits - 1) /\ v \in 0..(Words - 1) /\ l0[v] # {} /\ v \in Nat
         /\ WordOf(v) = s /\ BitOf(v) = b
    <3>1. /\ b \in 0..(WordBits - 1) /\ v \in 0..(Words - 1) /\ l0[v] # {}
          /\ WordOf(v) = s /\ BitOf(v) = b
      BY <2>5, <2>8, <2>9, SummaryIsWord
    <3>2. QED
      BY <3>1, PlaceTypes
  <2>11. first <= v /\ WordOf(i) < v
    <3>1. BitOf(first) \in Int
      BY PlaceOfSlot
    <3>2. WordOf(first) < WordOf(v) \/ (WordOf(first) = WordOf(v) /\ BitOf(first) <= BitOf(v))
      BY <2>3, <2>5, <2>8, <2>10, <3>1
    <3>3. first <= v
      BY <2>10, <3>2, InOrder
    <3>4. QED
      BY <1>2, <2>2, <2>10, <3>3
  <2>12. PICK a : a = Min(l0[v])
    OBVIOUS
  <2>13. a \in l0[v] /\ \A c \in l0[v] : a <= c
    <3>1. l0[v] \in SUBSET (0..(WordBits - 1)) /\ WordBits - 1 \in Int
      BY <2>10, BitmapAssumption DEF BitmapInv, BitmapTypeOK, Word
    <3>2. QED
      BY <2>10, <2>12, <3>1, LeastOf
  <2>14. r = v * WordBits + a
    BY <1>1, <1>5, <1>8, <2>1, <2>6, <2>9, <2>12
  <2>15. r \in members /\ r \in Nat /\ WordOf(r) = v /\ BitOf(r) = a
    BY <2>10, <2>13, <2>14, BitIsMember
  <2>16. r >= i
    <3>1. i <= r
      BY <1>2, <2>11, <2>15, InOrder
    <3>2. QED
      BY <1>2, <2>15, <3>1
  <2>17. ASSUME NEW y \in members, y >= i PROVE r <= y
    <3>1. /\ y \in Nat /\ WordOf(y) \in Nat /\ WordOf(WordOf(y)) \in Nat /\ i <= y
      BY <1>2, <1>3, <2>17, PlaceOfSlot
    <3>2. /\ WordOf(WordOf(y)) \in NextHits(i)
          /\ BitOf(WordOf(y)) \in NextPart(i, WordOf(WordOf(y)))
      BY <1>8, <3>1, NextFinds
    <3>3. s <= WordOf(WordOf(y)) /\ (WordOf(WordOf(y)) = s => b <= BitOf(WordOf(y)))
      BY <2>4, <2>7, <3>2
    <3>4. s < WordOf(WordOf(y)) \/ (s = WordOf(WordOf(y)) /\ b <= BitOf(WordOf(y)))
      BY <2>5, <3>1, <3>3
    <3>5. v <= WordOf(y)
      BY <2>10, <3>1, <3>4, InOrder
    <3>6. BitOf(y) \in l0[WordOf(y)]
      BY MemberBits
    <3>7. v < WordOf(y) \/ (v = WordOf(y) /\ a <= BitOf(y))
      BY <2>10, <2>13, <3>1, <3>5, <3>6
    <3>8. QED
      BY <2>15, <3>1, <3>7, InOrder
  <2>18. QED
    BY <2>15, <2>16, <2>17
<1>9. QED
  BY <1>6, <1>7, <1>8

-----------------------------------------------------------------------------

\* From every place the searches of Bitmap (prev, next) find the nearest place
\* that was set and not cleared, for every number of places and every word size.
THEOREM BitmapSearches == BitmapSpec => []SearchesFindNeighbours
<1>1. BitmapInv => SearchesFindNeighbours
  BY PrevSetCorrect, NextSetCorrect DEF SearchesFindNeighbours
<1>2. QED
  BY <1>1, BitmapInvInit, BitmapInvNext, PTL DEF BitmapSpec

-----------------------------------------------------------------------------
(* IdMap.                                                                  *)

\* Quotient and remainder.
LEMMA DivMod ==
  ASSUME NEW x \in Nat, NEW c \in Nat \ {0}
  PROVE  x % c \in 0..(c - 1) /\ x \div c \in Nat /\ x = (x \div c) * c + (x % c)
<1>1. x % c \in 0..(c - 1) /\ x \div c \in Int
  OBVIOUS
<1>2. x = (x \div c) * c + (x % c)
  OBVIOUS
<1>3. x \div c >= 0
  OBVIOUS
<1>4. QED
  BY <1>1, <1>2, <1>3

\* Going k slots on from slot i of c.
LEMMA RoundFacts ==
  ASSUME NEW c \in Nat \ {0}, NEW i \in 0..(c - 1), NEW k \in 0..c
  PROVE  (i + k) % c = IF i + k < c THEN i + k ELSE i + k - c
<1>1. PICK x \in Nat : x = i + k
  OBVIOUS
<1>2. PICK q \in Nat, r \in 0..(c - 1) : x % c = r /\ x = q * c + r
  <2>1. x % c \in 0..(c - 1) /\ x \div c \in Nat /\ x = (x \div c) * c + (x % c)
    BY DivMod
  <2>2. QED
    BY <2>1
<1>3. x < 2 * c
  BY <1>1
<1>4. q = 0 \/ q = 1
  <2>1. SUFFICES ASSUME q >= 2 PROVE FALSE
    OBVIOUS
  <2>2. PICK d \in Nat : q = 2 + d
    <3>1. q - 2 \in Nat /\ q = 2 + (q - 2)
      BY <2>1
    <3>2. QED
      BY <3>1
  <2>3. q * c = 2 * c + d * c /\ d * c \in Nat
    BY <2>2
  <2>4. QED
    BY <1>2, <1>3, <2>3
<1>5. CASE q = 0
  BY <1>1, <1>2, <1>5
<1>6. CASE q = 1
  BY <1>1, <1>2, <1>6
<1>7. QED
  BY <1>4, <1>5, <1>6

\* The quotient by a factor.
LEMMA QuotientFacts ==
  ASSUME NEW q \in Nat \ {0}, NEW c \in Nat \ {0}
  PROVE  (q * c) \div c = q /\ \A h \in 0..(q * c - 1) : h \div q \in 0..(c - 1)
<1>1. ASSUME NEW a \in Nat, NEW b \in Nat, NEW m \in Nat \ {0}, a < b
      PROVE  a * m + m <= b * m
  <2>1. PICK d \in Nat : b = a + 1 + d
    <3>1. b - a - 1 \in Nat /\ b = a + 1 + (b - a - 1)
      BY <1>1
    <3>2. QED
      BY <3>1
  <2>2. b * m = a * m + m + d * m /\ d * m \in Nat /\ a * m \in Nat
    BY <2>1
  <2>3. QED
    BY <2>2
<1>2. q * c \in Nat /\ q * c = c * q
  OBVIOUS
<1>3. (q * c) \div c = q
  <2>1. PICK x \in Nat : x = q * c
    BY <1>2
  <2>2. PICK p \in Nat, r \in 0..(c - 1) : x \div c = p /\ x = p * c + r
    <3>1. x % c \in 0..(c - 1) /\ x \div c \in Nat /\ x = (x \div c) * c + (x % c)
      BY DivMod
    <3>2. QED
      BY <3>1
  <2>3. p * c \in Nat /\ p * c <= q * c /\ q * c < p * c + c
    BY <2>1, <2>2
  <2>4. ~(p < q) /\ ~(q < p)
    <3>1. p < q => p * c + c <= q * c
      BY <1>1
    <3>2. q < p => q * c + c <= p * c
      BY <1>1
    <3>3. QED
      BY <1>2, <2>3, <3>1, <3>2
  <2>5. QED
    BY <2>1, <2>2, <2>4
<1>4. ASSUME NEW h \in 0..(q * c - 1)
      PROVE  h \div q \in 0..(c - 1)
  <2>1. h \in Nat /\ h < q * c
    BY <1>2
  <2>2. PICK p \in Nat, r \in 0..(q - 1) : h \div q = p /\ h = p * q + r
    <3>1. h % q \in 0..(q - 1) /\ h \div q \in Nat /\ h = (h \div q) * q + (h % q)
      BY <2>1, DivMod
    <3>2. QED
      BY <3>1
  <2>3. p * q \in Nat /\ p * q < c * q
    BY <1>2, <2>1, <2>2
  <2>4. ~(c < p) /\ p # c
    <3>1. c < p => c * q + q <= p * q
      BY <1>1
    <3>2. QED
      BY <1>2, <2>3, <3>1
  <2>5. QED
    BY <2>2, <2>4
<1>5. QED
  BY <1>3, <1>4

-----------------------------------------------------------------------------

\* Sizes a map can have, and tables of such a size.
IsSize(c) == c \in 1..MaxSize /\ Divides(c)

Tables(c) == [0..(c - 1) -> OrderId \union {NoId}]

HashOK == hash \in [OrderId -> 0..(MaxSize - 1)]

\* How many slots after slot i slot j comes.
Dist(i, j, c) == IF i <= j THEN j - i ELSE j - i + c

Taken(ns) == {j \in DOMAIN ns : ns[j] # NoId}

\* From its home to its slot an entry passes no empty slot.
Reachable(ns, c) ==
  \A j \in 0..(c - 1) : ns[j] # NoId =>
    \A k \in 0..(c - 1) : k < Dist(HomeIn(ns[j], c), j, c) => ns[(HomeIn(ns[j], c) + k) % c] # NoId

\* No id is in two slots.
Once(ns, c) == \A i, j \in 0..(c - 1) : ns[i] # NoId /\ ns[i] = ns[j] => i = j

\* The ids of a table.
Entries(ns) == {ns[j] : j \in Taken(ns)}

\* A table of size c that find can be asked of.
Good(ns, c) ==
  /\ ns \in Tables(c) /\ Reachable(ns, c) /\ Once(ns, c)
  /\ Cardinality(Taken(ns)) < c

\* The home of an id is a slot.
LEMMA HomeType ==
  ASSUME HashOK, NEW c, IsSize(c), NEW id \in OrderId
  PROVE  HomeIn(id, c) \in 0..(c - 1)
<1>1. PICK q \in 1..MaxSize : MaxSize = q * c
  BY DEF IsSize, Divides
<1>2. q \in Nat \ {0} /\ c \in Nat \ {0} /\ MaxSize \in Nat
  BY IdMapAssumption DEF IsSize
<1>3. MaxSize \div c = q
  BY <1>1, <1>2, QuotientFacts
<1>4. hash[id] \in 0..(q * c - 1)
  BY <1>1 DEF HashOK
<1>5. hash[id] \div q \in 0..(c - 1)
  BY <1>2, <1>4, QuotientFacts
<1>6. QED
  BY <1>3, <1>5 DEF HomeIn

\* A slot is where its distance leads.
LEMMA DistFacts ==
  ASSUME NEW c \in Nat \ {0}, NEW i \in 0..(c - 1), NEW j \in 0..(c - 1)
  PROVE  Dist(i, j, c) \in 0..(c - 1) /\ (i + Dist(i, j, c)) % c = j
<1>1. Dist(i, j, c) \in 0..(c - 1)
  BY DEF Dist
<1>2. QED
  BY <1>1, RoundFacts DEF Dist

\* Where a step of k slots leads is at the distance k.
LEMMA StepFacts ==
  ASSUME NEW c \in Nat \ {0}, NEW i \in 0..(c - 1), NEW k \in 0..(c - 1)
  PROVE  (i + k) % c \in 0..(c - 1) /\ Dist(i, (i + k) % c, c) = k
<1>1. k \in 0..c
  OBVIOUS
<1>2. (i + k) % c = IF i + k < c THEN i + k ELSE i + k - c
  BY <1>1, RoundFacts
<1>3. QED
  BY <1>2 DEF Dist

\* The number of slots of a table.
LEMMA TableSize ==
  ASSUME NEW c \in Nat, NEW ns \in Tables(c)
  PROVE  /\ Cardinality(DOMAIN ns) = c /\ DOMAIN ns = 0..(c - 1) /\ IsFiniteSet(DOMAIN ns)
         /\ IsFiniteSet(Taken(ns)) /\ Cardinality(Taken(ns)) \in Nat
<1>1. DOMAIN ns = 0..(c - 1)
  BY DEF Tables
<1>2. IsFiniteSet(0..(c - 1)) /\ Cardinality(0..(c - 1)) = c
  BY FS_Interval
<1>3. IsFiniteSet(Taken(ns))
  BY <1>1, <1>2, FS_Subset DEF Taken
<1>4. QED
  BY <1>1, <1>2, <1>3, FS_CardinalityType

\* A table that is not full has an empty slot.
LEMMA EmptySlot ==
  ASSUME NEW c \in Nat, NEW ns \in Tables(c), Cardinality(Taken(ns)) < c
  PROVE  \E j \in 0..(c - 1) : ns[j] = NoId
<1>1. SUFFICES ASSUME \A j \in 0..(c - 1) : ns[j] # NoId PROVE FALSE
  OBVIOUS
<1>2. Taken(ns) = 0..(c - 1)
  BY <1>1, TableSize DEF Taken
<1>3. QED
  BY <1>2, TableSize

\* Probing for id ends at its slot or at an empty one, past other entries only.
LEMMA ProbeFacts ==
  ASSUME HashOK, NEW c, IsSize(c), NEW ns, Good(ns, c), NEW id \in OrderId
  PROVE  LET e == ProbeEnd(ns, id)
         IN  /\ e \in 0..(c - 1) /\ ns[e] \in {id, NoId}
             /\ \A k \in 0..(c - 1) : k < Dist(HomeIn(id, c), e, c) =>
                  ns[(HomeIn(id, c) + k) % c] \notin {id, NoId}
<1> DEFINE h == HomeIn(id, c)
           K == {k \in 0..(c - 1) : ns[(h + k) % c] \in {id, NoId}}
<1>1. c \in Nat \ {0} /\ ns \in Tables(c) /\ h \in 0..(c - 1)
  BY HomeType DEF IsSize, Good
<1>2. Cardinality(DOMAIN ns) = c
  BY <1>1, TableSize
<1>3. ProbeEnd(ns, id) = (h + Min(K)) % c
  BY <1>2 DEF ProbeEnd
<1>4. K # {}
  <2>1. PICK j \in 0..(c - 1) : ns[j] = NoId
    BY <1>1, EmptySlot DEF Good
  <2>2. Dist(h, j, c) \in K
    BY <1>1, <2>1, DistFacts
  <2>3. QED
    BY <2>2
<1>5. PICK m \in K : \A k \in K : m <= k
  <2>1. K \in SUBSET Nat
    BY <1>1
  <2> HIDE DEF K
  <2>2. QED
    BY <2>1, <1>4, LeastNatural
<1>6. Min(K) \in K /\ \A k \in K : Min(K) <= k
  BY <1>5 DEF Min
<1>7. PICK n \in 0..(c - 1) : n = Min(K) /\ ns[(h + n) % c] \in {id, NoId} /\ \A k \in K : n <= k
  BY <1>6
<1>8. (h + n) % c \in 0..(c - 1) /\ Dist(h, (h + n) % c, c) = n
  BY <1>1, StepFacts
<1>9. ASSUME NEW k \in 0..(c - 1), k < n PROVE ns[(h + k) % c] \notin {id, NoId}
  BY <1>7, <1>9
<1>10. QED
  BY <1>3, <1>7, <1>8, <1>9

\* find finds the ids of the table and no others.
LEMMA FindFacts ==
  ASSUME HashOK, NEW c, IsSize(c), NEW ns, Good(ns, c), NEW id \in OrderId
  PROVE  ns[ProbeEnd(ns, id)] = id <=> id \in Entries(ns)
<1>1. PICK e : e = ProbeEnd(ns, id)
  OBVIOUS
<1>2. /\ e \in 0..(c - 1) /\ ns[e] \in {id, NoId}
      /\ \A k \in 0..(c - 1) : k < Dist(HomeIn(id, c), e, c) =>
           ns[(HomeIn(id, c) + k) % c] \notin {id, NoId}
  BY <1>1, ProbeFacts
<1>3. c \in Nat \ {0} /\ ns \in Tables(c) /\ HomeIn(id, c) \in 0..(c - 1) /\ id # NoId /\ DOMAIN ns = 0..(c - 1)
  BY HomeType, TableSize, IdMapAssumption DEF IsSize, Good
<1>4. ASSUME ns[e] = id PROVE id \in Entries(ns)
  BY <1>2, <1>3, <1>4 DEF Entries, Taken
<1>5. ASSUME id \in Entries(ns), ns[e] # id PROVE FALSE
  <2>1. PICK j \in 0..(c - 1) : ns[j] = id
    BY <1>3, <1>5 DEF Entries, Taken
  <2>2. ns[e] = NoId
    BY <1>2, <1>5
  <2>3. Dist(HomeIn(id, c), e, c) \in 0..(c - 1) /\ (HomeIn(id, c) + Dist(HomeIn(id, c), e, c)) % c = e
    BY <1>2, <1>3, DistFacts
  <2>4. Dist(HomeIn(id, c), j, c) \in 0..(c - 1) /\ (HomeIn(id, c) + Dist(HomeIn(id, c), j, c)) % c = j
    BY <1>3, DistFacts
  <2>5. ~(Dist(HomeIn(id, c), e, c) < Dist(HomeIn(id, c), j, c))
    BY <1>3, <2>1, <2>2, <2>3 DEF Good, Reachable
  <2>6. ~(Dist(HomeIn(id, c), j, c) < Dist(HomeIn(id, c), e, c))
    BY <1>2, <2>1, <2>4
  <2>7. e = j
    BY <2>3, <2>4, <2>5, <2>6
  <2>8. QED
    BY <1>5, <2>1, <2>7
<1>6. QED
  BY <1>1, <1>4, <1>5
\* An id that is not there is put where it is found.
LEMMA PutFacts ==
  ASSUME HashOK, NEW c, IsSize(c), NEW ns, Good(ns, c), NEW id \in OrderId, id \notin Entries(ns),
         Cardinality(Taken(ns)) + 1 < c
  PROVE  /\ Good(PutId(ns, id), c) /\ Entries(PutId(ns, id)) = Entries(ns) \union {id}
         /\ Cardinality(Taken(PutId(ns, id))) = Cardinality(Taken(ns)) + 1
<1>1. PICK e : e = ProbeEnd(ns, id)
  OBVIOUS
<1>2. /\ e \in 0..(c - 1) /\ ns[e] \in {id, NoId}
      /\ \A k \in 0..(c - 1) : k < Dist(HomeIn(id, c), e, c) =>
           ns[(HomeIn(id, c) + k) % c] \notin {id, NoId}
  BY <1>1, ProbeFacts
<1>3. /\ c \in Nat \ {0} /\ ns \in Tables(c) /\ HomeIn(id, c) \in 0..(c - 1) /\ id # NoId
      /\ DOMAIN ns = 0..(c - 1) /\ IsFiniteSet(Taken(ns))
  BY HomeType, TableSize, IdMapAssumption DEF IsSize, Good
<1>4. ns[e] = NoId
  BY <1>1, <1>2, FindFacts
<1>5. PICK p : p = PutId(ns, id)
  OBVIOUS
<1>6. /\ p \in Tables(c) /\ DOMAIN p = 0..(c - 1) /\ p[e] = id
      /\ \A j \in 0..(c - 1) : j # e => p[j] = ns[j]
  BY <1>1, <1>2, <1>3, <1>5 DEF PutId, Tables
<1>7. Taken(p) = Taken(ns) \union {e} /\ e \notin Taken(ns)
  BY <1>2, <1>3, <1>4, <1>6 DEF Taken
<1>8. Cardinality(Taken(p)) = Cardinality(Taken(ns)) + 1
  BY <1>3, <1>7, FS_AddElement
<1>9. Entries(p) = Entries(ns) \union {id}
  <2>1. \A j \in Taken(ns) : p[j] = ns[j] /\ j \in Taken(p)
    BY <1>3, <1>6, <1>7 DEF Taken
  <2>2. Entries(p) \subseteq Entries(ns) \union {id}
    BY <1>6, <1>7, <2>1 DEF Entries
  <2>3. Entries(ns) \subseteq Entries(p)
    BY <2>1 DEF Entries
  <2>4. id \in Entries(p)
    BY <1>6, <1>7 DEF Entries
  <2>5. QED
    BY <2>2, <2>3, <2>4
<1>10. Once(p, c)
  <2>1. SUFFICES ASSUME NEW i \in 0..(c - 1), NEW j \in 0..(c - 1), p[i] # NoId, p[i] = p[j] PROVE i = j
    BY DEF Once
  <2>2. \A x \in 0..(c - 1) : ns[x] # id
    BY <1>3 DEF Entries, Taken
  <2>3. CASE i = e \/ j = e
    BY <1>6, <2>1, <2>2, <2>3
  <2>4. CASE i # e /\ j # e
    BY <1>6, <2>1, <2>4 DEF Good, Once
  <2>5. QED
    BY <2>3, <2>4
<1>11. Reachable(p, c)
  <2>1. \A x \in 0..(c - 1) : ns[x] # NoId => p[x] # NoId
    BY <1>3, <1>4, <1>6
  <2>2. SUFFICES ASSUME NEW j \in 0..(c - 1), p[j] # NoId,
                        NEW k \in 0..(c - 1), k < Dist(HomeIn(p[j], c), j, c)
                 PROVE  p[(HomeIn(p[j], c) + k) % c] # NoId
    BY DEF Reachable
  <2>3. p[j] \in OrderId
    BY <1>6, <2>2 DEF Tables
  <2>4. (HomeIn(p[j], c) + k) % c \in 0..(c - 1)
    BY <1>3, <2>3, HomeType, StepFacts
  <2>5. ns[(HomeIn(p[j], c) + k) % c] # NoId
    <3>1. CASE j = e
      BY <1>2, <1>6, <2>2, <3>1
    <3>2. CASE j # e
      <4>1. p[j] = ns[j] /\ ns[j] # NoId
        BY <1>6, <2>2, <3>2
      <4>2. k < Dist(HomeIn(ns[j], c), j, c)
        BY <2>2, <4>1
      <4>3. QED
        BY <4>1, <4>2 DEF Good, Reachable
    <3>3. QED
      BY <3>1, <3>2
  <2>6. QED
    BY <2>1, <2>4, <2>5
<1>12. QED
  BY <1>5, <1>6, <1>8, <1>9, <1>10, <1>11 DEF Good

\* An empty table.
LEMMA EmptyTable ==
  ASSUME HashOK, NEW c, IsSize(c), NEW ns, ns = [i \in 0..(c - 1) |-> NoId]
  PROVE  Good(ns, c) /\ Entries(ns) = {} /\ Taken(ns) = {} /\ Cardinality(Taken(ns)) = 0
<1>1. ns \in Tables(c) /\ \A j \in 0..(c - 1) : ns[j] = NoId
  BY DEF Tables
<1>2. Taken(ns) = {}
  BY <1>1 DEF Taken, Tables
<1>3. Cardinality(Taken(ns)) = 0 /\ 0 < c
  BY <1>2, FS_EmptySet DEF IsSize
<1>4. Reachable(ns, c) /\ Once(ns, c)
  BY <1>1 DEF Reachable, Once
<1>5. QED
  BY <1>1, <1>2, <1>3, <1>4 DEF Good, Entries

\* The tables of a rehash to n slots: after k slots of the old one.
Again(ns, n, f, k) ==
  IF k = 0 THEN [i \in 0..(n - 1) |-> NoId]
  ELSE IF ns[k - 1] = NoId THEN f[k - 1] ELSE PutId(f[k - 1], ns[k - 1])

\* They exist.
LEMMA AgainExists ==
  ASSUME NEW ns, NEW n, NEW m \in Nat
  PROVE  \E f : f = [k \in 0..m |-> Again(ns, n, f, k)]
<1> DEFINE T == {m_1 \in Nat : \E f : f = [k \in 0..m_1 |-> Again(ns, n, f, k)]}
<1>1. 0 \in T
  <2> DEFINE f == [k \in 0..0 |-> [i \in 0..(n - 1) |-> NoId]]
  <2>1. f = [k \in 0..0 |-> Again(ns, n, f, k)]
    BY DEF Again
  <2>2. QED
    BY <2>1
<1>2. ASSUME NEW x \in T
      PROVE  x + 1 \in T
  <2>1. x \in Nat /\ \E f : f = [k \in 0..x |-> Again(ns, n, f, k)]
    OBVIOUS
  <2>2. PICK f : f = [k \in 0..x |-> Again(ns, n, f, k)]
    BY <2>1
  <2> DEFINE g == [k \in 0..(x + 1) |-> IF k = x + 1 THEN Again(ns, n, f, x + 1) ELSE f[k]]
  <2>3. \A k \in 0..x : f[k] = Again(ns, n, f, k) /\ g[k] = f[k]
    BY <2>1, <2>2
  <2>4. ASSUME NEW k \in 0..(x + 1) PROVE g[k] = Again(ns, n, g, k)
    <3>1. g[k] = Again(ns, n, f, k)
      <4>1. CASE k = x + 1
        BY <2>1, <4>1
      <4>2. CASE k # x + 1
        <5>1. k \in 0..x
          BY <2>1, <4>2
        <5>2. QED
          BY <2>3, <5>1
      <4>3. QED
        BY <4>1, <4>2
    <3>2. k # 0 => k - 1 \in 0..x /\ g[k - 1] = f[k - 1]
      <4>1. k # 0 => k - 1 \in 0..x
        BY <2>1
      <4>2. QED
        BY <2>3, <4>1
    <3> HIDE DEF g
    <3>3. QED
      BY <3>1, <3>2 DEF Again
  <2>5. g = [k \in 0..(x + 1) |-> g[k]]
    OBVIOUS
  <2> HIDE DEF g
  <2>6. g = [k \in 0..(x + 1) |-> Again(ns, n, g, k)]
    BY <2>4, <2>5
  <2>7. QED
    BY <2>1, <2>6
<1>3. T = Nat
  <2>1. T \in SUBSET Nat
    OBVIOUS
  <2> HIDE DEF T
  <2>2. QED
    BY <1>1, <1>2, <2>1, Induction
<1>4. QED
  BY <1>3

\* The ids among the first k slots.
TakenBefore(ns, k) == {i \in 0..(k - 1) : ns[i] # NoId}

\* A rehash keeps the ids.
LEMMA RehashedFacts ==
  ASSUME HashOK, NEW c, IsSize(c), IsSize(2 * c), NEW ns, Good(ns, c)
  PROVE  /\ Good(Rehashed(ns), 2 * c) /\ Entries(Rehashed(ns)) = Entries(ns)
         /\ Cardinality(Taken(Rehashed(ns))) = Cardinality(Taken(ns))
<1>1. /\ c \in Nat \ {0} /\ ns \in Tables(c) /\ DOMAIN ns = 0..(c - 1) /\ Cardinality(DOMAIN ns) = c
      /\ IsFiniteSet(Taken(ns)) /\ Cardinality(Taken(ns)) \in Nat /\ Cardinality(Taken(ns)) < c
  BY TableSize DEF IsSize, Good
<1> DEFINE Iter(f) == f = [k \in 0..c |-> Again(ns, 2 * c, f, k)]
           again == CHOOSE f : Iter(f)
<1>2. Rehashed(ns) = again[c]
  BY <1>1 DEF Rehashed, Again
<1>3. Iter(again)
  <2>1. \E f : Iter(f)
    <3>1. PICK m \in Nat : m = c
      BY <1>1
    <3>2. PICK n : n = 2 * c
      OBVIOUS
    <3>3. \E f : f = [k \in 0..m |-> Again(ns, n, f, k)]
      BY AgainExists
    <3>4. QED
      BY <3>1, <3>2, <3>3
  <2>2. QED
    BY <2>1
<1> HIDE DEF again
<1>4. \A k \in 0..c : again[k] = Again(ns, 2 * c, again, k)
  BY <1>3
<1> DEFINE Right(k) == /\ Good(again[k], 2 * c) /\ Entries(again[k]) = {ns[i] : i \in TakenBefore(ns, k)}
                       /\ Cardinality(Taken(again[k])) = Cardinality(TakenBefore(ns, k))
           T == {k \in Nat : k <= c => Right(k)}
<1>5. \A k \in 0..c : /\ TakenBefore(ns, k) \in SUBSET Taken(ns) /\ IsFiniteSet(TakenBefore(ns, k))
                      /\ Cardinality(TakenBefore(ns, k)) \in Nat /\ Cardinality(TakenBefore(ns, k)) < c
  <2>1. SUFFICES ASSUME NEW k \in 0..c
                 PROVE  /\ TakenBefore(ns, k) \in SUBSET Taken(ns) /\ IsFiniteSet(TakenBefore(ns, k))
                        /\ Cardinality(TakenBefore(ns, k)) \in Nat /\ Cardinality(TakenBefore(ns, k)) < c
    OBVIOUS
  <2>2. TakenBefore(ns, k) \in SUBSET Taken(ns)
    BY <1>1 DEF TakenBefore, Taken
  <2>3. IsFiniteSet(TakenBefore(ns, k)) /\ Cardinality(TakenBefore(ns, k)) <= Cardinality(Taken(ns))
    BY <1>1, <2>2, FS_Subset
  <2>4. Cardinality(TakenBefore(ns, k)) \in Nat
    BY <2>3, FS_CardinalityType
  <2>5. QED
    BY <1>1, <2>2, <2>3, <2>4
<1>6. 0 \in T
  <2>1. again[0] = [i \in 0..(2 * c - 1) |-> NoId]
    BY <1>1, <1>4 DEF Again
  <2>2. TakenBefore(ns, 0) = {}
    BY DEF TakenBefore
  <2>3. Cardinality(TakenBefore(ns, 0)) = 0
    BY <2>2, FS_EmptySet
  <2>4. {ns[i] : i \in TakenBefore(ns, 0)} = {}
    BY <2>2
  <2>5. Right(0)
    BY <2>1, <2>3, <2>4, EmptyTable
  <2>6. QED
    BY <2>5
<1>7. ASSUME NEW k \in T
      PROVE  k + 1 \in T
  <2>1. SUFFICES ASSUME k + 1 <= c PROVE Right(k + 1)
    OBVIOUS
  <2>2. k \in Nat /\ k \in 0..c /\ k + 1 \in 0..c /\ k \in 0..(c - 1) /\ Right(k)
    BY <1>1, <2>1
  <2>3. again[k + 1] = IF ns[k] = NoId THEN again[k] ELSE PutId(again[k], ns[k])
    <3>1. again[k + 1] = Again(ns, 2 * c, again, k + 1)
      BY <1>4, <2>2
    <3>2. (k + 1) - 1 = k /\ k + 1 # 0
      BY <2>2
    <3>3. QED
      BY <3>1, <3>2 DEF Again
  <2>4. CASE ns[k] = NoId
    <3>1. TakenBefore(ns, k + 1) = TakenBefore(ns, k)
      <4>1. 0..((k + 1) - 1) = 0..(k - 1) \union {k}
        BY <2>2
      <4>2. QED
        BY <2>4, <4>1 DEF TakenBefore
    <3>2. again[k + 1] = again[k]
      BY <2>3, <2>4
    <3>3. QED
      BY <2>2, <3>1, <3>2
  <2>5. CASE ns[k] # NoId
    <3>1. TakenBefore(ns, k + 1) = TakenBefore(ns, k) \union {k} /\ k \notin TakenBefore(ns, k)
      <4>1. 0..((k + 1) - 1) = 0..(k - 1) \union {k} /\ k \notin 0..(k - 1)
        BY <2>2
      <4>2. QED
        BY <2>5, <4>1 DEF TakenBefore
    <3>2. ns[k] \in OrderId
      BY <1>1, <2>2, <2>5 DEF Tables
    <3>3. ns[k] \notin Entries(again[k])
      <4>1. SUFFICES ASSUME NEW i \in TakenBefore(ns, k), ns[i] = ns[k] PROVE FALSE
        BY <2>2
      <4>2. i \in 0..(c - 1) /\ i # k /\ ns[i] # NoId
        <5>1. i \in 0..(k - 1) /\ ns[i] # NoId
          BY DEF TakenBefore
        <5>2. QED
          BY <1>1, <2>2, <5>1
      <4>3. QED
        BY <2>2, <4>1, <4>2 DEF Good, Once
    <3>4. Cardinality(Taken(again[k])) + 1 < 2 * c
      BY <1>1, <1>5, <2>2
    <3>5. /\ Good(again[k + 1], 2 * c) /\ Entries(again[k + 1]) = Entries(again[k]) \union {ns[k]}
          /\ Cardinality(Taken(again[k + 1])) = Cardinality(Taken(again[k])) + 1
      BY <2>2, <2>3, <2>5, <3>2, <3>3, <3>4, PutFacts
    <3>6. Cardinality(TakenBefore(ns, k + 1)) = Cardinality(TakenBefore(ns, k)) + 1
      BY <1>5, <2>2, <3>1, FS_AddElement
    <3>7. {ns[i] : i \in TakenBefore(ns, k + 1)} = {ns[i] : i \in TakenBefore(ns, k)} \union {ns[k]}
      BY <3>1
    <3>8. QED
      BY <2>2, <3>5, <3>6, <3>7
  <2>6. QED
    BY <2>4, <2>5
<1>8. T = Nat
  <2>1. T \in SUBSET Nat
    OBVIOUS
  <2> HIDE DEF T
  <2>2. QED
    BY <1>6, <1>7, <2>1, Induction
<1>9. Right(c)
  <2>1. c \in T
    BY <1>1, <1>8
  <2>2. QED
    BY <1>1, <2>1
<1>10. TakenBefore(ns, c) = Taken(ns)
  BY <1>1 DEF TakenBefore, Taken
<1>11. QED
  BY <1>2, <1>9, <1>10 DEF Entries
-----------------------------------------------------------------------------

\* Going round: the sums of distances, and slots met in order.
LEMMA DistSums ==
  ASSUME NEW c \in Nat \ {0}, NEW h \in 0..(c - 1), NEW i \in 0..(c - 1), NEW j \in 0..(c - 1)
  PROVE  /\ Dist(h, i, c) < Dist(h, j, c) => Dist(h, j, c) = Dist(h, i, c) + Dist(i, j, c)
         /\ i # j => Dist(i, j, c) \in 1..(c - 1) /\ Dist(h, i, c) # Dist(h, j, c)
         /\ i # j => (Movable(h, i, j) <=> Dist(h, i, c) < Dist(h, j, c))
  BY DEF Dist, Movable

\* Two steps in a row.
LEMMA StepsInARow ==
  ASSUME NEW c \in Nat \ {0}, NEW h \in 0..(c - 1), NEW k \in 0..c, NEW g \in 0..c, k + g <= c
  PROVE  (((h + k) % c) + g) % c = (h + (k + g)) % c
<1>1. (h + k) % c = IF h + k < c THEN h + k ELSE h + k - c
  BY RoundFacts
<1>2. (h + (k + g)) % c = IF h + (k + g) < c THEN h + (k + g) ELSE h + (k + g) - c
  <2>1. k + g \in 0..c
    OBVIOUS
  <2>2. QED
    BY <2>1, RoundFacts
<1>3. PICK i : i = (h + k) % c
  OBVIOUS
<1>4. i \in 0..(c - 1)
  BY <1>1, <1>3
<1>5. (i + g) % c = IF i + g < c THEN i + g ELSE i + g - c
  BY <1>4, RoundFacts
<1>6. (i + g) % c = (h + (k + g)) % c
  BY <1>1, <1>2, <1>3, <1>5
<1>7. QED
  BY <1>3, <1>6

\* The gap of a running deletion, c slots: all entries but that of the hole are the
\* ids; the slots seen are taken; of the entries between the hole and the next slot
\* none has the hole on its way from home.
GapOK(e, ns, left, c) ==
  /\ e \in [hole : 0..(c - 1), next : 0..(c - 1), rounds : 0..(c - 1)]
  /\ ns[e.hole] # NoId
  /\ \A i, j \in 0..(c - 1) : i # e.hole /\ j # e.hole /\ ns[i] # NoId /\ ns[i] = ns[j] => i = j
  /\ {ns[j] : j \in Taken(ns) \ {e.hole}} = left
  /\ \E g \in 1..(e.rounds + 1) :
       /\ e.next = (e.hole + g) % c
       /\ \A j \in 0..(c - 1) : 0 < Dist(e.hole, j, c) /\ Dist(e.hole, j, c) < g =>
            ~(Dist(HomeIn(ns[j], c), e.hole, c) < Dist(HomeIn(ns[j], c), j, c))
  /\ \E s \in 0..(c - 1) :
       /\ e.next = (s + (e.rounds + 1)) % c
       /\ \A k \in 0..e.rounds : ns[(s + k) % c] # NoId

MapTypes ==
  /\ HashOK
  /\ IsSize(Capacity) /\ nodes \in Tables(Capacity) /\ Reachable(nodes, Capacity)
  /\ IsFiniteSet(ids) /\ ids \subseteq OrderId
  /\ size = Cardinality(Taken(nodes)) /\ 2 * size <= Capacity

\* The inductive invariant.
MapInv ==
  /\ MapTypes
  /\ \/ erasing = {} /\ Once(nodes, Capacity) /\ Entries(nodes) = ids /\ size = Cardinality(ids)
     \/ \E e : erasing = {e} /\ GapOK(e, nodes, ids, Capacity) /\ size = Cardinality(ids) + 1

\* The sizes.
LEMMA SizeFacts ==
  ASSUME MapTypes
  PROVE  /\ Capacity \in Nat \ {0} /\ size \in Nat /\ size < Capacity
         /\ DOMAIN nodes = 0..(Capacity - 1) /\ IsFiniteSet(Taken(nodes)) /\ Cardinality(ids) \in Nat
<1>1. Capacity \in Nat \ {0}
  BY DEF MapTypes, IsSize
<1>2. DOMAIN nodes = 0..(Capacity - 1) /\ IsFiniteSet(Taken(nodes)) /\ size \in Nat
  BY <1>1, TableSize DEF MapTypes
<1>3. Cardinality(ids) \in Nat
  BY FS_CardinalityType DEF MapTypes
<1>4. size < Capacity
  BY <1>1, <1>2 DEF MapTypes
<1>5. QED
  BY <1>1, <1>2, <1>3, <1>4

\* Between calls the table is one that can be asked.
LEMMA IdleIsGood ==
  ASSUME MapInv, erasing = {}
  PROVE  Good(nodes, Capacity) /\ Entries(nodes) = ids /\ size = Cardinality(ids)
<1>1. Once(nodes, Capacity) /\ Entries(nodes) = ids /\ size = Cardinality(ids)
  BY DEF MapInv
<1>2. Cardinality(Taken(nodes)) < Capacity
  BY SizeFacts DEF MapInv, MapTypes
<1>3. QED
  BY <1>1, <1>2 DEF MapInv, MapTypes, Good

\* The map starts empty.
LEMMA MapInvInit == MapInit => MapInv
<1>1. SUFFICES ASSUME MapInit PROVE MapInv
  OBVIOUS
<1>2. HashOK /\ IsSize(FirstSize) /\ nodes = [i \in 0..(FirstSize - 1) |-> NoId] /\ FirstSize \in Nat
  BY <1>1, IdMapAssumption DEF MapInit, HashOK, IsSize
<1>3. Good(nodes, FirstSize) /\ Entries(nodes) = {} /\ Cardinality(Taken(nodes)) = 0
  BY <1>2, EmptyTable
<1>4. Capacity = FirstSize
  BY <1>2, <1>3, TableSize DEF Capacity, Good
<1>5. ids = {} /\ size = 0 /\ erasing = {} /\ IsFiniteSet({}) /\ Cardinality({}) = 0
  BY <1>1, FS_EmptySet DEF MapInit
<1>6. QED
  BY <1>2, <1>3, <1>4, <1>5 DEF MapInv, MapTypes, Good

\* A good table of the next state is an idle map.
LEMMA GoodIsIdle ==
  ASSUME HashOK, hash' = hash, NEW c, IsSize(c), Good(nodes', c), erasing' = {},
         Entries(nodes') = ids', ids' \subseteq OrderId, IsFiniteSet(ids'), size' = Cardinality(ids'),
         size' = Cardinality(Taken(nodes')), 2 * size' <= c
  PROVE  MapInv'
<1>1. c \in Nat \ {0} /\ nodes' \in Tables(c)
  BY DEF IsSize, Good
<1>2. Capacity' = c
  BY <1>1, TableSize DEF Capacity
<1>3. HashOK'
  BY DEF HashOK
<1>4. Reachable(nodes', c) /\ Once(nodes', c)
  BY DEF Good
<1>5. Reachable(nodes, Capacity)'
  BY <1>2, <1>4 DEF Reachable, HomeIn
<1>6. Once(nodes, Capacity)'
  BY <1>2, <1>4 DEF Once
<1>7. QED
  BY <1>1, <1>2, <1>3, <1>5, <1>6 DEF MapInv, MapTypes, Tables, IsSize, Divides, Entries, Taken

\* An insertion, with or without growth.
LEMMA InsertKeeps ==
  ASSUME MapInv, NEW id \in OrderId, MapInsert(id)
  PROVE  MapInv'
<1>1. Good(nodes, Capacity) /\ Entries(nodes) = ids /\ size = Cardinality(ids) /\ erasing = {} /\ MapTypes
  BY IdleIsGood DEF MapInsert, MapInv
<1>2. /\ HashOK /\ IsSize(Capacity) /\ IsFiniteSet(ids) /\ ids \subseteq OrderId
      /\ size = Cardinality(Taken(nodes)) /\ 2 * size <= Capacity
      /\ Capacity \in Nat \ {0} /\ size \in Nat /\ size < Capacity
  BY <1>1, SizeFacts DEF MapTypes
<1>3. id \notin ids
  <2>1. nodes[ProbeEnd(nodes, id)] # id
    BY DEF MapInsert, MapFind
  <2>2. QED
    BY <1>1, <1>2, <2>1, FindFacts
<1>4. PICK t : t = IF (size + 1) * 2 > Capacity THEN Rehashed(nodes) ELSE nodes
  OBVIOUS
<1>5. PICK c : /\ IsSize(c) /\ Good(t, c) /\ Entries(t) = ids /\ Cardinality(Taken(t)) = size
               /\ 2 * (size + 1) <= c /\ c \in Nat
  <2>1. CASE (size + 1) * 2 > Capacity
    <3>1. 2 * Capacity <= MaxSize
      BY <2>1 DEF MapInsert
    <3>2. IsSize(2 * Capacity)
      BY <1>2, <3>1, IdMapAssumption DEF IsSize
    <3>3. Good(t, 2 * Capacity) /\ Entries(t) = ids /\ Cardinality(Taken(t)) = size
      BY <1>1, <1>2, <1>4, <2>1, <3>2, RehashedFacts
    <3>4. 2 * (size + 1) <= 2 * Capacity /\ 2 * Capacity \in Nat
      BY <1>2
    <3>5. QED
      BY <3>2, <3>3, <3>4
  <2>2. CASE ~((size + 1) * 2 > Capacity)
    <3>1. 2 * (size + 1) <= Capacity
      BY <1>2, <2>2
    <3>2. QED
      BY <1>1, <1>2, <1>4, <2>2, <3>1
  <2>3. QED
    BY <2>1, <2>2
<1>6. nodes' = PutId(t, id) /\ size' = size + 1 /\ ids' = ids \union {id} /\ hash' = hash /\ erasing' = {}
  BY <1>1, <1>4 DEF MapInsert
<1>7. /\ Good(nodes', c) /\ Entries(nodes') = ids' /\ Cardinality(Taken(nodes')) = size'
  <2>1. Cardinality(Taken(t)) + 1 < c
    BY <1>2, <1>5
  <2>2. id \notin Entries(t)
    BY <1>3, <1>5
  <2>3. QED
    BY <1>2, <1>5, <1>6, <2>1, <2>2, PutFacts
<1>8. IsFiniteSet(ids') /\ Cardinality(ids') = size' /\ ids' \subseteq OrderId
  <2>1. IsFiniteSet(ids \union {id}) /\ Cardinality(ids \union {id}) = Cardinality(ids) + 1
    BY <1>2, <1>3, FS_AddElement
  <2>2. QED
    BY <1>1, <1>2, <1>6, <2>1
<1>9. 2 * size' <= c
  BY <1>5, <1>6
<1>10. QED
  BY <1>2, <1>5, <1>6, <1>7, <1>8, <1>9, GoodIsIdle

\* The gap in the next state.
LEMMA GapAfter ==
  ASSUME hash' = hash, NEW CONSTANT e, NEW CONSTANT c, c = Capacity', GapOK(e, nodes', ids', c)
  PROVE  GapOK(e, nodes, ids, Capacity)'
<1>1. PICK g \in 1..(e.rounds + 1) :
        /\ e.next = (e.hole + g) % c
        /\ \A j \in 0..(c - 1) : 0 < Dist(e.hole, j, c) /\ Dist(e.hole, j, c) < g =>
             ~(Dist(HomeIn(nodes'[j], c), e.hole, c) < Dist(HomeIn(nodes'[j], c), j, c))
  BY DEF GapOK
<1>2. \E g_1 \in 1..(e.rounds + 1) :
        /\ e.next = (e.hole + g_1) % Capacity'
        /\ \A j \in 0..(Capacity' - 1) : 0 < Dist(e.hole, j, Capacity') /\ Dist(e.hole, j, Capacity') < g_1 =>
             ~(Dist(HomeIn(nodes[j], Capacity)', e.hole, Capacity') < Dist(HomeIn(nodes[j], Capacity)', j, Capacity'))
  BY <1>1 DEF HomeIn
<1>3. /\ e \in [hole : 0..(c - 1), next : 0..(c - 1), rounds : 0..(c - 1)]
      /\ nodes'[e.hole] # NoId
      /\ \A i, j \in 0..(c - 1) : i # e.hole /\ j # e.hole /\ nodes'[i] # NoId /\ nodes'[i] = nodes'[j] => i = j
      /\ {nodes'[j] : j \in Taken(nodes') \ {e.hole}} = ids'
      /\ \E s \in 0..(c - 1) :
           /\ e.next = (s + (e.rounds + 1)) % c
           /\ \A k \in 0..e.rounds : nodes'[(s + k) % c] # NoId
  BY DEF GapOK
<1>4. Taken(nodes)' = Taken(nodes')
  BY DEF Taken
<1>5. QED
  BY <1>2, <1>3, <1>4 DEF GapOK, Dist

\* An erase opens a gap at the slot of its id.
LEMMA EraseKeeps ==
  ASSUME MapInv, NEW id \in OrderId, MapErase(id)
  PROVE  MapInv'
<1>1. Good(nodes, Capacity) /\ Entries(nodes) = ids /\ size = Cardinality(ids) /\ erasing = {} /\ MapTypes
  BY IdleIsGood DEF MapErase, MapInv
<1>2. /\ HashOK /\ IsSize(Capacity) /\ IsFiniteSet(ids) /\ ids \subseteq OrderId
      /\ size = Cardinality(Taken(nodes)) /\ 2 * size <= Capacity
      /\ Capacity \in Nat \ {0} /\ size \in Nat /\ size < Capacity
      /\ DOMAIN nodes = 0..(Capacity - 1)
  BY <1>1, SizeFacts DEF MapTypes
<1>3. PICK c \in Nat \ {0} : c = Capacity
  BY <1>2
<1>4. PICK i : i = ProbeEnd(nodes, id)
  OBVIOUS
<1>5. nodes[i] = id /\ i \in 0..(c - 1) /\ id # NoId
  <2>1. nodes[i] = id
    BY <1>4 DEF MapErase, MapFind
  <2>2. i \in 0..(c - 1)
    BY <1>1, <1>2, <1>3, <1>4, ProbeFacts
  <2>3. QED
    BY <2>1, <2>2, IdMapAssumption
<1>6. PICK e : e = [hole |-> i, next |-> After(i, 1), rounds |-> 0]
  OBVIOUS
<1>7. /\ erasing' = {e} /\ ids' = ids \ {id} /\ hash' = hash /\ nodes' = nodes /\ size' = size
  BY <1>4, <1>6 DEF MapErase
<1>8. e.hole = i /\ e.next = (i + 1) % c /\ e.rounds = 0 /\ e.next \in 0..(c - 1)
  <2>1. e.hole = i /\ e.next = (i + 1) % c /\ e.rounds = 0
    BY <1>3, <1>6 DEF After
  <2>2. (i + 1) % c = IF i + 1 < c THEN i + 1 ELSE i + 1 - c
    <3>1. 1 \in 0..c
      OBVIOUS
    <3>2. QED
      BY <1>5, <3>1, RoundFacts
  <2>3. (i + 1) % c \in 0..(c - 1)
    BY <1>3, <1>5, <2>2
  <2>4. QED
    BY <2>1, <2>3
<1>9. GapOK(e, nodes, ids', c)
  <2>1. e \in [hole : 0..(c - 1), next : 0..(c - 1), rounds : 0..(c - 1)]
    BY <1>3, <1>5, <1>6, <1>8
  <2>2. nodes[e.hole] # NoId
    BY <1>5, <1>8
  <2>3. \A j \in Taken(nodes) : j \in 0..(c - 1) /\ nodes[j] # NoId /\ (nodes[j] = id => j = i)
    BY <1>1, <1>2, <1>3, <1>5 DEF Good, Once, Taken
  <2>4. i \in Taken(nodes)
    BY <1>2, <1>3, <1>5 DEF Taken
  <2>5. {nodes[j] : j \in Taken(nodes) \ {e.hole}} = ids'
    <3>1. {nodes[j] : j \in Taken(nodes)} = ids
      BY <1>1 DEF Entries
    <3>2. ASSUME NEW x, x \in {nodes[j] : j \in Taken(nodes) \ {i}} PROVE x \in ids \ {id}
      BY <2>3, <3>1, <3>2
    <3>3. ASSUME NEW x \in ids \ {id} PROVE x \in {nodes[j] : j \in Taken(nodes) \ {i}}
      BY <1>5, <3>1
    <3>4. QED
      BY <1>7, <1>8, <3>2, <3>3
  <2>6. \A x, y \in 0..(c - 1) : x # e.hole /\ y # e.hole /\ nodes[x] # NoId /\ nodes[x] = nodes[y] => x = y
    BY <1>1, <1>3 DEF Good, Once
  <2>7. \E g \in 1..(e.rounds + 1) :
          /\ e.next = (e.hole + g) % c
          /\ \A j \in 0..(c - 1) : 0 < Dist(e.hole, j, c) /\ Dist(e.hole, j, c) < g =>
               ~(Dist(HomeIn(nodes[j], c), e.hole, c) < Dist(HomeIn(nodes[j], c), j, c))
    <3>1. \A j \in 0..(c - 1) : Dist(i, j, c) \in 0..(c - 1)
      BY <1>5, DistFacts
    <3>2. \A j \in 0..(c - 1) : ~(0 < Dist(e.hole, j, c) /\ Dist(e.hole, j, c) < 1)
      BY <1>8, <3>1
    <3>3. 1 \in 1..(e.rounds + 1) /\ e.next = (e.hole + 1) % c
      BY <1>8
    <3>4. QED
      BY <3>2, <3>3
  <2>8. \E s \in 0..(c - 1) :
          /\ e.next = (s + (e.rounds + 1)) % c
          /\ \A k \in 0..e.rounds : nodes[(s + k) % c] # NoId
    <3>1. e.next = (i + (e.rounds + 1)) % c
      BY <1>8
    <3>2. ASSUME NEW k \in 0..e.rounds PROVE nodes[(i + k) % c] # NoId
      <4>1. k = 0 /\ 0 \in 0..c
        BY <1>8
      <4>2. (i + 0) % c = IF i + 0 < c THEN i + 0 ELSE i + 0 - c
        BY <1>5, <4>1, RoundFacts
      <4>3. (i + k) % c = i
        BY <1>5, <4>1, <4>2
      <4>4. QED
        BY <1>5, <4>3
    <3>3. QED
      BY <1>5, <3>1, <3>2
  <2>9. QED
    BY <2>1, <2>2, <2>5, <2>6, <2>7, <2>8 DEF GapOK
<1>10. /\ IsFiniteSet(ids') /\ ids' \subseteq OrderId /\ size = Cardinality(ids') + 1
  <2>1. id \in ids
    <3>1. i \in Taken(nodes)
      BY <1>2, <1>3, <1>5 DEF Taken
    <3>2. QED
      BY <1>1, <1>5, <3>1 DEF Entries
  <2>2. IsFiniteSet(ids') /\ Cardinality(ids') = Cardinality(ids) - 1
    BY <1>2, <1>7, <2>1, FS_RemoveElement
  <2>3. QED
    BY <1>1, <1>2, <1>7, <2>2
<1>11. Capacity' = Capacity /\ MapTypes'
  <2>1. Capacity' = Capacity
    BY <1>7 DEF Capacity
  <2>2. QED
    BY <1>1, <1>7, <1>10, <2>1 DEF MapTypes, HashOK, Reachable, HomeIn, Taken, IsSize, Divides, Tables
<1>12. GapOK(e, nodes, ids, Capacity)'
  BY <1>3, <1>7, <1>9, <1>11, GapAfter
<1>13. QED
  BY <1>7, <1>10, <1>11, <1>12 DEF MapInv

\* While an erase runs: its locals, and what they mean.
LEMMA RunningErase ==
  ASSUME MapInv, NEW e \in erasing
  PROVE  erasing = {e} /\ GapOK(e, nodes, ids, Capacity) /\ size = Cardinality(ids) + 1
  BY DEF MapInv

\* One round of the shift: the gap stays or moves to the slot seen.
LEMMA ShiftKeeps ==
  ASSUME MapInv, Shift
  PROVE  MapInv'
<1>1. PICK e \in erasing :
        /\ nodes[e.next] # NoId
        /\ erasing' = {[hole   |-> IF Movable(Home(nodes[e.next]), e.hole, e.next) THEN e.next ELSE e.hole,
                        next   |-> After(e.next, 1),
                        rounds |-> e.rounds + 1]}
        /\ nodes' = IF Movable(Home(nodes[e.next]), e.hole, e.next)
                    THEN [nodes EXCEPT ![e.hole] = nodes[e.next]] ELSE nodes
        /\ hash' = hash /\ size' = size /\ ids' = ids
  BY DEF Shift
<1>2. erasing = {e} /\ GapOK(e, nodes, ids, Capacity) /\ size = Cardinality(ids) + 1 /\ MapTypes
  BY <1>1, RunningErase DEF MapInv
<1>3. PICK c \in Nat \ {0} : c = Capacity
  BY <1>2, SizeFacts
<1>4. /\ HashOK /\ IsSize(c) /\ nodes \in Tables(c) /\ Reachable(nodes, c) /\ DOMAIN nodes = 0..(c - 1)
      /\ size = Cardinality(Taken(nodes)) /\ size < c
  BY <1>2, <1>3, SizeFacts DEF MapTypes
<1>5. PICK i \in 0..(c - 1), n \in 0..(c - 1), r \in 0..(c - 1) : i = e.hole /\ n = e.next /\ r = e.rounds
  BY <1>2, <1>3 DEF GapOK
<1>6. nodes[i] # NoId /\ nodes[n] # NoId
  BY <1>1, <1>2, <1>3, <1>5 DEF GapOK
<1>7. PICK s \in 0..(c - 1) : n = (s + (r + 1)) % c /\ \A k \in 0..r : nodes[(s + k) % c] # NoId
  BY <1>2, <1>3, <1>5 DEF GapOK
<1>8. r + 1 \in 0..(c - 1)
  <2>1. SUFFICES ASSUME r = c - 1 PROVE FALSE
    OBVIOUS
  <2>2. PICK j \in 0..(c - 1) : nodes[j] = NoId
    BY <1>4, EmptySlot
  <2>3. Dist(s, j, c) \in 0..(c - 1) /\ (s + Dist(s, j, c)) % c = j
    BY DistFacts
  <2>4. QED
    BY <1>7, <2>1, <2>2, <2>3
<1>9. PICK g \in 1..(r + 1) :
        /\ n = (i + g) % c
        /\ \A j \in 0..(c - 1) : 0 < Dist(i, j, c) /\ Dist(i, j, c) < g =>
             ~(Dist(HomeIn(nodes[j], c), i, c) < Dist(HomeIn(nodes[j], c), j, c))
  BY <1>2, <1>3, <1>5 DEF GapOK
<1>10. g \in 1..(c - 1) /\ Dist(i, n, c) = g /\ i # n
  <2>1. g \in 0..(c - 1) /\ g >= 1
    BY <1>8, <1>9
  <2>2. Dist(i, n, c) = g
    BY <1>9, <2>1, StepFacts
  <2>3. Dist(i, i, c) = 0
    BY DEF Dist
  <2>4. QED
    BY <2>1, <2>2, <2>3
<1>11. PICK h \in 0..(c - 1) : h = HomeIn(nodes[n], c) /\ h = Home(nodes[n])
  <2>1. nodes[n] \in OrderId
    BY <1>4, <1>6 DEF Tables
  <2>2. HomeIn(nodes[n], c) \in 0..(c - 1)
    BY <1>4, <2>1, HomeType
  <2>3. QED
    BY <1>3, <2>2 DEF Home
<1>12. PICK f : f = [hole |-> IF Movable(h, i, n) THEN n ELSE i, next |-> (n + 1) % c, rounds |-> r + 1]
  OBVIOUS
<1>13. erasing' = {f} /\ nodes' = IF Movable(h, i, n) THEN [nodes EXCEPT ![i] = nodes[n]] ELSE nodes
  BY <1>1, <1>3, <1>5, <1>11, <1>12 DEF After
<1>14. /\ nodes' \in Tables(c) /\ DOMAIN nodes' = 0..(c - 1) /\ nodes'[n] = nodes[n]
       /\ \A j \in 0..(c - 1) : j # i => nodes'[j] = nodes[j]
       /\ \A j \in 0..(c - 1) : nodes'[j] # NoId <=> nodes[j] # NoId
       /\ nodes'[i] = IF Movable(h, i, n) THEN nodes[n] ELSE nodes[i]
  BY <1>4, <1>6, <1>10, <1>13 DEF Tables
<1>15. Taken(nodes') = Taken(nodes)
  BY <1>4, <1>14 DEF Taken
<1>16. (n + 1) % c \in 0..(c - 1) /\ (n + 1) % c = (s + (r + 2)) % c /\ (n + 1) % c = (i + (g + 1)) % c
  <2>1. 1 \in 0..c
    OBVIOUS
  <2>2. (n + 1) % c = IF n + 1 < c THEN n + 1 ELSE n + 1 - c
    BY <2>1, RoundFacts
  <2>3. r + 1 \in 0..c /\ (r + 1) + 1 <= c /\ (r + 1) + 1 = r + 2
    BY <1>8
  <2>4. (n + 1) % c = (s + ((r + 1) + 1)) % c
    BY <1>7, <2>1, <2>3, StepsInARow
  <2>5. g \in 0..c /\ g + 1 <= c
    BY <1>10
  <2>6. (n + 1) % c = (i + (g + 1)) % c
    BY <1>9, <2>1, <2>5, StepsInARow
  <2>7. QED
    BY <2>2, <2>3, <2>4, <2>6
<1>17. f.hole = (IF Movable(h, i, n) THEN n ELSE i) /\ f.next = (n + 1) % c /\ f.rounds = r + 1
  BY <1>12
<1>18. \E s_1 \in 0..(c - 1) :
         /\ f.next = (s_1 + (f.rounds + 1)) % c
         /\ \A k \in 0..f.rounds : nodes'[(s_1 + k) % c] # NoId
  <2>1. f.rounds + 1 = r + 2
    BY <1>17
  <2>2. ASSUME NEW k \in 0..f.rounds PROVE nodes'[(s + k) % c] # NoId
    <3>1. k \in 0..(c - 1) /\ (k \in 0..r \/ k = r + 1)
      BY <1>8, <1>17
    <3>2. (s + k) % c \in 0..(c - 1)
      BY <3>1, StepFacts
    <3>3. nodes[(s + k) % c] # NoId
      BY <1>6, <1>7, <3>1
    <3>4. QED
      BY <1>14, <3>2, <3>3
  <2>3. f.next = (s + (f.rounds + 1)) % c
    BY <1>16, <1>17, <2>1
  <2>4. QED
    BY <2>2, <2>3
<1>19. i # n /\ (Movable(h, i, n) <=> Dist(h, i, c) < Dist(h, n, c))
  BY <1>10, DistSums
<1>20. Reachable(nodes', c)
  <2>1. SUFFICES ASSUME NEW j \in 0..(c - 1), nodes'[j] # NoId,
                        NEW k \in 0..(c - 1), k < Dist(HomeIn(nodes'[j], c), j, c)
                 PROVE  nodes'[(HomeIn(nodes'[j], c) + k) % c] # NoId
    BY DEF Reachable
  <2>2. nodes'[j] \in OrderId
    BY <1>14, <2>1 DEF Tables
  <2>3. HomeIn(nodes'[j], c) \in 0..(c - 1)
    BY <1>4, <2>2, HomeType
  <2>4. (HomeIn(nodes'[j], c) + k) % c \in 0..(c - 1)
    BY <2>3, StepFacts
  <2>5. CASE j = i /\ Movable(h, i, n)
    <3>1. nodes'[j] = nodes[n] /\ HomeIn(nodes'[j], c) = h
      BY <1>11, <1>14, <2>5
    <3>2. k < Dist(h, n, c)
      <4>1. k < Dist(h, i, c) /\ Dist(h, i, c) < Dist(h, n, c)
        BY <1>19, <2>1, <2>5, <3>1
      <4>2. Dist(h, i, c) \in Int /\ Dist(h, n, c) \in Int
        BY DEF Dist
      <4>3. QED
        BY <4>1, <4>2
    <3>3. nodes[(h + k) % c] # NoId
      BY <1>4, <1>6, <1>11, <3>2 DEF Reachable
    <3>4. QED
      BY <1>14, <2>4, <3>1, <3>3
  <2>6. CASE ~(j = i /\ Movable(h, i, n))
    <3>1. nodes'[j] = nodes[j]
      BY <1>14, <2>6
    <3>2. nodes[(HomeIn(nodes[j], c) + k) % c] # NoId
      BY <1>4, <2>1, <3>1 DEF Reachable
    <3>3. QED
      BY <1>14, <2>4, <3>1, <3>2
  <2>7. QED
    BY <2>5, <2>6
<1>21. /\ \A x, y \in 0..(c - 1) : x # i /\ y # i /\ nodes[x] # NoId /\ nodes[x] = nodes[y] => x = y
       /\ {nodes[j] : j \in Taken(nodes) \ {i}} = ids
  BY <1>2, <1>3, <1>5 DEF GapOK
<1>22. GapOK(f, nodes', ids', c)
  <2>1. f \in [hole : 0..(c - 1), next : 0..(c - 1), rounds : 0..(c - 1)]
    BY <1>8, <1>12, <1>16
  <2>2. CASE Movable(h, i, n)
    <3>1. f.hole = n /\ nodes'[i] = nodes[n]
      BY <1>14, <1>17, <2>2
    <3>2. \A x, y \in 0..(c - 1) : x # n /\ y # n /\ nodes'[x] # NoId /\ nodes'[x] = nodes'[y] => x = y
      <4>1. SUFFICES ASSUME NEW x \in 0..(c - 1), NEW y \in 0..(c - 1), x # n, y # n,
                            nodes'[x] # NoId, nodes'[x] = nodes'[y], x # y
                     PROVE  FALSE
        OBVIOUS
      <4>2. CASE x # i /\ y # i
        BY <1>14, <1>21, <4>1, <4>2
      <4>3. CASE x = i
        <5>1. nodes[n] = nodes[y] /\ y # i
          BY <1>14, <3>1, <4>1, <4>3
        <5>2. QED
          BY <1>6, <1>19, <1>21, <4>1, <5>1
      <4>4. CASE y = i
        <5>1. nodes[n] = nodes[x] /\ x # i
          BY <1>14, <3>1, <4>1, <4>4
        <5>2. QED
          BY <1>6, <1>19, <1>21, <4>1, <5>1
      <4>5. QED
        BY <4>2, <4>3, <4>4
    <3>3. {nodes'[j] : j \in Taken(nodes') \ {n}} = ids
      <4>1. i \in Taken(nodes) /\ n \in Taken(nodes) /\ Taken(nodes) \in SUBSET (0..(c - 1))
        BY <1>4, <1>6 DEF Taken
      <4>2. ASSUME NEW j \in Taken(nodes) \ {n} PROVE nodes'[j] \in ids
        <5>1. CASE j = i
          <6>1. nodes'[j] = nodes[n] /\ n \in Taken(nodes) \ {i}
            BY <1>19, <3>1, <4>1, <5>1
          <6>2. QED
            BY <1>21, <6>1
        <5>2. CASE j # i
          <6>1. nodes'[j] = nodes[j] /\ j \in Taken(nodes) \ {i}
            BY <1>14, <4>1, <5>2
          <6>2. QED
            BY <1>21, <6>1
        <5>3. QED
          BY <5>1, <5>2
      <4>3. ASSUME NEW x \in ids PROVE x \in {nodes'[j] : j \in Taken(nodes) \ {n}}
        <5>1. PICK j \in Taken(nodes) \ {i} : x = nodes[j]
          BY <1>21
        <5>2. CASE j = n
          <6>1. x = nodes'[i] /\ i \in Taken(nodes) \ {n}
            BY <1>19, <3>1, <4>1, <5>1, <5>2
          <6>2. QED
            BY <6>1
        <5>3. CASE j # n
          <6>1. x = nodes'[j] /\ j \in Taken(nodes) \ {n}
            BY <1>14, <4>1, <5>1, <5>3
          <6>2. QED
            BY <6>1
        <5>4. QED
          BY <5>2, <5>3
      <4>4. QED
        BY <1>15, <4>2, <4>3
    <3>4. \E g_1 \in 1..(f.rounds + 1) :
            /\ f.next = (n + g_1) % c
            /\ \A j \in 0..(c - 1) : 0 < Dist(n, j, c) /\ Dist(n, j, c) < g_1 =>
                 ~(Dist(HomeIn(nodes'[j], c), n, c) < Dist(HomeIn(nodes'[j], c), j, c))
      <4>1. \A j \in 0..(c - 1) : Dist(n, j, c) \in 0..(c - 1)
        BY DistFacts
      <4>2. \A j \in 0..(c - 1) : ~(0 < Dist(n, j, c) /\ Dist(n, j, c) < 1)
        BY <4>1
      <4>3. 1 \in 1..(f.rounds + 1) /\ f.next = (n + 1) % c
        BY <1>8, <1>17
      <4>4. QED
        BY <4>2, <4>3
    <3>5. nodes'[f.hole] # NoId
      BY <1>6, <1>14, <3>1
    <3>6. QED
      BY <1>1, <1>18, <2>1, <3>1, <3>2, <3>3, <3>4, <3>5 DEF GapOK
  <2>3. CASE ~Movable(h, i, n)
    <3>1. f.hole = i /\ nodes' = nodes /\ nodes'[f.hole] # NoId
      BY <1>6, <1>13, <1>17, <2>3
    <3>2. \E g_1 \in 1..(f.rounds + 1) :
            /\ f.next = (i + g_1) % c
            /\ \A j \in 0..(c - 1) : 0 < Dist(i, j, c) /\ Dist(i, j, c) < g_1 =>
                 ~(Dist(HomeIn(nodes[j], c), i, c) < Dist(HomeIn(nodes[j], c), j, c))
      <4>1. g + 1 \in 1..(f.rounds + 1) /\ f.next = (i + (g + 1)) % c
        BY <1>8, <1>9, <1>16, <1>17
      <4>2. ASSUME NEW j \in 0..(c - 1), 0 < Dist(i, j, c), Dist(i, j, c) < g + 1
            PROVE  ~(Dist(HomeIn(nodes[j], c), i, c) < Dist(HomeIn(nodes[j], c), j, c))
        <5>1. Dist(i, j, c) \in 0..(c - 1) /\ (i + Dist(i, j, c)) % c = j
          BY DistFacts
        <5>2. CASE Dist(i, j, c) = g
          BY <1>9, <1>11, <1>19, <2>3, <5>1, <5>2
        <5>3. CASE Dist(i, j, c) # g
          <6>1. Dist(i, j, c) < g
            BY <4>2, <5>1, <5>3
          <6>2. QED
            BY <1>9, <4>2, <6>1
        <5>4. QED
          BY <5>2, <5>3
      <4>3. QED
        BY <4>1, <4>2
    <3>3. QED
      BY <1>1, <1>18, <1>21, <2>1, <3>1, <3>2 DEF GapOK
  <2>4. QED
    BY <2>2, <2>3
<1>23. Capacity' = c
  BY <1>14, TableSize DEF Capacity
<1>24. MapTypes'
  <2>1. Reachable(nodes, Capacity)'
    BY <1>1, <1>20, <1>23 DEF Reachable, HomeIn
  <2>2. IsSize(Capacity)' /\ (nodes \in Tables(Capacity))'
    BY <1>4, <1>14, <1>23 DEF IsSize, Divides, Tables
  <2>3. HashOK' /\ IsFiniteSet(ids)' /\ (ids \subseteq OrderId)'
    BY <1>1, <1>2 DEF HashOK, MapTypes
  <2>4. (size = Cardinality(Taken(nodes)) /\ 2 * size <= Capacity)'
    BY <1>1, <1>2, <1>3, <1>4, <1>15, <1>23 DEF MapTypes, Taken
  <2>5. QED
    BY <2>1, <2>2, <2>3, <2>4 DEF MapTypes
<1>25. GapOK(f, nodes, ids, Capacity)'
  BY <1>1, <1>22, <1>23, GapAfter
<1>26. QED
  BY <1>1, <1>2, <1>13, <1>24, <1>25 DEF MapInv

\* No entry that stays needs the hole when the shift ends at an empty slot.
LEMMA NoneNeedsHole ==
  ASSUME HashOK, NEW c \in Nat \ {0}, IsSize(c), NEW ns \in Tables(c), Reachable(ns, c),
         NEW e, NEW left, GapOK(e, ns, left, c), ns[e.next] = NoId,
         NEW j \in 0..(c - 1), j # e.hole, ns[j] # NoId
  PROVE  ~(Dist(HomeIn(ns[j], c), e.hole, c) < Dist(HomeIn(ns[j], c), j, c))
<1>1. PICK i \in 0..(c - 1), n \in 0..(c - 1), r \in 0..(c - 1) : i = e.hole /\ n = e.next /\ r = e.rounds
  BY DEF GapOK
<1>2. PICK g \in 1..(r + 1) :
        /\ n = (i + g) % c
        /\ \A x \in 0..(c - 1) : 0 < Dist(i, x, c) /\ Dist(i, x, c) < g =>
             ~(Dist(HomeIn(ns[x], c), i, c) < Dist(HomeIn(ns[x], c), x, c))
  BY <1>1 DEF GapOK
<1>3. ns[i] # NoId /\ ns[n] = NoId /\ i # n
  BY <1>1 DEF GapOK
<1>4. ns[j] \in OrderId
  BY DEF Tables
<1>5. PICK h \in 0..(c - 1) : h = HomeIn(ns[j], c)
  BY <1>4, HomeType
<1>6. SUFFICES ASSUME Dist(h, i, c) < Dist(h, j, c) PROVE FALSE
  BY <1>1, <1>5
<1>7. /\ Dist(h, j, c) = Dist(h, i, c) + Dist(i, j, c) /\ Dist(i, j, c) \in 1..(c - 1)
      /\ Dist(h, j, c) \in 0..(c - 1) /\ Dist(h, i, c) \in 0..(c - 1)
      /\ (i + Dist(i, j, c)) % c = j /\ (h + Dist(h, i, c)) % c = i
  <2>1. Dist(h, j, c) = Dist(h, i, c) + Dist(i, j, c)
    BY <1>6, DistSums
  <2>2. Dist(i, j, c) \in 1..(c - 1)
    BY <1>1, DistSums
  <2>3. Dist(h, j, c) \in 0..(c - 1) /\ Dist(h, i, c) \in 0..(c - 1)
    BY DistFacts
  <2>4. (i + Dist(i, j, c)) % c = j /\ (h + Dist(h, i, c)) % c = i
    BY DistFacts
  <2>5. QED
    BY <2>1, <2>2, <2>3, <2>4
<1>8. ~(Dist(i, j, c) < g)
  BY <1>2, <1>5, <1>6, <1>7
<1>9. Dist(i, j, c) # g
  BY <1>2, <1>3, <1>7
<1>10. g < Dist(i, j, c) /\ g \in 0..c
  BY <1>2, <1>7, <1>8, <1>9
<1>11. PICK k \in 0..(c - 1) : k = Dist(h, i, c) + g /\ k < Dist(h, j, c)
  <2>1. Dist(h, i, c) + g \in 0..(c - 1) /\ Dist(h, i, c) + g < Dist(h, j, c)
    BY <1>2, <1>7, <1>10
  <2>2. QED
    BY <2>1
<1>12. (h + k) % c = n
  <2>1. Dist(h, i, c) \in 0..c /\ Dist(h, i, c) + g <= c
    BY <1>7, <1>11
  <2>2. (((h + Dist(h, i, c)) % c) + g) % c = (h + (Dist(h, i, c) + g)) % c
    BY <1>10, <2>1, StepsInARow
  <2>3. QED
    BY <1>2, <1>7, <1>11, <2>2
<1>13. ns[(h + k) % c] # NoId
  BY <1>5, <1>11 DEF Reachable
<1>14. QED
  BY <1>3, <1>12, <1>13

\* The end of an erase: the hole is emptied.
LEMMA EndShiftKeeps ==
  ASSUME MapInv, EndShift
  PROVE  MapInv'
<1>1. PICK e \in erasing :
        /\ nodes[e.next] = NoId /\ nodes' = [nodes EXCEPT ![e.hole] = NoId]
        /\ size' = size - 1 /\ erasing' = {} /\ hash' = hash /\ ids' = ids
  BY DEF EndShift
<1>2. erasing = {e} /\ GapOK(e, nodes, ids, Capacity) /\ size = Cardinality(ids) + 1 /\ MapTypes
  BY <1>1, RunningErase DEF MapInv
<1>3. PICK c \in Nat \ {0} : c = Capacity
  BY <1>2, SizeFacts
<1>4. /\ HashOK /\ IsSize(c) /\ nodes \in Tables(c) /\ Reachable(nodes, c) /\ DOMAIN nodes = 0..(c - 1)
      /\ size = Cardinality(Taken(nodes)) /\ size < c /\ size \in Nat /\ IsFiniteSet(Taken(nodes))
      /\ IsFiniteSet(ids) /\ ids \subseteq OrderId /\ 2 * size <= c /\ Cardinality(ids) \in Nat
  BY <1>2, <1>3, SizeFacts DEF MapTypes
<1>5. PICK i \in 0..(c - 1) : i = e.hole /\ nodes[i] # NoId
  BY <1>2, <1>3 DEF GapOK
<1>6. /\ nodes' \in Tables(c) /\ DOMAIN nodes' = 0..(c - 1) /\ nodes'[i] = NoId
      /\ \A j \in 0..(c - 1) : j # i => nodes'[j] = nodes[j]
  BY <1>1, <1>4, <1>5 DEF Tables
<1>7. Taken(nodes') = Taken(nodes) \ {i} /\ i \in Taken(nodes)
  BY <1>4, <1>5, <1>6 DEF Taken
<1>8. Cardinality(Taken(nodes')) = size - 1
  BY <1>4, <1>7, FS_RemoveElement
<1>9. Entries(nodes') = ids
  <2>1. {nodes[j] : j \in Taken(nodes) \ {i}} = ids
    BY <1>2, <1>3, <1>5 DEF GapOK
  <2>2. \A j \in Taken(nodes) \ {i} : nodes'[j] = nodes[j]
    BY <1>4, <1>6 DEF Taken
  <2>3. {nodes'[j] : j \in Taken(nodes) \ {i}} = {nodes[j] : j \in Taken(nodes) \ {i}}
    BY <2>2
  <2>4. QED
    BY <1>7, <2>1, <2>3 DEF Entries
<1>10. Once(nodes', c)
  <2>1. \A x, y \in 0..(c - 1) : x # i /\ y # i /\ nodes[x] # NoId /\ nodes[x] = nodes[y] => x = y
    BY <1>2, <1>3, <1>5 DEF GapOK
  <2>2. \A x \in 0..(c - 1) : nodes'[x] # NoId => x # i
    BY <1>6
  <2>3. QED
    BY <1>6, <2>1, <2>2 DEF Once
<1>11. Reachable(nodes', c)
  <2>1. SUFFICES ASSUME NEW j \in 0..(c - 1), nodes'[j] # NoId,
                        NEW k \in 0..(c - 1), k < Dist(HomeIn(nodes'[j], c), j, c)
                 PROVE  nodes'[(HomeIn(nodes'[j], c) + k) % c] # NoId
    BY DEF Reachable
  <2>2. j # i /\ nodes'[j] = nodes[j] /\ nodes[j] # NoId /\ nodes[j] \in OrderId
    BY <1>4, <1>6, <2>1 DEF Tables
  <2>3. PICK h \in 0..(c - 1) : h = HomeIn(nodes[j], c)
    BY <1>4, <2>2, HomeType
  <2>4. ~(Dist(h, i, c) < Dist(h, j, c))
    BY <1>1, <1>2, <1>3, <1>4, <1>5, <2>2, <2>3, NoneNeedsHole
  <2>5. (h + k) % c \in 0..(c - 1) /\ Dist(h, (h + k) % c, c) = k
    BY StepFacts
  <2>6. (h + k) % c # i
    BY <2>1, <2>2, <2>3, <2>4, <2>5
  <2>7. nodes[(h + k) % c] # NoId
    BY <1>4, <2>1, <2>2, <2>3 DEF Reachable
  <2>8. QED
    BY <1>6, <2>2, <2>3, <2>5, <2>6, <2>7
<1>12. size' = Cardinality(ids') /\ size' = Cardinality(Taken(nodes')) /\ 2 * size' <= c /\ size' < c
  BY <1>1, <1>2, <1>4, <1>8
<1>13. Good(nodes', c)
  BY <1>6, <1>10, <1>11, <1>12 DEF Good
<1>14. QED
  BY <1>1, <1>4, <1>9, <1>12, <1>13, GoodIsIdle

\* Every step of the map keeps the invariant.
LEMMA MapInvNext == MapInv /\ [MapNext]_mapVars => MapInv'
<1>1. SUFFICES ASSUME MapInv, [MapNext]_mapVars PROVE MapInv'
  OBVIOUS
<1>2. CASE UNCHANGED mapVars
  <2>1. Capacity' = Capacity
    BY <1>2 DEF Capacity, mapVars
  <2>2. MapTypes'
    BY <1>1, <1>2, <2>1 DEF MapInv, MapTypes, HashOK, Reachable, HomeIn, Taken, IsSize, Divides, Tables, mapVars
  <2>3. CASE erasing = {}
    BY <1>1, <1>2, <2>1, <2>2, <2>3 DEF MapInv, Once, Entries, Taken, mapVars
  <2>4. CASE erasing # {}
    <3>1. PICK e : erasing = {e} /\ GapOK(e, nodes, ids, Capacity) /\ size = Cardinality(ids) + 1
      BY <1>1, <2>4 DEF MapInv
    <3>2. GapOK(e, nodes', ids', Capacity') /\ hash' = hash
      BY <1>2, <2>1, <3>1 DEF mapVars
    <3>3. PICK c : c = Capacity
      OBVIOUS
    <3>4. GapOK(e, nodes', ids', c) /\ c = Capacity'
      BY <2>1, <3>2, <3>3
    <3>5. GapOK(e, nodes, ids, Capacity)'
      BY <3>2, <3>4, GapAfter
    <3>6. QED
      BY <1>2, <2>2, <3>1, <3>5 DEF MapInv, mapVars
  <2>5. QED
    BY <2>3, <2>4
<1>3. QED
  BY <1>1, <1>2, InsertKeeps, EraseKeeps, ShiftKeeps, EndShiftKeeps DEF MapNext

\* The id map holds what was inserted and not erased and nothing else, stays half
\* empty, and an erase ends before it has gone round: whatever the hash function, the
\* keys and the sizes (find, insert, rehash and erase with its backward shift).
THEOREM MapAlwaysHolds == MapSpec => []MapHolds
<1>1. MapInv => MapHolds
  <2>1. SUFFICES ASSUME MapInv PROVE FindsMembers /\ HalfEmpty /\ EraseEnds
    BY DEF MapHolds
  <2>2. MapTypes
    BY <2>1 DEF MapInv
  <2>3. HalfEmpty
    <3>1. {i \in MapSlot : nodes[i] # NoId} = Taken(nodes)
      BY DEF MapSlot, Taken
    <3>2. QED
      BY <2>2, <3>1 DEF HalfEmpty, MapTypes
  <2>4. ASSUME NEW e \in erasing PROVE e.rounds < Capacity
    <3>1. GapOK(e, nodes, ids, Capacity) /\ Capacity \in Nat \ {0}
      BY <2>1, <2>2, <2>4, RunningErase, SizeFacts
    <3>2. e.rounds \in 0..(Capacity - 1)
      BY <3>1 DEF GapOK
    <3>3. QED
      BY <3>1, <3>2
  <2>5. ASSUME erasing = {}, NEW id \in OrderId PROVE MapFind(id) <=> id \in ids
    <3>1. Good(nodes, Capacity) /\ Entries(nodes) = ids /\ HashOK /\ IsSize(Capacity)
      BY <2>1, <2>2, <2>5, IdleIsGood DEF MapTypes
    <3>2. QED
      BY <3>1, FindFacts DEF MapFind
  <2>6. FindsMembers
    BY <2>1, <2>5, IdleIsGood DEF FindsMembers
  <2>7. QED
    BY <2>3, <2>4, <2>6 DEF EraseEnds
<1>2. QED
  BY <1>1, MapInvInit, MapInvNext, PTL DEF MapSpec

-----------------------------------------------------------------------------
(* The core of NativeBook.                                                 *)

Fill == [maker : Id, price : 1..MaxPrice, quantity : Nat, left : Nat]

Call == [kind : {"idle", "limit", "market"}, side : Side, taker : Id \union {NoOrder},
         limit : 0..MaxPrice, quantity : Nat, remaining : Nat, raw : Seq(Fill)]

\* The order a running call may leave in the book is not there yet.
CallOK ==
  /\ call \in Call
  /\ call.kind = "limit" => call.limit # 0 /\ call.taker \in Id /\ call.taker \notin DOMAIN node

CoreTypes ==
  /\ DOMAIN node \subseteq Id
  /\ node = [id \in DOMAIN node |-> node[id]]
  /\ \A id \in DOMAIN node : node[id] \in [side : Side, price : 1..MaxPrice, qty : Nat]
  /\ sides \in [Side -> SideUpTo(MaxPrice)]
  /\ level = [s \in Side |-> level[s]]
  /\ \A s \in Side : \A p \in DOMAIN level[s] : level[s][p].list \in Seq(Id)

Book == CoreTypes /\ SidesWellFormed /\ CoreCoherent

\* The inductive invariant.
IInv == CallOK /\ Book

\* The nodes of a level.
At(s, p) == {id \in DOMAIN node : node[id].side = s /\ node[id].price = p}

\* A level of the book: its price is in bounds, its list holds its orders.
LEMMA LevelFacts ==
  ASSUME Book, NEW s \in Side, NEW p \in Prices(sides[s])
  PROVE  /\ p \in 1..MaxPrice /\ p \in DOMAIN level[s]
         /\ level[s][p].list \in Seq(Id) /\ level[s][p].list # <<>>
         /\ IsInjective(level[s][p].list) /\ Range(level[s][p].list) = At(s, p)
<1>1. MaxPrice \in Nat /\ sides[s] \in SideUpTo(MaxPrice) /\ Consistent(sides[s])
  BY NativeAssumption DEF Book, CoreTypes, SidesWellFormed, WellFormed
<1>2. p \in 1..MaxPrice
  BY <1>1, PricesFacts
<1>3. p \in DOMAIN level[s]
  BY DEF Book, CoreCoherent
<1>4. QED
  BY <1>2, <1>3 DEF Book, CoreCoherent, CoreTypes, At

\* The level of an order of the book.
LEMMA NodeFacts ==
  ASSUME Book, NEW id \in DOMAIN node
  PROVE  /\ id \in Id /\ node[id] \in [side : Side, price : 1..MaxPrice, qty : Nat]
         /\ node[id].price \in Prices(sides[node[id].side])
         /\ id \in At(node[id].side, node[id].price)
<1>1. id \in Id /\ node[id] \in [side : Side, price : 1..MaxPrice, qty : Nat]
  BY DEF Book, CoreTypes
<1>2. node[id].side \in Side
  BY <1>1
<1>3. node[id].price \in Prices(sides[node[id].side])
  BY <1>2 DEF Book, CoreCoherent
<1>4. QED
  BY <1>1, <1>3 DEF At

\* An order leaves its level: the others keep theirs, and a level without orders
\* is dropped.
LEMMA Leave ==
  ASSUME Book, NEW id \in DOMAIN node, NEW total, NEW list \in Seq(Id), IsInjective(list),
         NEW s, s = node[id].side, NEW p, p = node[id].price,
         Range(list) = Range(level[s][p].list) \ {id},
         SetLevel(s, p, total, list), node' = Without(node, id)
  PROVE  Book'
<1>1. /\ id \in Id /\ s \in Side /\ p \in 1..MaxPrice /\ p \in Prices(sides[s])
      /\ id \in At(s, p)
  BY NodeFacts
<1>2. p \in DOMAIN level[s] /\ Range(level[s][p].list) = At(s, p)
  BY <1>1, LevelFacts
<1>3. /\ DOMAIN node' = DOMAIN node \ {id} /\ node' = [x \in DOMAIN node' |-> node'[x]]
      /\ \A x \in DOMAIN node' : node'[x] = node[x]
  BY DEF Without, Restrict
<1>4. \A t \in Side : \A q : At(t, q)' = At(t, q) \ {id}
  BY <1>3 DEF At
<1>5. \A t \in Side : \A q : t # s \/ q # p => At(t, q)' = At(t, q)
  BY <1>1, <1>4 DEF At
<1>6. Range(list) = At(s, p)'
  BY <1>1, <1>2, <1>4
<1>7. DOMAIN node' \subseteq Id
      /\ \A x \in DOMAIN node' : node'[x] \in [side : Side, price : 1..MaxPrice, qty : Nat]
  BY <1>3 DEF Book, CoreTypes
<1>8. list = <<>> <=> Range(list) = {}
  BY EmptySeq DEF Range
<1>9. level = [t \in Side |-> level[t]] /\ sides \in [Side -> SideUpTo(MaxPrice)]
  BY DEF Book, CoreTypes
<1>10. \A t \in Side : /\ DOMAIN level[t] = Prices(sides[t])
                       /\ \A q \in DOMAIN level[t] :
                            /\ level[t][q].list \in Seq(Id) /\ level[t][q].list # <<>>
                            /\ IsInjective(level[t][q].list)
                            /\ Range(level[t][q].list) = At(t, q)
  BY DEF Book, CoreTypes, CoreCoherent, At
<1>11. CASE list = <<>>
  <2>1. /\ level' = [level EXCEPT ![s] = Without(@, p)]
        /\ sides' = [sides EXCEPT ![s] = Erase(@, p)]
    BY <1>11 DEF SetLevel
  <2>2. /\ level' = [t \in Side |-> level'[t]]
        /\ \A t \in Side : t # s => level'[t] = level[t]
        /\ DOMAIN level'[s] = DOMAIN level[s] \ {p}
        /\ \A q \in DOMAIN level[s] \ {p} : level'[s][q] = level[s][q]
    BY <1>1, <1>9, <2>1 DEF Without, Restrict
  <2>3. MaxPrice \in Nat /\ WellFormed(sides[s]) /\ sides[s] \in SideUpTo(MaxPrice)
    BY <1>1, NativeAssumption DEF Book, CoreTypes, SidesWellFormed
  <2>4. /\ Erase(sides[s], p) \in SideUpTo(MaxPrice) /\ WellFormed(Erase(sides[s], p))
        /\ Erase(sides[s], p).side = sides[s].side
        /\ Prices(Erase(sides[s], p)) = Prices(sides[s]) \ {p}
    BY <1>1, <2>3, EraseCorrect
  <2>5. /\ sides' \in [Side -> SideUpTo(MaxPrice)]
        /\ sides'[s] = Erase(sides[s], p) /\ \A t \in Side : t # s => sides'[t] = sides[t]
    BY <1>1, <1>9, <2>1, <2>4
  <2>6. SidesWellFormed'
    BY <2>4, <2>5 DEF SidesWellFormed, Book
  <2>7. \A t \in Side : /\ DOMAIN level'[t] = Prices(sides'[t])
                        /\ \A q \in DOMAIN level'[t] :
                             /\ level'[t][q].list \in Seq(Id) /\ level'[t][q].list # <<>>
                             /\ IsInjective(level'[t][q].list)
                             /\ Range(level'[t][q].list) = At(t, q)'
    <3>1. SUFFICES ASSUME NEW t \in Side
                   PROVE  /\ DOMAIN level'[t] = Prices(sides'[t])
                          /\ \A q \in DOMAIN level'[t] :
                               /\ level'[t][q].list \in Seq(Id) /\ level'[t][q].list # <<>>
                               /\ IsInjective(level'[t][q].list)
                               /\ Range(level'[t][q].list) = At(t, q)'
      OBVIOUS
    <3>2. CASE t = s
      <4>1. DOMAIN level'[s] = Prices(sides'[s])
        BY <1>1, <1>10, <2>2, <2>4, <2>5
      <4>2. ASSUME NEW q \in DOMAIN level'[s]
            PROVE  /\ level'[s][q].list \in Seq(Id) /\ level'[s][q].list # <<>>
                   /\ IsInjective(level'[s][q].list)
                   /\ Range(level'[s][q].list) = At(s, q)'
        <5>1. q \in DOMAIN level[s] /\ q # p /\ level'[s][q] = level[s][q]
          BY <2>2
        <5>2. At(s, q)' = At(s, q)
          BY <1>1, <1>5, <5>1
        <5>3. QED
          BY <1>1, <1>10, <5>1, <5>2
      <4>3. QED
        BY <3>2, <4>1, <4>2
    <3>3. CASE t # s
      BY <1>5, <1>10, <2>2, <2>5, <3>3
    <3>4. QED
      BY <3>2, <3>3
  <2>8. \A x \in DOMAIN node' : node'[x].price \in DOMAIN level'[node'[x].side]
    <3>1. SUFFICES ASSUME NEW x \in DOMAIN node'
                   PROVE  node'[x].price \in DOMAIN level'[node'[x].side]
      OBVIOUS
    <3>2. x \in DOMAIN node /\ node'[x] = node[x] /\ node[x].side \in Side
      BY <1>3, NodeFacts
    <3>3. ~(node[x].side = s /\ node[x].price = p)
      BY <1>6, <1>8, <1>11, <3>2 DEF At
    <3>4. QED
      BY <1>10, <2>2, <3>2, <3>3, NodeFacts
  <2>9. QED
    BY <1>3, <1>7, <2>2, <2>5, <2>6, <2>7, <2>8 DEF Book, CoreTypes, CoreCoherent, At
<1>12. CASE list # <<>>
  <2>1. /\ level' = [level EXCEPT ![s] = With(@, p, [total |-> total, list |-> list])]
        /\ sides' = sides
    BY <1>12 DEF SetLevel
  <2>2. /\ level' = [t \in Side |-> level'[t]]
        /\ \A t \in Side : t # s => level'[t] = level[t]
        /\ DOMAIN level'[s] = DOMAIN level[s]
        /\ \A q \in DOMAIN level[s] \ {p} : level'[s][q] = level[s][q]
        /\ level'[s][p].list = list
    BY <1>1, <1>2, <1>9, <2>1 DEF With
  <2>3. SidesWellFormed'
    BY <2>1 DEF SidesWellFormed, Book
  <2>4. \A t \in Side : /\ DOMAIN level'[t] = Prices(sides'[t])
                        /\ \A q \in DOMAIN level'[t] :
                             /\ level'[t][q].list \in Seq(Id) /\ level'[t][q].list # <<>>
                             /\ IsInjective(level'[t][q].list)
                             /\ Range(level'[t][q].list) = At(t, q)'
    BY <1>5, <1>6, <1>10, <1>12, <2>1, <2>2
  <2>5. \A x \in DOMAIN node' : node'[x].price \in DOMAIN level'[node'[x].side]
    BY <1>3, <1>10, <2>2, NodeFacts
  <2>6. sides' \in [Side -> SideUpTo(MaxPrice)]
    BY <1>9, <2>1
  <2>7. CoreTypes'
    BY <1>3, <1>7, <2>2, <2>4, <2>6 DEF CoreTypes
  <2>8. CoreCoherent'
    BY <2>4, <2>5 DEF CoreCoherent, At
  <2>9. QED
    BY <2>3, <2>7, <2>8 DEF Book
<1>13. QED
  BY <1>11, <1>12

\* A partial fill leaves every order where it is.
LEMMA Stay ==
  ASSUME Book, NEW id \in DOMAIN node, NEW total, NEW qty \in Nat,
         NEW s, s = node[id].side, NEW p, p = node[id].price,
         SetLevel(s, p, total, level[s][p].list), node' = [node EXCEPT ![id].qty = qty]
  PROVE  Book'
<1>1. /\ id \in Id /\ s \in Side /\ p \in Prices(sides[s])
      /\ node[id] \in [side : Side, price : 1..MaxPrice, qty : Nat]
  BY NodeFacts
<1>2. p \in DOMAIN level[s] /\ level[s][p].list # <<>>
  BY <1>1, LevelFacts
<1>3. /\ level' = [level EXCEPT ![s] = With(@, p, [total |-> total, list |-> level[s][p].list])]
      /\ sides' = sides
  BY <1>2 DEF SetLevel
<1>4. level = [t \in Side |-> level[t]] /\ node = [x \in DOMAIN node |-> node[x]]
  BY DEF Book, CoreTypes
<1>5. /\ DOMAIN node' = DOMAIN node /\ node' = [x \in DOMAIN node' |-> node'[x]]
      /\ \A x \in DOMAIN node' : x # id => node'[x] = node[x]
      /\ node'[id] = [node[id] EXCEPT !.qty = qty]
  BY <1>4
<1>6. node'[id] \in [side : Side, price : 1..MaxPrice, qty : Nat]
      /\ node'[id].side = node[id].side /\ node'[id].price = node[id].price
  BY <1>1, <1>5
<1>7. \A x \in DOMAIN node' : /\ node'[x] \in [side : Side, price : 1..MaxPrice, qty : Nat]
                              /\ node'[x].side = node[x].side /\ node'[x].price = node[x].price
  BY <1>5, <1>6 DEF Book, CoreTypes
<1>8. /\ level' = [t \in Side |-> level'[t]]
      /\ \A t \in Side : /\ DOMAIN level'[t] = DOMAIN level[t]
                         /\ \A q \in DOMAIN level[t] : level'[t][q].list = level[t][q].list
  BY <1>1, <1>2, <1>3, <1>4 DEF With
<1>9. \A t, q : {x \in DOMAIN node' : node'[x].side = t /\ node'[x].price = q}
              = {x \in DOMAIN node : node[x].side = t /\ node[x].price = q}
  BY <1>5, <1>7
<1>10. CoreTypes'
  <2>1. \A t \in Side : \A q \in DOMAIN level'[t] : level'[t][q].list \in Seq(Id)
    <3>1. \A t \in Side : \A q \in DOMAIN level[t] : level[t][q].list \in Seq(Id)
      BY DEF Book, CoreTypes
    <3>2. QED
      BY <1>8, <3>1
  <2>2. sides' \in [Side -> SideUpTo(MaxPrice)] /\ DOMAIN node' \subseteq Id
    BY <1>3, <1>5 DEF Book, CoreTypes
  <2>3. QED
    BY <1>5, <1>7, <1>8, <2>1, <2>2 DEF CoreTypes
<1>11. SidesWellFormed'
  BY <1>3 DEF SidesWellFormed, Book
<1>12. CoreCoherent'
  <2>1. \A t \in Side : /\ DOMAIN level[t] = Prices(sides[t])
                        /\ \A q \in DOMAIN level[t] :
                             /\ level[t][q].list # <<>> /\ IsInjective(level[t][q].list)
                             /\ Range(level[t][q].list)
                                = {x \in DOMAIN node : node[x].side = t /\ node[x].price = q}
    BY DEF Book, CoreCoherent
  <2>2. \A x \in DOMAIN node' : node'[x].price \in DOMAIN level'[node'[x].side]
    <3>1. \A x \in DOMAIN node : node[x].side \in Side /\ node[x].price \in DOMAIN level[node[x].side]
      BY <2>1, NodeFacts
    <3>2. QED
      BY <1>5, <1>7, <1>8, <3>1
  <2>3. ASSUME NEW t \in Side
        PROVE  /\ DOMAIN level'[t] = Prices(sides'[t])
               /\ \A q \in DOMAIN level'[t] :
                    /\ level'[t][q].list # <<>> /\ IsInjective(level'[t][q].list)
                    /\ Range(level'[t][q].list)
                       = {x \in DOMAIN node' : node'[x].side = t /\ node'[x].price = q}
    <3>1. DOMAIN level'[t] = DOMAIN level[t] /\ DOMAIN level[t] = Prices(sides[t])
      BY <1>8, <2>1
    <3>2. \A q \in DOMAIN level[t] : level'[t][q].list = level[t][q].list
      BY <1>8
    <3>3. QED
      BY <1>3, <1>9, <2>1, <3>1, <3>2
  <2>4. QED
    BY <2>2, <2>3 DEF CoreCoherent
<1>13. QED
  BY <1>10, <1>11, <1>12 DEF Book

\* What is left of a limit order comes last at its price, at a new level if there
\* is none.
LEMMA Enter ==
  ASSUME Book, NEW id \in Id, id \notin DOMAIN node, NEW s \in Side, NEW p \in 1..MaxPrice,
         NEW qty \in Nat, Rest(id, s, p, qty)
  PROVE  Book'
<1> DEFINE new  == Find(sides[s], p) = NoLevel
           lvl  == IF new THEN [total |-> 0, list |-> <<>>] ELSE level[s][p]
           list == Append(lvl.list, id)
<1>1. /\ sides' = IF new THEN [sides EXCEPT ![s] = Insert(@, p)] ELSE sides
      /\ level' = [level EXCEPT ![s] = With(@, p, [total |-> lvl.total + qty, list |-> list])]
      /\ node' = With(node, id, [side |-> s, price |-> p, qty |-> qty])
  BY DEF Rest
<1>2. /\ level = [t \in Side |-> level[t]] /\ sides \in [Side -> SideUpTo(MaxPrice)]
      /\ sides[s] \in SideUpTo(MaxPrice) /\ WellFormed(sides[s]) /\ MaxPrice \in Nat
      /\ DOMAIN level[s] = Prices(sides[s])
  BY NativeAssumption DEF Book, CoreTypes, SidesWellFormed, CoreCoherent
<1>3. new <=> p \notin Prices(sides[s])
  <2>1. Find(sides[s], p) = IF p \in Prices(sides[s]) THEN p ELSE NoLevel
    BY <1>2, FindCorrect DEF WellFormed
  <2>2. QED
    BY <2>1 DEF NoLevel
<1>4. /\ DOMAIN node' = DOMAIN node \union {id} /\ node' = [x \in DOMAIN node' |-> node'[x]]
      /\ \A x \in DOMAIN node : node'[x] = node[x]
      /\ node'[id] = [side |-> s, price |-> p, qty |-> qty]
  BY <1>1 DEF With
<1>5. /\ lvl.list \in Seq(Id) /\ IsInjective(lvl.list) /\ Range(lvl.list) = At(s, p)
  <2>1. CASE new
    <3>1. lvl.list = <<>>
      BY <2>1
    <3>2. At(s, p) = {}
      BY <1>3, <2>1, NodeFacts DEF At
    <3> HIDE DEF lvl
    <3>3. QED
      BY <3>1, <3>2 DEF IsInjective, Range
  <2>2. CASE ~new
    BY <1>3, <2>2, LevelFacts
  <2>3. QED
    BY <2>1, <2>2
<1>6. id \notin Range(lvl.list)
  BY <1>5 DEF At
<1> HIDE DEF lvl
<1>7. /\ list \in Seq(Id) /\ list # <<>> /\ IsInjective(list)
      /\ Range(list) = At(s, p) \union {id}
  BY <1>5, <1>6, AppendRange
<1> HIDE DEF list, new
<1>8. At(s, p)' = At(s, p) \union {id}
      /\ \A t \in Side : \A q : t # s \/ q # p => At(t, q)' = At(t, q)
  BY <1>4 DEF At
<1>9. /\ level' = [t \in Side |-> level'[t]]
      /\ \A t \in Side : t # s => level'[t] = level[t]
      /\ DOMAIN level'[s] = DOMAIN level[s] \union {p}
      /\ \A q \in DOMAIN level[s] \ {p} : level'[s][q] = level[s][q]
      /\ level'[s][p].list = list
  BY <1>1, <1>2 DEF With
<1>10. /\ sides' \in [Side -> SideUpTo(MaxPrice)] /\ WellFormed(sides'[s])
       /\ Prices(sides'[s]) = Prices(sides[s]) \union {p}
       /\ \A t \in Side : t # s => sides'[t] = sides[t]
  <2>1. CASE new
    <3>1. sides' = [sides EXCEPT ![s] = Insert(@, p)]
      BY <1>1, <2>1
    <3>2. /\ Insert(sides[s], p) \in SideUpTo(MaxPrice) /\ WellFormed(Insert(sides[s], p))
          /\ Prices(Insert(sides[s], p)) = Prices(sides[s]) \union {p}
      BY <1>2, <1>3, <2>1, InsertCorrect
    <3>3. QED
      BY <1>2, <3>1, <3>2
  <2>2. CASE ~new
    <3>1. sides' = sides
      BY <1>1, <2>2
    <3>2. Prices(sides[s]) = Prices(sides[s]) \union {p}
      BY <1>3, <2>2
    <3>3. QED
      BY <1>2, <3>1, <3>2
  <2>3. QED
    BY <2>1, <2>2
<1>11. \A t \in Side : /\ DOMAIN level[t] = Prices(sides[t])
                       /\ \A q \in DOMAIN level[t] :
                            /\ level[t][q].list \in Seq(Id) /\ level[t][q].list # <<>>
                            /\ IsInjective(level[t][q].list)
                            /\ Range(level[t][q].list) = At(t, q)
  BY DEF Book, CoreTypes, CoreCoherent, At
<1>12. ASSUME NEW t \in Side
       PROVE  /\ DOMAIN level'[t] = Prices(sides'[t])
              /\ \A q \in DOMAIN level'[t] :
                   /\ level'[t][q].list \in Seq(Id) /\ level'[t][q].list # <<>>
                   /\ IsInjective(level'[t][q].list)
                   /\ Range(level'[t][q].list) = At(t, q)'
  <2>1. CASE t # s
    BY <1>8, <1>9, <1>10, <1>11, <2>1
  <2>2. CASE t = s
    <3>1. DOMAIN level'[s] = Prices(sides'[s])
      BY <1>2, <1>9, <1>10
    <3>2. ASSUME NEW q \in DOMAIN level'[s], q # p
          PROVE  /\ level'[s][q].list \in Seq(Id) /\ level'[s][q].list # <<>>
                 /\ IsInjective(level'[s][q].list)
                 /\ Range(level'[s][q].list) = At(s, q)'
      <4>1. q \in DOMAIN level[s] /\ level'[s][q] = level[s][q]
        BY <1>9, <3>2
      <4>2. At(s, q)' = At(s, q)
        BY <1>8, <3>2
      <4>3. QED
        BY <1>11, <4>1, <4>2
    <3>3. QED
      BY <1>7, <1>8, <1>9, <2>2, <3>1, <3>2
  <2>3. QED
    BY <2>1, <2>2
<1>13. SidesWellFormed'
  BY <1>10 DEF SidesWellFormed, Book
<1>14. CoreTypes'
  <2>1. \A x \in DOMAIN node' : node'[x] \in [side : Side, price : 1..MaxPrice, qty : Nat]
    BY <1>4, NodeFacts
  <2>2. DOMAIN node' \subseteq Id
    BY <1>4 DEF Book, CoreTypes
  <2>3. QED
    BY <1>4, <1>9, <1>10, <1>12, <2>1, <2>2 DEF CoreTypes
<1>15. CoreCoherent'
  <2>1. \A x \in DOMAIN node' : node'[x].price \in DOMAIN level'[node'[x].side]
    <3>1. \A x \in DOMAIN node : node'[x] = node[x] /\ node[x].side \in Side
                                 /\ node[x].price \in DOMAIN level[node[x].side]
      BY <1>4, <1>11, NodeFacts
    <3>2. \A x \in DOMAIN node : node'[x].price \in DOMAIN level'[node'[x].side]
      BY <1>9, <3>1
    <3>3. QED
      BY <1>4, <1>9, <3>2
  <2>2. QED
    BY <1>12, <2>1 DEF CoreCoherent, At
<1>16. QED
  BY <1>13, <1>14, <1>15 DEF Book

\* A step that leaves the core alone leaves the book as it is.
LEMMA Frame ==
  ASSUME Book, UNCHANGED core
  PROVE  Book'
<1>1. node' = node /\ sides' = sides /\ level' = level
  BY DEF core
<1>2. CoreTypes'
  BY <1>1 DEF CoreTypes, Book
<1>3. SidesWellFormed'
  BY <1>1 DEF SidesWellFormed, Book
<1>4. CoreCoherent'
  BY <1>1 DEF CoreCoherent, Book
<1>5. QED
  BY <1>2, <1>3, <1>4 DEF Book

\* An empty book.
LEMMA InitCorrect == Init => IInv
<1> SUFFICES ASSUME Init PROVE IInv
  OBVIOUS
<1> USE DEF Init
<1>1. CallOK
  <2>1. <<>> \in Seq(Fill)
    BY EmptySeq
  <2>2. QED
    BY <2>1, NativeAssumption DEF CallOK, Call, IdleCall, Side
<1>2. DOMAIN node = {}
  OBVIOUS
<1>3. ASSUME NEW s \in Side
      PROVE  /\ sides[s] \in SideUpTo(MaxPrice) /\ WellFormed(sides[s]) /\ Prices(sides[s]) = {}
  <2>1. sides[s] = NewSide(s)
    OBVIOUS
  <2>2. Cardinality({}) = 0
    BY FS_EmptySet
  <2>3. sides[s] \in SideUpTo(MaxPrice)
    BY <2>1, NativeAssumption DEF NewSide, SideUpTo, NoLevel, Side
  <2>4. Prices(sides[s]) = {}
    BY <2>1 DEF NewSide, Prices
  <2>5. Consistent(sides[s])
    BY <2>1, <2>2, <2>4 DEF NewSide, Consistent
  <2>6. sides[s].best = NoLevel /\ sides[s].far = {}
    BY <2>1 DEF NewSide
  <2>7. QED
    BY <2>3, <2>4, <2>5, <2>6 DEF WellFormed, BestIsBest
<1>4. \A s \in Side : DOMAIN level[s] = {}
  OBVIOUS
<1>5. CoreTypes
  <2>1. sides \in [Side -> SideUpTo(MaxPrice)]
    BY <1>3
  <2>2. node = [id \in DOMAIN node |-> node[id]]
    OBVIOUS
  <2>3. QED
    BY <1>2, <1>4, <2>1, <2>2 DEF CoreTypes
<1>6. SidesWellFormed
  BY <1>3 DEF SidesWellFormed
<1>7. CoreCoherent
  BY <1>2, <1>3, <1>4 DEF CoreCoherent
<1>8. QED
  BY <1>1, <1>5, <1>6, <1>7 DEF IInv, Book

\* A fill: the maker is at the head of the best level of the other side.
LEMMA ConsumeCorrect ==
  ASSUME IInv, Consume
  PROVE  IInv'
<1>1. PICK s : s = Opposite(call.side)
  OBVIOUS
<1>2. PICK p : p = sides[s].best
  OBVIOUS
<1>3. PICK lvl : lvl = level[s][p]
  OBVIOUS
<1>4. PICK maker : maker = Head(lvl.list)
  OBVIOUS
<1>5. PICK traded : traded = Traded(node[maker].qty)
  OBVIOUS
<1>6. PICK left : left = node[maker].qty - traded
  OBVIOUS
<1>7. PICK list : list = IF left = 0 THEN Tail(lvl.list) ELSE lvl.list
  OBVIOUS
<1>8. PICK total : total = lvl.total - traded
  OBVIOUS
<1>9. /\ CanMatch
      /\ node' = IF left = 0 THEN Without(node, maker) ELSE [node EXCEPT ![maker].qty = left]
      /\ SetLevel(s, p, total, list)
      /\ call' = [call EXCEPT !.remaining = @ - traded,
                              !.raw = Append(@, [maker |-> maker, price |-> p,
                                                 quantity |-> traded, left |-> left])]
  BY <1>1, <1>2, <1>3, <1>4, <1>5, <1>6, <1>7, <1>8 DEF Consume
<1>10. Book /\ CallOK /\ call \in Call /\ s \in Side
  BY <1>1 DEF IInv, CallOK, Call, Side, Opposite
<1>11. p \in Prices(sides[s])
  <2>1. p # NoLevel /\ BestIsBest(sides[s])
    BY <1>1, <1>2, <1>9, <1>10 DEF CanMatch, Book, SidesWellFormed, WellFormed
  <2>2. QED
    BY <1>2, <2>1 DEF BestIsBest, IsBest
<1>12. /\ p \in 1..MaxPrice /\ lvl.list \in Seq(Id) /\ lvl.list # <<>>
       /\ IsInjective(lvl.list) /\ Range(lvl.list) = At(s, p)
  BY <1>3, <1>10, <1>11, LevelFacts
<1>13. /\ maker \in Range(lvl.list) /\ Tail(lvl.list) \in Seq(Id)
       /\ IsInjective(Tail(lvl.list)) /\ Range(Tail(lvl.list)) = Range(lvl.list) \ {maker}
  BY <1>4, <1>12, TailRange
<1>14. maker \in DOMAIN node /\ node[maker].side = s /\ node[maker].price = p
  BY <1>12, <1>13 DEF At
<1>15. maker \in Id /\ node[maker].qty \in Nat
  BY <1>10, <1>14, NodeFacts
<1>16. traded \in Nat /\ traded <= call.remaining /\ left \in Nat /\ call.remaining \in Nat
  <2>1. call.remaining \in Nat
    BY <1>10 DEF Call
  <2>2. traded \in {call.remaining, node[maker].qty} /\ traded <= call.remaining
        /\ traded <= node[maker].qty
    <3>1. traded = Min({call.remaining, node[maker].qty})
      BY <1>5 DEF Traded
    <3>2. call.remaining \in Int /\ node[maker].qty \in Int
      BY <1>15, <2>1
    <3>3. QED
      BY <3>1, <3>2, MinOfTwo
  <2>3. QED
    BY <1>6, <1>15, <2>1, <2>2
<1>17. Book'
  <2>1. CASE left = 0
    BY <1>3, <1>7, <1>9, <1>10, <1>12, <1>13, <1>14, <2>1, Leave
  <2>2. CASE left # 0
    BY <1>3, <1>7, <1>9, <1>10, <1>14, <1>16, <2>2, Stay
  <2>3. QED
    BY <2>1, <2>2
<1>18. CallOK'
  <2>1. PICK fill : fill = [maker |-> maker, price |-> p, quantity |-> traded, left |-> left]
    OBVIOUS
  <2>2. fill \in Fill
    BY <1>12, <1>15, <1>16, <2>1 DEF Fill
  <2>3. call.raw \in Seq(Fill)
    BY <1>10 DEF Call
  <2>4. Append(call.raw, fill) \in Seq(Fill) /\ call.remaining - traded \in Nat
    BY <1>16, <2>2, <2>3
  <2>5. call' = [call EXCEPT !.remaining = @ - traded, !.raw = Append(@, fill)]
    BY <1>9, <2>1
  <2> HIDE DEF Fill
  <2>6. call' \in Call /\ call'.kind = call.kind /\ call'.limit = call.limit
        /\ call'.taker = call.taker
    BY <1>10, <2>4, <2>5 DEF Call
  <2>7. DOMAIN node' \subseteq DOMAIN node
    BY <1>9 DEF Without, Restrict
  <2>8. QED
    BY <1>10, <2>6, <2>7 DEF CallOK
<1>19. QED
  BY <1>17, <1>18 DEF IInv

\* The end of a limit order: nothing is left, or what is left enters the book.
LEMMA ReturnLimitCorrect ==
  ASSUME IInv, ReturnLimit
  PROVE  IInv'
<1>1. /\ call.kind = "limit" /\ call' = IdleCall
      /\ IF call.remaining = 0 THEN UNCHANGED core
         ELSE Rest(call.taker, call.side, call.limit, call.remaining)
  BY DEF ReturnLimit
<1>2. /\ Book /\ call.taker \in Id /\ call.taker \notin DOMAIN node /\ call.side \in Side
      /\ call.limit \in 1..MaxPrice /\ call.remaining \in Nat
  BY <1>1 DEF IInv, CallOK, Call
<1>3. Book'
  <2>1. CASE call.remaining = 0
    BY <1>1, <1>2, <2>1, Frame
  <2>2. CASE call.remaining # 0
    <3>1. PICK id, s, p, qty : id = call.taker /\ s = call.side /\ p = call.limit
                               /\ qty = call.remaining
      OBVIOUS
    <3>2. Rest(id, s, p, qty)
      BY <1>1, <2>2, <3>1
    <3>3. QED
      BY <1>2, <3>1, <3>2, Enter
  <2>3. QED
    BY <2>1, <2>2
<1>4. CallOK'
  <2>1. <<>> \in Seq(Fill)
    BY EmptySeq
  <2>2. QED
    BY <1>1, <2>1, NativeAssumption DEF CallOK, Call, IdleCall, Side
<1>5. QED
  BY <1>3, <1>4 DEF IInv

\* A cancelled order leaves the list of its level.
LEMMA CancelOrderCorrect ==
  ASSUME IInv, NEW id \in Id, CancelOrder(id)
  PROVE  IInv'
<1>1. PICK s : s = node[id].side
  OBVIOUS
<1>2. PICK p : p = node[id].price
  OBVIOUS
<1>3. PICK lvl : lvl = level[s][p]
  OBVIOUS
<1>4. PICK list : list = RemoveFirst(lvl.list, id)
  OBVIOUS
<1>5. PICK total : total = lvl.total - node[id].qty
  OBVIOUS
<1>6. /\ id \in DOMAIN node /\ SetLevel(s, p, total, list) /\ node' = Without(node, id)
      /\ call' = call /\ ~Running
  BY <1>1, <1>2, <1>3, <1>4, <1>5 DEF CancelOrder
<1>7. Book /\ CallOK
  BY DEF IInv
<1>8. s \in Side /\ p \in Prices(sides[s]) /\ id \in At(s, p)
  BY <1>1, <1>2, <1>6, <1>7, NodeFacts
<1>9. lvl.list \in Seq(Id) /\ IsInjective(lvl.list) /\ id \in Range(lvl.list)
  BY <1>3, <1>7, <1>8, LevelFacts
<1>10. list \in Seq(Id) /\ IsInjective(list) /\ Range(list) = Range(lvl.list) \ {id}
  BY <1>4, <1>9, RemoveFirstRange
<1>11. Book'
  BY <1>1, <1>2, <1>3, <1>6, <1>7, <1>10, Leave
<1>12. CallOK'
  BY <1>6, <1>7 DEF CallOK, Running
<1>13. QED
  BY <1>11, <1>12 DEF IInv

\* Every step of the native book keeps the inductive invariant.
LEMMA NextCorrect == IInv /\ [Next]_vars => IInv'
<1> SUFFICES ASSUME IInv, [Next]_vars PROVE IInv'
  OBVIOUS
<1>0. Book /\ CallOK /\ <<>> \in Seq(Fill)
  BY EmptySeq DEF IInv
<1>1. ASSUME NEW id \in Id, NEW side \in Side, NEW price \in 0..MaxPrice,
             NEW quantity \in 0..MaxQuantity, AddOrder(id, side, price, quantity)
      PROVE  IInv'
  <2>1. Book'
    BY <1>0, <1>1, Frame DEF AddOrder
  <2>2. node' = node
    BY <1>1 DEF AddOrder, core
  <2>3. CallOK'
    BY <1>0, <1>1, <2>2, NativeAssumption DEF AddOrder, NewCall, CallOK, Call
  <2>4. QED
    BY <2>1, <2>3 DEF IInv
<1>2. ASSUME NEW side \in Side, NEW quantity \in 0..MaxQuantity,
             MatchMarketOrder(side, quantity)
      PROVE  IInv'
  <2>1. Book'
    BY <1>0, <1>2, Frame DEF MatchMarketOrder
  <2>2. CallOK'
    BY <1>0, <1>2, NativeAssumption DEF MatchMarketOrder, NewCall, CallOK, Call
  <2>3. QED
    BY <2>1, <2>2 DEF IInv
<1>3. ASSUME ReturnMarket
      PROVE  IInv'
  <2>1. Book'
    BY <1>0, <1>3, Frame DEF ReturnMarket
  <2>2. CallOK'
    BY <1>0, <1>3, NativeAssumption DEF ReturnMarket, IdleCall, CallOK, Call, Side
  <2>3. QED
    BY <2>1, <2>2 DEF IInv
<1>4. ASSUME UNCHANGED vars
      PROVE  IInv'
  <2>1. Book'
    BY <1>0, <1>4, Frame DEF vars
  <2>2. CallOK'
    BY <1>0, <1>4 DEF vars, core, CallOK
  <2>3. QED
    BY <2>1, <2>2 DEF IInv
<1>5. QED
  BY <1>1, <1>2, <1>3, <1>4, ConsumeCorrect, ReturnLimitCorrect, CancelOrderCorrect DEF Next

\* However orders come and go, both sides of the native book stay well-formed:
\* window, bitmap, far levels and best level agree (SideLevels).
THEOREM SidesAlwaysWellFormed == Spec => []SidesWellFormed
<1>1. IInv => SidesWellFormed
  BY DEF IInv, Book
<1>2. QED
  BY InitCorrect, NextCorrect, <1>1, PTL DEF Spec

\* Levels, nodes and sides of the native book stay one book: every order is in the
\* list of its price, once, and every price of a side has a level with orders.
THEOREM CoreAlwaysCoherent == Spec => []CoreCoherent
<1>1. IInv => CoreCoherent
  BY DEF IInv, Book
<1>2. QED
  BY InitCorrect, NextCorrect, <1>1, PTL DEF Spec

-----------------------------------------------------------------------------
(***************************************************************************)
(* What the caller sees: the Order objects, the totals of the levels and   *)
(* the order in which orders came.                                         *)
(***************************************************************************)

Order == [side : Side, price : 0..MaxPrice, quantity : Nat,
          status : {"none", "open", "partial", "filled", "cancelled"}]

\* The fills of a maker the Python side knows, and what all fills make of the objects
\* `own` and of the held orders.
Hits(raw, held, id) == {f \in Range(raw) : f.maker = id /\ id \in held}

Updated(o, left) ==
  [o EXCEPT !.quantity = left, !.status = IF left = 0 THEN "filled" ELSE "partial"]

Applied(raw, own, held) ==
  [order |-> [id \in Id |->
      IF Hits(raw, held, id) = {} THEN own[id]
      ELSE Updated(own[id], (CHOOSE f \in Hits(raw, held, id) : TRUE).left)],
   orders |-> {id \in held : \A f \in Hits(raw, held, id) : f.left # 0}]

Then == Applied(call.raw, order, orders)

\* An Order object says of its order what the node says.
CopyOf(o, n) ==
  /\ o.side = n.side /\ o.price = n.price /\ o.quantity = n.qty
  /\ o.status \in {"open", "partial"}

\* With the fills so far applied, the Python side holds the orders of the core.
CopiesFollow ==
  /\ Then.orders = DOMAIN node
  /\ \A id \in DOMAIN node : CopyOf(Then.order[id], node[id])

\* A maker that keeps something was the last one: no maker is filled twice.
FillsOnce == \A i \in DOMAIN call.raw : call.raw[i].maker \in DOMAIN node => call.remaining = 0

FrameFollows ==
  /\ ~Running => call = IdleCall
  /\ call.kind = "limit" => /\ call.taker \notin orders
                            /\ order[call.taker].side = call.side
                            /\ order[call.taker].price = call.limit

LevelsOrdered == \A s \in Side : \A p \in DOMAIN level[s] : OrderedAs(level[s][p].list, arrivals)

ArrivalsFollow ==
  /\ arrivals \in Seq(Id) /\ IsInjective(arrivals) /\ Range(arrivals) = DOMAIN node
  /\ LevelsOrdered

\* What concerns the Order objects and the call.
Told == order \in [Id -> Order] /\ orders \subseteq Id /\ CopiesFollow /\ FillsOnce /\ FrameFollows

\* Inductive beside IInv.
VInv == TotalsAdd /\ Told /\ ArrivalsFollow

\* Applied is what _fills does.
LEMMA ThenIs == OrderThen = Then.order /\ ApplyRaw(call.raw) = Then
  BY DEF OrderThen, Then, Applied, ApplyRaw, Hits, Updated

\* Without fills nothing changes.
LEMMA NoFill ==
  ASSUME NEW own \in [Id -> Order], NEW held
  PROVE  Applied(<<>>, own, held) = [order |-> own, orders |-> held]
<1>1. \A id : Hits(<<>>, held, id) = {}
  BY DEF Hits, Range
<1>2. QED
  BY <1>1 DEF Applied

\* The fill of a maker that had none changes its object, and takes it out if
\* nothing is left.
LEMMA OneMoreFill ==
  ASSUME NEW own \in [Id -> Order], NEW held \in SUBSET Id, NEW raw \in Seq(Fill),
         NEW f \in Fill, f.maker \in held, \A i \in DOMAIN raw : raw[i].maker # f.maker
  PROVE  LET a == Applied(raw, own, held)
             b == Applied(Append(raw, f), own, held)
         IN  /\ a.order \in [Id -> Order]
             /\ b.order = [a.order EXCEPT ![f.maker].quantity = f.left,
                                          ![f.maker].status = IF f.left = 0 THEN "filled"
                                                              ELSE "partial"]
             /\ b.orders = IF f.left = 0 THEN a.orders \ {f.maker} ELSE a.orders
             /\ a.order[f.maker] = own[f.maker]
             /\ f.maker \in a.orders
<1> DEFINE m == f.maker
           more == Append(raw, f)
           a == Applied(raw, own, held)
           b == Applied(more, own, held)
<1>1. Range(more) = Range(raw) \union {f} /\ \A g \in Range(raw) : g.maker # m /\ g \in Fill
  <2>1. /\ Len(more) = Len(raw) + 1 /\ \A i \in 1..Len(raw) : more[i] = raw[i]
        /\ more[Len(raw) + 1] = f /\ DOMAIN more = 1..(Len(raw) + 1) /\ DOMAIN raw = 1..Len(raw)
    OBVIOUS
  <2>2. \A g \in Range(raw) : g.maker # m /\ g \in Fill
    BY <2>1 DEF Range
  <2>3. 1..(Len(raw) + 1) = 1..Len(raw) \union {Len(raw) + 1}
    OBVIOUS
  <2> HIDE DEF more, m
  <2>4. Range(more) = Range(raw) \union {f}
    BY <2>1, <2>3 DEF Range
  <2>5. QED
    BY <2>2, <2>4
<1>2. m \in Id /\ m \in held /\ f.left \in Nat
  BY DEF Fill
<1> HIDE DEF more
<1>3. Hits(raw, held, m) = {} /\ Hits(more, held, m) = {f}
  BY <1>1, <1>2 DEF Hits
<1>4. \A id : id # m => Hits(more, held, id) = Hits(raw, held, id)
  BY <1>1 DEF Hits
<1>5. \A id : Hits(raw, held, id) \subseteq Fill
  BY <1>1 DEF Hits
<1> HIDE DEF m
<1>6. ASSUME NEW id \in Id
      PROVE  a.order[id] \in Order
  <2>1. own[id] \in Order
    OBVIOUS
  <2>2. CASE Hits(raw, held, id) = {}
    BY <2>1, <2>2 DEF Applied
  <2>3. CASE Hits(raw, held, id) # {}
    <3>1. PICK g \in Fill : g = CHOOSE h \in Hits(raw, held, id) : TRUE
      BY <1>5, <2>3
    <3>2. a.order[id] = Updated(own[id], g.left)
      BY <2>3, <3>1 DEF Applied
    <3>3. g.left \in Nat
      BY DEF Fill
    <3>4. QED
      BY <2>1, <3>2, <3>3 DEF Updated, Order
  <2>4. QED
    BY <2>2, <2>3
<1>7. a.order \in [Id -> Order] /\ a.order = [id \in Id |-> a.order[id]]
  <2>1. a.order = [id \in Id |-> a.order[id]]
    BY DEF Applied
  <2>2. QED
    BY <1>6, <2>1
<1>8. b.order = [id \in Id |-> b.order[id]]
  BY DEF Applied
<1>9. ASSUME NEW id \in Id \ {m}
      PROVE  b.order[id] = a.order[id]
  <2>1. Hits(more, held, id) = Hits(raw, held, id)
    BY <1>4
  <2>2. QED
    BY <2>1 DEF Applied
<1>10. a.order[m] = own[m]
  BY <1>2, <1>3 DEF Applied
<1>11. b.order[m] = Updated(own[m], f.left)
  <2>1. (CHOOSE g \in {f} : TRUE) = f
    OBVIOUS
  <2>2. QED
    BY <1>2, <1>3, <2>1 DEF Applied
<1>12. b.orders = IF f.left = 0 THEN a.orders \ {m} ELSE a.orders
  <2>1. ASSUME NEW id
        PROVE  id \in b.orders <=> id \in (IF f.left = 0 THEN a.orders \ {m} ELSE a.orders)
    <3>1. CASE id = m
      BY <1>2, <1>3, <3>1 DEF Applied
    <3>2. CASE id # m
      BY <1>4, <3>2 DEF Applied
    <3>3. QED
      BY <3>1, <3>2
  <2> HIDE DEF a, b
  <2>2. QED
    BY <2>1
<1>13. m \in a.orders
  BY <1>2, <1>3 DEF Applied
<1> HIDE DEF a, b
<1>14. b.order = [a.order EXCEPT ![m].quantity = f.left,
                                 ![m].status = IF f.left = 0 THEN "filled" ELSE "partial"]
  <2>1. a.order[m] \in Order /\ b.order[m] = Updated(a.order[m], f.left)
    BY <1>2, <1>7, <1>10, <1>11
  <2> DEFINE c == [a.order EXCEPT ![m].quantity = f.left,
                                  ![m].status = IF f.left = 0 THEN "filled" ELSE "partial"]
  <2>2. c = [id \in Id |-> c[id]]
    BY <1>7
  <2>3. \A id \in Id \ {m} : c[id] = a.order[id]
    BY <1>2, <1>7
  <2>4. c[m] = Updated(a.order[m], f.left)
    BY <1>2, <1>7, <2>1 DEF Updated, Order
  <2> HIDE DEF c
  <2>5. \A id \in Id : c[id] = b.order[id]
    BY <1>9, <2>1, <2>3, <2>4
  <2>6. QED
    BY <1>8, <2>2, <2>5 DEF c
<1>15. QED
  BY <1>7, <1>10, <1>12, <1>13, <1>14 DEF a, b, m, more

\* Fills of orders the Python side does not hold change nothing of the others.
LEMMA AppliedKeepsOthers ==
  ASSUME NEW own \in [Id -> Order], NEW held, NEW raw, NEW id \in Id, id \notin held
  PROVE  Applied(raw, own, held).order[id] = own[id]
<1>1. Hits(raw, held, id) = {}
  BY DEF Hits
<1>2. QED
  BY <1>1 DEF Applied

\* Applying fills leaves Order objects.
LEMMA AppliedType ==
  ASSUME NEW own \in [Id -> Order], NEW held \in SUBSET Id, NEW raw \in Seq(Fill)
  PROVE  /\ Applied(raw, own, held).order \in [Id -> Order]
         /\ Applied(raw, own, held).orders \subseteq held
<1>1. \A id : Hits(raw, held, id) \subseteq Fill
  BY DEF Hits, Range
<1>2. ASSUME NEW id \in Id
      PROVE  (IF Hits(raw, held, id) = {} THEN own[id]
              ELSE Updated(own[id], (CHOOSE f \in Hits(raw, held, id) : TRUE).left)) \in Order
  <2>1. own[id] \in Order
    OBVIOUS
  <2>2. CASE Hits(raw, held, id) # {}
    <3>1. PICK g \in Fill : g = CHOOSE h \in Hits(raw, held, id) : TRUE
      BY <1>1, <2>2
    <3>2. g.left \in Nat
      BY DEF Fill
    <3>3. Updated(own[id], g.left) \in Order
      BY <2>1, <3>2 DEF Updated, Order
    <3>4. QED
      BY <2>2, <3>1, <3>3
  <2>3. QED
    BY <2>1, <2>2
<1>3. QED
  BY <1>2 DEF Applied

\* The weights of a total are numbers.
LEMMA LotsType ==
  ASSUME Book
  PROVE  /\ Lots \in [Id -> Int]
         /\ \A id \in DOMAIN node : Lots[id] = node[id].qty
         /\ \A id \in Id \ DOMAIN node : Lots[id] = 0
  BY NodeFacts DEF Lots

\* The same after a step.
LEMMA LotsTypeNext ==
  ASSUME Book'
  PROVE  /\ Lots' \in [Id -> Int]
         /\ \A id \in DOMAIN node' : Lots'[id] = node'[id].qty
         /\ \A id \in Id \ DOMAIN node' : Lots'[id] = 0
<1>1. \A id \in DOMAIN node' : id \in Id /\ node'[id].qty \in Int
  BY DEF Book, CoreTypes
<1>2. QED
  BY <1>1 DEF Lots

\* A change of one level is one of no other.
LEMMA OneLevel ==
  ASSUME Book, NEW s \in Side, NEW p, NEW total, NEW list, SetLevel(s, p, total, list)
  PROVE  \A t \in Side : \A q \in DOMAIN level'[t] :
           IF t = s /\ q = p
           THEN level'[t][q].total = total /\ level'[t][q].list = list
           ELSE q \in DOMAIN level[t] /\ level'[t][q] = level[t][q]
<1>1. level = [t \in Side |-> level[t]]
  BY DEF Book, CoreTypes
<1>2. CASE list = <<>>
  BY <1>1, <1>2 DEF SetLevel, Without, Restrict
<1>3. CASE list # <<>>
  BY <1>1, <1>3 DEF SetLevel, With
<1>4. QED
  BY <1>2, <1>3

\* An order is in no list but that of its level.
LEMMA Elsewhere ==
  ASSUME Book, NEW t \in Side, NEW q \in DOMAIN level[t]
  PROVE  /\ level[t][q].list \in Seq(Id) /\ IsInjective(level[t][q].list)
         /\ \A id : id \in Range(level[t][q].list)
                    <=> id \in DOMAIN node /\ node[id].side = t /\ node[id].price = q
<1>1. q \in Prices(sides[t])
  BY DEF Book, CoreCoherent
<1>2. QED
  BY <1>1, LevelFacts DEF At

\* The totals of the levels that lost nothing and won nothing stay right.
LEMMA TotalsStep ==
  ASSUME Book, TotalsAdd, NEW id \in Id, NEW s \in Side, NEW p, NEW total, NEW list,
         Lots' \in [Id -> Int], \A x \in Id \ {id} : Lots'[x] = Lots[x],
         \A t \in Side : \A q \in DOMAIN level'[t] :
           IF t = s /\ q = p
           THEN level'[t][q].total = total /\ level'[t][q].list = list
           ELSE q \in DOMAIN level[t] /\ level'[t][q] = level[t][q],
         id \in DOMAIN node => node[id].side = s /\ node[id].price = p,
         total = Total(Lots', list)
  PROVE  TotalsAdd'
<1>1. SUFFICES ASSUME NEW t \in Side, NEW q \in DOMAIN level'[t]
               PROVE  level'[t][q].total = Total(Lots', level'[t][q].list)
  BY DEF TotalsAdd
<1>2. CASE t = s /\ q = p
  BY <1>2
<1>3. CASE ~(t = s /\ q = p)
  <2>1. q \in DOMAIN level[t] /\ level'[t][q] = level[t][q]
    BY <1>3
  <2>2. PICK l : l = level[t][q].list
    OBVIOUS
  <2>3. l \in Seq(Id) /\ id \notin Range(l)
    BY <1>3, <2>1, <2>2, Elsewhere
  <2>4. Lots \in [Id -> Int]
    BY LotsType
  <2>5. \A i \in 1..Len(l) : Lots[l[i]] = Lots'[l[i]]
    BY <2>3 DEF Range
  <2>6. Total(Lots, l) = Total(Lots', l)
    BY <2>3, <2>4, <2>5, TotalOfSame
  <2>7. level[t][q].total = Total(Lots, l)
    BY <2>1, <2>2 DEF TotalsAdd
  <2>8. QED
    BY <2>1, <2>2, <2>6, <2>7
<1>4. QED
  BY <1>2, <1>3

\* The lists stay in the order of arrival when an order leaves.
LEMMA OrderStep ==
  ASSUME Book, ArrivalsFollow, NEW id \in DOMAIN node, NEW s \in Side, NEW p, NEW total,
         NEW list, s = node[id].side, p = node[id].price,
         SetLevel(s, p, total, list), OrderedAs(list, arrivals), id \notin Range(list),
         arrivals' = RemoveFirst(arrivals, id)
  PROVE  LevelsOrdered'
<1>1. \A t \in Side : \A q \in DOMAIN level'[t] :
        OrderedAs(level'[t][q].list, arrivals) /\ id \notin Range(level'[t][q].list)
  <2>1. SUFFICES ASSUME NEW t \in Side, NEW q \in DOMAIN level'[t]
                 PROVE  OrderedAs(level'[t][q].list, arrivals) /\ id \notin Range(level'[t][q].list)
    OBVIOUS
  <2>2. CASE t = s /\ q = p
    BY <2>2, OneLevel
  <2>3. CASE ~(t = s /\ q = p)
    <3>1. q \in DOMAIN level[t] /\ level'[t][q] = level[t][q]
      BY <2>3, OneLevel
    <3>2. id \notin Range(level[t][q].list)
      BY <2>3, <3>1, Elsewhere
    <3>3. QED
      BY <3>1, <3>2 DEF ArrivalsFollow, LevelsOrdered
  <2>4. QED
    BY <2>2, <2>3
<1>2. arrivals \in Seq(Id) /\ IsInjective(arrivals) /\ id \in Range(arrivals)
  BY DEF ArrivalsFollow
<1>3. ASSUME NEW l, OrderedAs(l, arrivals), id \notin Range(l)
      PROVE  OrderedAs(l, arrivals')
  <2>1. SUFFICES ASSUME NEW i \in DOMAIN l, NEW j \in DOMAIN l, i < j
                 PROVE  Precedes(l[i], l[j], arrivals')
    BY DEF OrderedAs
  <2>2. Precedes(l[i], l[j], arrivals) /\ l[i] # id /\ l[j] # id
    BY <1>3, <2>1 DEF OrderedAs, Range
  <2>3. Precedes(l[i], l[j], RemoveFirst(arrivals, id))
    BY <1>2, <2>2, RemoveKeepsOrder
  <2>4. QED
    BY <2>3
<1>4. QED
  BY <1>1, <1>3 DEF LevelsOrdered

\* What a fill is: the head of the best level of the other side gives what is asked
\* for, or all it has.
FillOf(s, p, maker, traded, left, list) ==
  /\ s = Opposite(call.side) /\ s \in Side
  /\ p = sides[s].best /\ p \in DOMAIN level[s]
  /\ maker = Head(level[s][p].list) /\ maker \in DOMAIN node
  /\ node[maker].side = s /\ node[maker].price = p /\ node[maker].qty \in Nat
  /\ traded = Traded(node[maker].qty) /\ traded \in Nat /\ traded <= call.remaining
  /\ left = node[maker].qty - traded /\ left \in Nat
  /\ left # 0 => traded = call.remaining
  /\ list = IF left = 0 THEN Tail(level[s][p].list) ELSE level[s][p].list
  /\ level[s][p].list # <<>>

\* And what it changes.
Filling(s, p, maker, traded, left, list) ==
  /\ FillOf(s, p, maker, traded, left, list)
  /\ SetLevel(s, p, level[s][p].total - traded, list)
  /\ node' = IF left = 0 THEN Without(node, maker)
             ELSE [node EXCEPT ![maker].qty = left]
  /\ arrivals' = IF left = 0 THEN RemoveFirst(arrivals, maker) ELSE arrivals
  /\ call' = [call EXCEPT !.remaining = @ - traded,
                          !.raw = Append(@, [maker |-> maker, price |-> p,
                                             quantity |-> traded, left |-> left])]
  /\ UNCHANGED <<order, orders>> /\ CanMatch /\ Running

\* Consume is such a fill.
LEMMA FillFacts ==
  ASSUME IInv, Consume
  PROVE  \E s, p, maker, traded, left, list : Filling(s, p, maker, traded, left, list)
<1>1. PICK s : s = Opposite(call.side)
  OBVIOUS
<1>2. PICK p : p = sides[s].best
  OBVIOUS
<1>3. PICK lvl : lvl = level[s][p]
  OBVIOUS
<1>4. PICK maker : maker = Head(lvl.list)
  OBVIOUS
<1>5. PICK traded : traded = Traded(node[maker].qty)
  OBVIOUS
<1>6. PICK left : left = node[maker].qty - traded
  OBVIOUS
<1>7. PICK list : list = IF left = 0 THEN Tail(lvl.list) ELSE lvl.list
  OBVIOUS
<1>8. /\ CanMatch /\ Running /\ UNCHANGED <<order, orders>>
      /\ node' = IF left = 0 THEN Without(node, maker) ELSE [node EXCEPT ![maker].qty = left]
      /\ SetLevel(s, p, lvl.total - traded, list)
      /\ arrivals' = IF left = 0 THEN RemoveFirst(arrivals, maker) ELSE arrivals
      /\ call' = [call EXCEPT !.remaining = @ - traded,
                              !.raw = Append(@, [maker |-> maker, price |-> p,
                                                 quantity |-> traded, left |-> left])]
  BY <1>1, <1>2, <1>3, <1>4, <1>5, <1>6, <1>7 DEF Consume
<1>9. Book /\ CallOK /\ call \in Call /\ s \in Side
  BY <1>1 DEF IInv, CallOK, Call, Side, Opposite
<1>10. p \in Prices(sides[s])
  <2>1. p # NoLevel /\ BestIsBest(sides[s])
    BY <1>1, <1>2, <1>8, <1>9 DEF CanMatch, Book, SidesWellFormed, WellFormed
  <2>2. QED
    BY <1>2, <2>1 DEF BestIsBest, IsBest
<1>11. /\ p \in DOMAIN level[s] /\ lvl.list \in Seq(Id) /\ lvl.list # <<>>
       /\ IsInjective(lvl.list) /\ Range(lvl.list) = At(s, p)
  BY <1>3, <1>9, <1>10, LevelFacts
<1>12. maker \in Range(lvl.list)
  BY <1>4, <1>11, TailRange
<1>13. maker \in DOMAIN node /\ node[maker].side = s /\ node[maker].price = p
  BY <1>11, <1>12 DEF At
<1>14. node[maker].qty \in Nat /\ call.remaining \in Nat
  BY <1>9, <1>13, NodeFacts DEF Call
<1>15. /\ traded \in {call.remaining, node[maker].qty} /\ traded <= call.remaining
       /\ traded <= node[maker].qty
  <2>1. traded = Min({call.remaining, node[maker].qty})
    BY <1>5 DEF Traded
  <2>2. call.remaining \in Int /\ node[maker].qty \in Int
    BY <1>14
  <2>3. QED
    BY <2>1, <2>2, MinOfTwo
<1>16. traded \in Nat /\ left \in Nat /\ (left # 0 => traded = call.remaining)
  BY <1>6, <1>14, <1>15
<1>17. FillOf(s, p, maker, traded, left, list)
  BY <1>1, <1>2, <1>3, <1>4, <1>5, <1>6, <1>7, <1>9, <1>11, <1>13, <1>14, <1>15, <1>16 DEF FillOf
<1>18. SetLevel(s, p, level[s][p].total - traded, list)
  BY <1>3, <1>8
<1>19. Filling(s, p, maker, traded, left, list)
  BY <1>8, <1>17, <1>18 DEF Filling
<1>20. QED
  BY <1>19

\* A fill leaves totals and the order of the lists right.
LEMMA ConsumeLevels ==
  ASSUME IInv, TotalsAdd, ArrivalsFollow, Consume
  PROVE  TotalsAdd' /\ ArrivalsFollow'
<1>0. Book /\ Book'
  BY ConsumeCorrect DEF IInv
<1>a. PICK s, p, maker, traded, left, list : Filling(s, p, maker, traded, left, list)
  BY FillFacts
<1>1. /\ FillOf(s, p, maker, traded, left, list)
      /\ SetLevel(s, p, level[s][p].total - traded, list)
      /\ node' = IF left = 0 THEN Without(node, maker) ELSE [node EXCEPT ![maker].qty = left]
      /\ arrivals' = IF left = 0 THEN RemoveFirst(arrivals, maker) ELSE arrivals
  BY <1>a DEF Filling
<1>2. /\ s \in Side /\ p \in DOMAIN level[s] /\ maker \in DOMAIN node /\ maker \in Id
      /\ node[maker].side = s /\ node[maker].price = p /\ node[maker].qty \in Nat
      /\ traded \in Nat /\ left \in Nat /\ left = node[maker].qty - traded
  BY <1>0, <1>1, NodeFacts DEF FillOf
<1>3. PICK l : l = level[s][p].list
  OBVIOUS
<1>4. /\ l \in Seq(Id) /\ IsInjective(l) /\ l # <<>> /\ maker = Head(l)
      /\ list = IF left = 0 THEN Tail(l) ELSE l
      /\ level[s][p].total = Total(Lots, l) /\ OrderedAs(l, arrivals)
  BY <1>0, <1>1, <1>2, <1>3, Elsewhere DEF FillOf, TotalsAdd, ArrivalsFollow, LevelsOrdered
<1>5. /\ Tail(l) \in Seq(Id) /\ Range(Tail(l)) = Range(l) \ {maker}
      /\ Len(Tail(l)) = Len(l) - 1 /\ \A i \in 1..Len(Tail(l)) : Tail(l)[i] = l[i + 1]
      /\ l[1] = maker /\ 1 \in 1..Len(l)
  BY <1>4, TailRange
<1>6. node = [x \in DOMAIN node |-> node[x]]
  BY <1>0 DEF Book, CoreTypes
<1>7. /\ \A x \in Id \ {maker} : (x \in DOMAIN node' <=> x \in DOMAIN node)
                                 /\ (x \in DOMAIN node => node'[x] = node[x])
      /\ IF left = 0 THEN DOMAIN node' = DOMAIN node \ {maker}
         ELSE DOMAIN node' = DOMAIN node /\ node'[maker].qty = left
  <2>1. CASE left = 0
    BY <1>1, <2>1 DEF Without, Restrict
  <2>2. CASE left # 0
    <3>1. node[maker] \in [side : Side, price : 1..MaxPrice, qty : Nat]
      BY <1>0, <1>2, NodeFacts
    <3>2. QED
      BY <1>1, <1>2, <1>6, <2>2, <3>1
  <2>3. QED
    BY <2>1, <2>2
<1>8. /\ Lots \in [Id -> Int] /\ Lots' \in [Id -> Int]
      /\ Lots[maker] = node[maker].qty /\ Lots'[maker] = left
      /\ \A x \in Id \ {maker} : Lots'[x] = Lots[x]
  <2>1. /\ Lots \in [Id -> Int] /\ \A x \in DOMAIN node : Lots[x] = node[x].qty
        /\ \A x \in Id \ DOMAIN node : Lots[x] = 0
    BY <1>0, LotsType
  <2>2. /\ Lots' \in [Id -> Int] /\ \A x \in DOMAIN node' : Lots'[x] = node'[x].qty
        /\ \A x \in Id \ DOMAIN node' : Lots'[x] = 0
    BY <1>0, LotsTypeNext
  <2>3. QED
    BY <1>2, <1>7, <2>1, <2>2
<1>9. PICK w : w = Lots'
  OBVIOUS
<1>10. level[s][p].total - traded = Total(w, list)
  <2>0. w \in [Id -> Int] /\ \A x \in Id \ {maker} : w[x] = Lots[x]
    BY <1>8, <1>9
  <2>1. CASE left = 0
    <3> DEFINE k == 1
    <3>1. PICK u, r : u = Lots /\ r = Tail(l)
      OBVIOUS
    <3>2. /\ k \in 1..Len(l) /\ l[k] = maker /\ r \in Seq(Id) /\ Len(r) = Len(l) - 1
          /\ \A i \in 1..Len(r) : r[i] = IF i < k THEN l[i] ELSE l[i + 1]
          /\ l \in Seq(Id) /\ u \in [Id -> Int]
      BY <1>4, <1>5, <1>8, <3>1
    <3> HIDE DEF k
    <3>3. Total(u, r) = Total(u, l) - u[l[k]]
      BY <3>2, TotalOfRest
    <3>4. \A i \in 1..Len(r) : w[r[i]] = u[r[i]]
      <4>1. \A i \in 1..Len(r) : r[i] \in Id /\ r[i] \in Range(r)
        BY <3>2 DEF Range
      <4>2. maker \notin Range(r)
        BY <1>5, <3>1
      <4>3. QED
        BY <2>0, <3>1, <4>1, <4>2
    <3>5. Total(w, r) = Total(u, r)
      BY <2>0, <3>2, <3>4, TotalOfSame
    <3>6. Total(u, l) \in Int
      BY <3>2, TotalType
    <3>7. QED
      BY <1>2, <1>4, <1>8, <2>1, <3>1, <3>2, <3>3, <3>5, <3>6
  <2>2. CASE left # 0
    <3>1. Total(w, l) = Total(Lots, l) - Lots[maker] + left
      <4> DEFINE k == 1
      <4>1. k \in 1..Len(l) /\ l[k] = maker
        BY <1>5
      <4>2. AlikeBut(Lots, w, l, k)
        <5>1. \A i \in 1..Len(l) : i # k => l[i] # maker /\ l[i] \in Id
          BY <1>4, <4>1 DEF IsInjective
        <5>2. QED
          BY <2>0, <5>1 DEF AlikeBut
      <4> HIDE DEF k
      <4>3. PICK u : u = Lots
        OBVIOUS
      <4>4. u \in [Id -> Int] /\ l \in Seq(Id) /\ IsInjective(l) /\ AlikeBut(u, w, l, k)
        BY <1>4, <1>8, <4>2, <4>3
      <4>5. Total(w, l) = Total(u, l) - u[l[k]] + w[l[k]]
        <5>1. /\ k \in 1..Len(l) /\ u \in [Id -> Int] /\ w \in [Id -> Int] /\ l \in Seq(Id)
              /\ IsInjective(l) /\ AlikeBut(u, w, l, k)
          BY <2>0, <4>1, <4>4
        <5>2. QED
          BY <5>1, TotalOfChange
      <4>6. QED
        BY <1>8, <1>9, <4>1, <4>3, <4>5
    <3>2. Total(Lots, l) \in Int
      BY <1>4, <1>8, TotalType
    <3>3. QED
      BY <1>2, <1>4, <1>8, <2>2, <3>1, <3>2
  <2>3. QED
    BY <2>1, <2>2
<1>11. TotalsAdd'
  <2>1. PICK total : total = level[s][p].total - traded
    OBVIOUS
  <2>2. SetLevel(s, p, total, list)
    BY <1>1, <2>1
  <2>3. \A t \in Side : \A q \in DOMAIN level'[t] :
           IF t = s /\ q = p
           THEN level'[t][q].total = total /\ level'[t][q].list = list
           ELSE q \in DOMAIN level[t] /\ level'[t][q] = level[t][q]
    BY <1>0, <1>2, <2>2, OneLevel
  <2>4. total = Total(Lots', list)
    BY <1>9, <1>10, <2>1
  <2>5. QED
    BY <1>0, <1>2, <1>8, <2>3, <2>4, TotalsStep
<1>12. ArrivalsFollow'
  <2>1. CASE left = 0
    <3>1. arrivals' = RemoveFirst(arrivals, maker) /\ DOMAIN node' = DOMAIN node \ {maker}
      BY <1>1, <1>7, <2>1
    <3>2. /\ arrivals \in Seq(Id) /\ IsInjective(arrivals) /\ Range(arrivals) = DOMAIN node
      BY DEF ArrivalsFollow
    <3>3. /\ arrivals' \in Seq(Id) /\ IsInjective(arrivals')
          /\ Range(arrivals') = DOMAIN node \ {maker}
      BY <1>2, <3>1, <3>2, RemoveFirstRange
    <3>4. OrderedAs(list, arrivals) /\ maker \notin Range(list)
      BY <1>4, <1>5, <2>1, LevelKeepsOrder
    <3>5. PICK total : total = level[s][p].total - traded
      OBVIOUS
    <3>6. SetLevel(s, p, total, list)
      BY <1>1, <3>5
    <3>7. LevelsOrdered'
      BY <1>0, <1>2, <3>1, <3>4, <3>6, OrderStep
    <3>8. QED
      BY <3>1, <3>3, <3>7 DEF ArrivalsFollow
  <2>2. CASE left # 0
    <3>1. arrivals' = arrivals /\ DOMAIN node' = DOMAIN node /\ list = l
      BY <1>1, <1>4, <1>7, <2>2
    <3>2. PICK total : total = level[s][p].total - traded
      OBVIOUS
    <3>3. SetLevel(s, p, total, list)
      BY <1>1, <3>2
    <3>4. \A t \in Side : \A q \in DOMAIN level'[t] :
            IF t = s /\ q = p THEN level'[t][q].list = list
            ELSE q \in DOMAIN level[t] /\ level'[t][q] = level[t][q]
      BY <1>0, <1>2, <3>3, OneLevel
    <3>5. LevelsOrdered'
      BY <1>4, <3>1, <3>4 DEF LevelsOrdered, ArrivalsFollow
    <3>6. QED
      BY <3>1, <3>5 DEF ArrivalsFollow
  <2>3. QED
    BY <2>1, <2>2
<1>13. QED
  BY <1>11, <1>12

\* A cancelled order leaves totals and the order of the lists right.
LEMMA CancelLevels ==
  ASSUME IInv, TotalsAdd, ArrivalsFollow, NEW id \in Id, CancelOrder(id)
  PROVE  TotalsAdd' /\ ArrivalsFollow'
<1>0. Book /\ Book'
  BY CancelOrderCorrect DEF IInv
<1>1. PICK s : s = node[id].side
  OBVIOUS
<1>2. PICK p : p = node[id].price
  OBVIOUS
<1>3. PICK l : l = level[s][p].list
  OBVIOUS
<1>4. PICK r : r = RemoveFirst(l, id)
  OBVIOUS
<1>5. PICK total : total = level[s][p].total - node[id].qty
  OBVIOUS
<1>6. /\ id \in DOMAIN node /\ SetLevel(s, p, total, r) /\ node' = Without(node, id)
      /\ arrivals' = RemoveFirst(arrivals, id)
  BY <1>1, <1>2, <1>3, <1>4, <1>5 DEF CancelOrder
<1>7. s \in Side /\ p \in Prices(sides[s]) /\ id \in At(s, p) /\ node[id].qty \in Nat
  BY <1>0, <1>1, <1>2, <1>6, NodeFacts
<1>8. /\ p \in DOMAIN level[s] /\ l \in Seq(Id) /\ IsInjective(l) /\ id \in Range(l)
      /\ level[s][p].total = Total(Lots, l) /\ OrderedAs(l, arrivals)
  BY <1>0, <1>3, <1>7, LevelFacts DEF TotalsAdd, ArrivalsFollow, LevelsOrdered
<1>9. r \in Seq(Id) /\ Range(r) = Range(l) \ {id}
  BY <1>4, <1>8, RemoveFirstRange
<1>10. DOMAIN node' = DOMAIN node \ {id} /\ \A x \in DOMAIN node' : node'[x] = node[x]
  BY <1>6 DEF Without, Restrict
<1>11. /\ Lots \in [Id -> Int] /\ Lots' \in [Id -> Int] /\ Lots[id] = node[id].qty
       /\ \A x \in Id \ {id} : Lots'[x] = Lots[x]
  <2>1. /\ Lots \in [Id -> Int] /\ \A x \in DOMAIN node : Lots[x] = node[x].qty
        /\ \A x \in Id \ DOMAIN node : Lots[x] = 0
    BY <1>0, LotsType
  <2>2. /\ Lots' \in [Id -> Int] /\ \A x \in DOMAIN node' : Lots'[x] = node'[x].qty
        /\ \A x \in Id \ DOMAIN node' : Lots'[x] = 0
    BY <1>0, LotsTypeNext
  <2>3. QED
    BY <1>6, <1>10, <2>1, <2>2
<1>12. total = Total(Lots', r)
  <2>1. PICK u, w : u = Lots /\ w = Lots'
    OBVIOUS
  <2>2. PICK k \in 1..Len(l) : l[k] = id
    BY <1>8 DEF Range
  <2>3. /\ u \in [Id -> Int] /\ w \in [Id -> Int]
        /\ Len(r) = Len(l) - 1
        /\ \A i \in 1..Len(r) : r[i] = IF i < k THEN l[i] ELSE l[i + 1]
    <3>1. RemoveFirst(l, l[k]) = r
      BY <1>4, <2>2
    <3>2. /\ Len(r) = Len(l) - 1
          /\ \A i \in 1..Len(r) : r[i] = IF i < k THEN l[i] ELSE l[i + 1]
      BY <1>8, <3>1, RemoveFirstFacts
    <3>3. QED
      BY <1>11, <2>1, <3>2
  <2>4. Total(u, r) = Total(u, l) - u[l[k]]
    <3>1. /\ l \in Seq(Id) /\ r \in Seq(Id) /\ u \in [Id -> Int] /\ k \in 1..Len(l)
          /\ Len(r) = Len(l) - 1
          /\ \A i \in 1..Len(r) : r[i] = IF i < k THEN l[i] ELSE l[i + 1]
      BY <1>8, <1>9, <2>2, <2>3
    <3>2. QED
      BY <3>1, TotalOfRest
  <2>5. \A i \in 1..Len(r) : w[r[i]] = u[r[i]]
    <3>1. \A i \in 1..Len(r) : r[i] \in Id /\ r[i] \in Range(r)
      BY <1>9 DEF Range
    <3>2. QED
      BY <1>9, <1>11, <2>1, <3>1
  <2>6. Total(w, r) = Total(u, r)
    BY <1>9, <2>3, <2>5, TotalOfSame
  <2>7. QED
    BY <1>5, <1>8, <1>11, <2>1, <2>2, <2>4, <2>6
<1>13. TotalsAdd'
  <2>1. \A t \in Side : \A q \in DOMAIN level'[t] :
           IF t = s /\ q = p
           THEN level'[t][q].total = total /\ level'[t][q].list = r
           ELSE q \in DOMAIN level[t] /\ level'[t][q] = level[t][q]
    BY <1>0, <1>6, <1>7, OneLevel
  <2>2. QED
    BY <1>0, <1>1, <1>2, <1>7, <1>11, <1>12, <2>1, TotalsStep
<1>14. LevelsOrdered'
  <2>1. OrderedAs(r, arrivals) /\ id \notin Range(r)
    BY <1>4, <1>8, <1>9, LevelKeepsOrder
  <2>2. QED
    BY <1>0, <1>1, <1>2, <1>6, <1>7, <2>1, OrderStep
<1>15. arrivals \in Seq(Id) /\ IsInjective(arrivals) /\ Range(arrivals) = DOMAIN node
  BY DEF ArrivalsFollow
<1>16. /\ arrivals' \in Seq(Id) /\ IsInjective(arrivals')
       /\ Range(arrivals') = DOMAIN node \ {id}
  BY <1>6, <1>15, RemoveFirstRange
<1>17. QED
  BY <1>10, <1>13, <1>14, <1>16 DEF ArrivalsFollow

\* So does an order that comes to rest.
LEMMA RestLevels ==
  ASSUME Book, TotalsAdd, ArrivalsFollow, NEW id \in Id, id \notin DOMAIN node,
         NEW s \in Side, NEW p \in 1..MaxPrice, NEW qty \in Nat, Rest(id, s, p, qty)
  PROVE  TotalsAdd' /\ ArrivalsFollow'
<1>0. Book'
  BY Enter
<1> DEFINE new == Find(sides[s], p) = NoLevel
<1>2. PICK lvl : lvl = IF new THEN [total |-> 0, list |-> <<>>] ELSE level[s][p]
  OBVIOUS
<1>3. PICK list : list = Append(lvl.list, id)
  OBVIOUS
<1>4. PICK total : total = lvl.total + qty
  OBVIOUS
<1>5. /\ level' = [level EXCEPT ![s] = With(@, p, [total |-> total, list |-> list])]
      /\ node' = With(node, id, [side |-> s, price |-> p, qty |-> qty])
      /\ arrivals' = Append(arrivals, id)
  BY <1>2, <1>3, <1>4 DEF Rest
<1>6. new <=> p \notin DOMAIN level[s]
  <2>1. sides[s] \in SideUpTo(MaxPrice) /\ Consistent(sides[s]) /\ MaxPrice \in Nat
        /\ DOMAIN level[s] = Prices(sides[s])
    BY NativeAssumption DEF Book, CoreTypes, SidesWellFormed, WellFormed, CoreCoherent
  <2>2. Find(sides[s], p) = IF p \in Prices(sides[s]) THEN p ELSE NoLevel
    BY <2>1, FindCorrect
  <2>3. p # NoLevel
    BY <2>1 DEF NoLevel
  <2>4. QED
    BY <2>1, <2>2, <2>3
<1> HIDE DEF new
<1>7. /\ Lots \in [Id -> Int] /\ Lots' \in [Id -> Int] /\ Lots'[id] = qty
      /\ \A x \in Id \ {id} : Lots'[x] = Lots[x]
  <2>1. /\ Lots \in [Id -> Int] /\ \A x \in DOMAIN node : Lots[x] = node[x].qty
        /\ \A x \in Id \ DOMAIN node : Lots[x] = 0
    BY LotsType
  <2>2. /\ Lots' \in [Id -> Int] /\ \A x \in DOMAIN node' : Lots'[x] = node'[x].qty
        /\ \A x \in Id \ DOMAIN node' : Lots'[x] = 0
    BY <1>0, LotsTypeNext
  <2>3. /\ DOMAIN node' = DOMAIN node \union {id} /\ node'[id].qty = qty
        /\ \A x \in DOMAIN node : node'[x] = node[x]
    BY <1>5 DEF With
  <2>4. QED
    BY <2>1, <2>2, <2>3
<1>8. /\ lvl.list \in Seq(Id) /\ id \notin Range(lvl.list) /\ lvl.total = Total(Lots, lvl.list)
      /\ OrderedAs(lvl.list, arrivals) /\ Range(lvl.list) \subseteq Range(arrivals)
  <2>1. CASE new
    <3>1. lvl.list = <<>> /\ lvl.total = 0
      BY <1>2, <2>1
    <3>2. Total(Lots, <<>>) = 0
      <4>1. PICK u : u = Lots
        OBVIOUS
      <4>2. u \in [Id -> Int]
        BY <1>7, <4>1
      <4>3. Total(u, <<>>) = 0
        BY <4>2, TotalOfEmpty
      <4>4. QED
        BY <4>1, <4>3
    <3>3. <<>> \in Seq(Id) /\ Range(<<>>) = {} /\ OrderedAs(<<>>, arrivals)
      BY EmptySeq DEF Range, OrderedAs
    <3>4. QED
      BY <3>1, <3>2, <3>3
  <2>2. CASE ~new
    <3>1. p \in DOMAIN level[s] /\ lvl = level[s][p]
      BY <1>2, <1>6, <2>2
    <3>2. QED
      BY <3>1, Elsewhere DEF TotalsAdd, ArrivalsFollow, LevelsOrdered
  <2>3. QED
    BY <2>1, <2>2
<1>9. level = [t \in Side |-> level[t]]
  BY DEF Book, CoreTypes
<1>10. \A t \in Side : \A q \in DOMAIN level'[t] :
         IF t = s /\ q = p
         THEN level'[t][q].total = total /\ level'[t][q].list = list
         ELSE q \in DOMAIN level[t] /\ level'[t][q] = level[t][q]
  BY <1>5, <1>9 DEF With
<1>11. TotalsAdd'
  <2>1. PICK u, w, l : u = Lots /\ w = Lots' /\ l = lvl.list
    OBVIOUS
  <2>2. /\ l \in Seq(Id) /\ u \in [Id -> Int] /\ w \in [Id -> Int] /\ list = Append(l, id)
        /\ w[id] = qty /\ id \notin Range(l) /\ \A x \in Id \ {id} : w[x] = u[x]
    BY <1>3, <1>7, <1>8, <2>1
  <2>3. Total(w, Append(l, id)) = Total(w, l) + w[id]
    BY <2>2, TotalOfAppend
  <2>4. \A i \in 1..Len(l) : w[l[i]] = u[l[i]]
    BY <2>2 DEF Range
  <2>5. Total(w, l) = Total(u, l)
    BY <2>2, <2>4, TotalOfSame
  <2>6. total = Total(Lots', list)
    BY <1>4, <1>8, <2>1, <2>2, <2>3, <2>5
  <2>7. /\ Lots' \in [Id -> Int] /\ \A x \in Id \ {id} : Lots'[x] = Lots[x]
        /\ id \in DOMAIN node => node[id].side = s /\ node[id].price = p
    BY <1>7
  <2>8. QED
    BY <1>10, <2>6, <2>7, TotalsStep
<1>12. arrivals \in Seq(Id) /\ IsInjective(arrivals) /\ Range(arrivals) = DOMAIN node
  BY DEF ArrivalsFollow
<1>13. /\ arrivals' \in Seq(Id) /\ IsInjective(arrivals')
       /\ Range(arrivals') = DOMAIN node'
  <2>1. DOMAIN node' = DOMAIN node \union {id}
    BY <1>5 DEF With
  <2>2. id \notin Range(arrivals)
    BY <1>12
  <2>3. /\ Append(arrivals, id) \in Seq(Id) /\ IsInjective(Append(arrivals, id))
        /\ Range(Append(arrivals, id)) = Range(arrivals) \union {id}
    BY <1>12, <2>2, AppendRange
  <2>4. QED
    BY <1>5, <1>12, <2>1, <2>3
<1>14. LevelsOrdered'
  <2>1. \A x, y : Precedes(x, y, arrivals) => Precedes(x, y, arrivals')
    BY <1>5, <1>12, AppendKeepsOrder
  <2>2. \A x \in Range(arrivals) : Precedes(x, id, arrivals')
    BY <1>5, <1>12, AppendKeepsOrder
  <2>3. OrderedAs(list, arrivals')
    <3>1. SUFFICES ASSUME NEW i \in DOMAIN list, NEW j \in DOMAIN list, i < j
                   PROVE  Precedes(list[i], list[j], arrivals')
      BY DEF OrderedAs
    <3>2. PICK l : l = lvl.list
      OBVIOUS
    <3>3. l \in Seq(Id) /\ OrderedAs(l, arrivals) /\ Range(l) \subseteq Range(arrivals)
          /\ list = Append(l, id)
      BY <1>3, <1>8, <3>2
    <3>4. DOMAIN list = 1..(Len(l) + 1) /\ i \in DOMAIN l /\ list[i] = l[i]
          /\ DOMAIN l = 1..Len(l)
      BY <3>1, <3>3
    <3>5. CASE j = Len(l) + 1
      <4>1. list[j] = id /\ l[i] \in Range(l)
        BY <3>3, <3>4, <3>5 DEF Range
      <4>2. QED
        BY <2>2, <3>3, <3>4, <4>1
    <3>6. CASE j # Len(l) + 1
      <4>1. j \in DOMAIN l /\ list[j] = l[j]
        BY <3>3, <3>4, <3>6
      <4>2. Precedes(l[i], l[j], arrivals)
        BY <3>1, <3>3, <3>4, <4>1 DEF OrderedAs
      <4>3. QED
        BY <2>1, <3>4, <4>1, <4>2
    <3>7. QED
      BY <3>5, <3>6
  <2>4. QED
    BY <1>10, <2>1, <2>3 DEF LevelsOrdered, ArrivalsFollow, OrderedAs
<1>15. QED
  BY <1>11, <1>13, <1>14 DEF ArrivalsFollow

\* Between calls the objects are as they will be.
LEMMA NothingPending ==
  ASSUME order \in [Id -> Order], call.raw = <<>>
  PROVE  Then = [order |-> order, orders |-> orders]
  BY NoFill DEF Then

\* The same after a step.
LEMMA NothingPendingNext ==
  ASSUME order' \in [Id -> Order], call'.raw = <<>>
  PROVE  Then' = [order |-> order', orders |-> orders']
<1>1. Then' = Applied(<<>>, order', orders')
  BY DEF Then
<1>2. QED
  BY <1>1, NoFill

\* A limit order starts with its own object; it holds nobody else's.
LEMMA AddOrderTold ==
  ASSUME IInv, Told, NEW id \in Id, NEW side \in Side, NEW price \in 0..MaxPrice,
         NEW quantity \in 0..MaxQuantity, AddOrder(id, side, price, quantity)
  PROVE  Told'
<1>1. /\ ~Running /\ id \notin orders /\ id \notin DOMAIN node
      /\ order' = [order EXCEPT ![id] = [side |-> side, price |-> price,
                                         quantity |-> quantity, status |-> "open"]]
      /\ call' = NewCall("limit", side, id, price, quantity)
      /\ orders' = orders /\ node' = node
  BY DEF AddOrder, core
<1>2. order \in [Id -> Order] /\ orders \subseteq Id /\ CopiesFollow /\ call = IdleCall
  BY <1>1 DEF Told, FrameFollows
<1>3. order' \in [Id -> Order]
  <2>1. [side |-> side, price |-> price, quantity |-> quantity, status |-> "open"] \in Order
    BY NativeAssumption DEF Order
  <2>2. QED
    BY <1>1, <1>2, <2>1
<1>4. call.raw = <<>> /\ call'.raw = <<>>
  BY <1>1, <1>2 DEF IdleCall, NewCall
<1>5. /\ Then.order = order /\ Then.orders = orders
      /\ Then'.order = order' /\ Then'.orders = orders'
  BY <1>2, <1>3, <1>4, NothingPending, NothingPendingNext
<1>6. CopiesFollow'
  <2>1. \A x \in DOMAIN node : CopyOf(order[x], node[x]) /\ x # id /\ x \in Id
    BY <1>1, <1>2, <1>5 DEF CopiesFollow
  <2>2. \A x \in DOMAIN node : CopyOf(order'[x], node[x])
    BY <1>1, <1>2, <2>1
  <2>3. QED
    BY <1>1, <1>2, <1>5, <2>2 DEF CopiesFollow
<1>7. FillsOnce'
  BY <1>4 DEF FillsOnce
<1>8. FrameFollows'
  BY <1>1, <1>2 DEF FrameFollows, NewCall, Running
<1>9. QED
  BY <1>1, <1>2, <1>3, <1>6, <1>7, <1>8 DEF Told

\* Whatever ends or starts without a fill leaves the objects as they were to be.
LEMMA SettledTold ==
  ASSUME Told, NEW own, own = Then.order, order' \in [Id -> Order], orders' \subseteq Id,
         call'.raw = <<>>, FrameFollows',
         orders' = DOMAIN node', \A x \in DOMAIN node' : CopyOf(order'[x], node'[x])
  PROVE  Told'
<1>1. Then'.order = order' /\ Then'.orders = orders'
  BY NothingPendingNext
<1>2. CopiesFollow'
  BY <1>1 DEF CopiesFollow
<1>3. FillsOnce'
  BY DEF FillsOnce
<1>4. QED
  BY <1>2, <1>3 DEF Told

\* A market order starts.
LEMMA MatchMarketOrderTold ==
  ASSUME IInv, Told, NEW side \in Side, NEW quantity \in 0..MaxQuantity,
         MatchMarketOrder(side, quantity)
  PROVE  Told'
<1>1. /\ ~Running /\ call' = NewCall("market", side, NoOrder, 0, quantity)
      /\ order' = order /\ orders' = orders /\ node' = node
  BY DEF MatchMarketOrder, core
<1>2. order \in [Id -> Order] /\ orders \subseteq Id /\ CopiesFollow /\ call = IdleCall
  BY <1>1 DEF Told, FrameFollows
<1>3. Then.order = order /\ Then.orders = orders
  BY <1>2, NothingPending DEF IdleCall
<1>4. orders' = DOMAIN node' /\ \A x \in DOMAIN node' : CopyOf(order'[x], node'[x])
  BY <1>1, <1>2, <1>3 DEF CopiesFollow
<1>5. call'.raw = <<>> /\ FrameFollows'
  BY <1>1 DEF NewCall, FrameFollows, Running
<1>6. QED
  BY <1>1, <1>2, <1>4, <1>5, SettledTold

\* The end of a market order brings the objects up to date.
LEMMA ReturnMarketTold ==
  ASSUME IInv, Told, ReturnMarket
  PROVE  Told'
<1>1. /\ call' = IdleCall /\ order' = Then.order /\ orders' = Then.orders /\ node' = node
  BY ThenIs DEF ReturnMarket, core
<1>2. order \in [Id -> Order] /\ orders \subseteq Id /\ CopiesFollow /\ call.raw \in Seq(Fill)
  BY DEF Told, IInv, CallOK, Call
<1>3. order' \in [Id -> Order] /\ orders' \subseteq Id
  BY <1>1, <1>2, AppliedType DEF Then
<1>4. orders' = DOMAIN node' /\ \A x \in DOMAIN node' : CopyOf(order'[x], node'[x])
  BY <1>1, <1>2 DEF CopiesFollow
<1>5. call'.raw = <<>> /\ FrameFollows'
  BY <1>1 DEF IdleCall, FrameFollows, Running
<1>6. QED
  BY <1>3, <1>4, <1>5, SettledTold

\* A cancelled order leaves the core and the Python side.
LEMMA CancelOrderTold ==
  ASSUME IInv, Told, NEW id \in Id, CancelOrder(id)
  PROVE  Told'
<1>1. /\ ~Running /\ id \in DOMAIN node /\ node' = Without(node, id)
      /\ orders' = orders \ {id} /\ call' = call
      /\ order' = IF id \in orders THEN [order EXCEPT ![id].status = "cancelled"] ELSE order
  BY DEF CancelOrder
<1>2. order \in [Id -> Order] /\ orders \subseteq Id /\ CopiesFollow /\ call = IdleCall
  BY <1>1 DEF Told, FrameFollows
<1>3. Then.order = order /\ Then.orders = orders
  BY <1>2, NothingPending DEF IdleCall
<1>4. /\ DOMAIN node' = DOMAIN node \ {id} /\ \A x \in DOMAIN node' : node'[x] = node[x]
  BY <1>1 DEF Without, Restrict
<1>5. order' \in [Id -> Order] /\ \A x \in Id \ {id} : order'[x] = order[x]
  <2>1. order[id] \in Order
    BY <1>2
  <2>2. [order[id] EXCEPT !.status = "cancelled"] \in Order
    BY <2>1 DEF Order
  <2>3. QED
    BY <1>1, <1>2, <2>2
<1>6. orders' = DOMAIN node' /\ \A x \in DOMAIN node' : CopyOf(order'[x], node'[x])
  <2>1. orders = DOMAIN node /\ \A x \in DOMAIN node : CopyOf(order[x], node[x]) /\ x \in Id
    BY <1>2, <1>3 DEF CopiesFollow
  <2>2. QED
    BY <1>1, <1>4, <1>5, <2>1
<1>7. call'.raw = <<>> /\ FrameFollows'
  BY <1>1, <1>2 DEF IdleCall, FrameFollows, Running
<1>8. QED
  BY <1>1, <1>2, <1>5, <1>6, <1>7, SettledTold

\* The end of a limit order: its object says what its node says, if it has one.
LEMMA ReturnLimitTold ==
  ASSUME IInv, Told, ReturnLimit
  PROVE  Told'
<1>1. PICK t, left, own, status :
        /\ t = call.taker /\ left = call.remaining /\ own = Then.order
        /\ status = IF left = 0 THEN "filled" ELSE IF left < call.quantity THEN "partial" ELSE "open"
  OBVIOUS
<1>2. /\ call.kind = "limit" /\ call' = IdleCall
      /\ order' = [own EXCEPT ![t].quantity = left, ![t].status = status]
      /\ IF left = 0 THEN orders' = Then.orders /\ node' = node
         ELSE orders' = Then.orders \union {t} /\ Rest(t, call.side, call.limit, left)
  BY <1>1, ThenIs DEF ReturnLimit, core
<1>3. /\ order \in [Id -> Order] /\ orders \subseteq Id /\ CopiesFollow /\ call.raw \in Seq(Fill)
      /\ call.remaining \in Nat /\ t \in Id /\ t \notin DOMAIN node /\ t \notin orders
      /\ order[t].side = call.side /\ order[t].price = call.limit
  BY <1>1, <1>2 DEF Told, IInv, CallOK, Call, FrameFollows
<1>4. own \in [Id -> Order] /\ Then.orders \subseteq Id /\ own[t] = order[t]
  <2>1. order \in [Id -> Order] /\ orders \in SUBSET Id /\ call.raw \in Seq(Fill)
    BY <1>3
  <2>2. own \in [Id -> Order] /\ Then.orders \subseteq orders
    BY <1>1, <2>1, AppliedType DEF Then
  <2>3. own[t] = order[t]
    BY <1>1, <1>3, AppliedKeepsOthers DEF Then
  <2>4. QED
    BY <2>1, <2>2, <2>3
<1>5. Then.orders = DOMAIN node /\ \A x \in DOMAIN node : CopyOf(own[x], node[x]) /\ x # t
  BY <1>1, <1>3 DEF CopiesFollow
<1>6. /\ order' \in [Id -> Order] /\ \A x \in Id \ {t} : order'[x] = own[x]
      /\ order'[t].side = call.side /\ order'[t].price = call.limit
      /\ order'[t].quantity = left /\ order'[t].status = status
  <2>1. own[t] \in Order /\ left \in Nat
    BY <1>1, <1>3, <1>4
  <2>2. status \in {"filled", "partial", "open"}
    BY <1>1
  <2> DEFINE o == [own[t] EXCEPT !.quantity = left, !.status = status]
  <2>3. o \in Order /\ o.side = own[t].side /\ o.price = own[t].price /\ o.quantity = left
        /\ o.status = status
    BY <2>1, <2>2 DEF Order
  <2>4. order' = [own EXCEPT ![t] = o]
    BY <1>2, <1>3, <1>4
  <2> HIDE DEF o
  <2>5. QED
    BY <1>3, <1>4, <2>3, <2>4
<1>7. orders' = DOMAIN node' /\ orders' \subseteq Id
      /\ \A x \in DOMAIN node' : CopyOf(order'[x], node'[x])
  <2>1. CASE left = 0
    BY <1>2, <1>4, <1>5, <1>6, <2>1
  <2>2. CASE left # 0
    <3>1. node' = With(node, t, [side |-> call.side, price |-> call.limit, qty |-> left])
      BY <1>2, <2>2 DEF Rest
    <3>2. /\ DOMAIN node' = DOMAIN node \union {t} /\ \A x \in DOMAIN node : node'[x] = node[x]
          /\ node'[t].side = call.side /\ node'[t].price = call.limit /\ node'[t].qty = left
      BY <1>3, <3>1 DEF With
    <3>3. status \in {"open", "partial"}
      BY <1>1, <2>2
    <3>4. CopyOf(order'[t], node'[t])
      BY <1>6, <3>2, <3>3 DEF CopyOf
    <3>5. \A x \in DOMAIN node : CopyOf(order'[x], node'[x])
      BY <1>4, <1>5, <1>6, <3>2
    <3>6. QED
      BY <1>2, <1>3, <1>4, <1>5, <2>2, <3>2, <3>4, <3>5
  <2>3. QED
    BY <2>1, <2>2
<1>8. call'.raw = <<>> /\ FrameFollows'
  BY <1>2 DEF IdleCall, FrameFollows, Running
<1>9. QED
  BY <1>6, <1>7, <1>8, SettledTold

\* What a fill makes of the objects.
LEMMA ConsumeThen ==
  ASSUME IInv, Told, Consume,
         NEW s, NEW p, NEW maker, NEW traded, NEW left, NEW list,
         FillOf(s, p, maker, traded, left, list), CanMatch,
         call' = [call EXCEPT !.remaining = @ - traded,
                              !.raw = Append(@, [maker |-> maker, price |-> p,
                                                 quantity |-> traded, left |-> left])],
         UNCHANGED <<order, orders>>
  PROVE  /\ Then.order \in [Id -> Order]
         /\ Then'.order = [Then.order EXCEPT ![maker].quantity = left,
                                             ![maker].status = IF left = 0 THEN "filled"
                                                               ELSE "partial"]
         /\ Then'.orders = IF left = 0 THEN Then.orders \ {maker} ELSE Then.orders
         /\ CopyOf(Then.order[maker], node[maker])
<1>1. PICK f : f = [maker |-> maker, price |-> p, quantity |-> traded, left |-> left]
  OBVIOUS
<1>2. /\ Book /\ call \in Call /\ call.raw \in Seq(Fill) /\ call.remaining \in Nat
      /\ order \in [Id -> Order] /\ orders \in SUBSET Id /\ CopiesFollow
  BY DEF IInv, CallOK, Call, Told
<1>3. /\ maker \in Id /\ maker \in DOMAIN node /\ p \in 1..MaxPrice /\ traded \in Nat /\ left \in Nat
  BY <1>2, NodeFacts DEF FillOf
<1>4. f \in Fill /\ f.maker = maker /\ f.left = left
  BY <1>1, <1>3 DEF Fill
<1>5. maker \in orders /\ CopyOf(Then.order[maker], node[maker])
  <2>1. maker \in Then.orders /\ CopyOf(Then.order[maker], node[maker])
    BY <1>2, <1>3 DEF CopiesFollow
  <2>2. QED
    BY <1>2, <2>1, AppliedType DEF Then
<1>6. \A i \in DOMAIN call.raw : call.raw[i].maker # f.maker
  <2>1. call.remaining # 0
    BY <1>2 DEF CanMatch
  <2>2. QED
    BY <1>3, <1>4, <2>1 DEF Told, FillsOnce
<1>7. Then' = Applied(Append(call.raw, f), order, orders)
  <2>1. call'.raw = Append(call.raw, f)
    BY <1>1, <1>2 DEF Call
  <2>2. QED
    BY <2>1 DEF Then
<1>8. PICK raw, own, held : raw = call.raw /\ own = order /\ held = orders
  OBVIOUS
<1>9. /\ raw \in Seq(Fill) /\ f.maker \in held /\ \A i \in DOMAIN raw : raw[i].maker # f.maker
      /\ f \in Fill /\ own \in [Id -> Order] /\ held \in SUBSET Id
  BY <1>2, <1>4, <1>5, <1>6, <1>8
<1>10. PICK a, b : a = Applied(raw, own, held) /\ b = Applied(Append(raw, f), own, held)
  OBVIOUS
<1>11. /\ a.order \in [Id -> Order]
       /\ b.order = [a.order EXCEPT ![f.maker].quantity = f.left,
                                    ![f.maker].status = IF f.left = 0 THEN "filled"
                                                        ELSE "partial"]
       /\ b.orders = IF f.left = 0 THEN a.orders \ {f.maker} ELSE a.orders
  <2>1. LET x == Applied(raw, own, held)
            y == Applied(Append(raw, f), own, held)
        IN  /\ x.order \in [Id -> Order]
            /\ y.order = [x.order EXCEPT ![f.maker].quantity = f.left,
                                         ![f.maker].status = IF f.left = 0 THEN "filled"
                                                             ELSE "partial"]
            /\ y.orders = IF f.left = 0 THEN x.orders \ {f.maker} ELSE x.orders
            /\ x.order[f.maker] = own[f.maker]
            /\ f.maker \in x.orders
    BY <1>9, OneMoreFill
  <2>2. QED
    BY <1>10, <2>1
<1>12. a = Then /\ b = Then'
  BY <1>7, <1>8, <1>10 DEF Then
<1>13. QED
  BY <1>4, <1>5, <1>11, <1>12

\* The fills of a call say of every maker what its node says, and each maker once.
LEMMA ConsumeTold ==
  ASSUME IInv, Told, Consume
  PROVE  Told'
<1>a. PICK s, p, maker, traded, left, list : Filling(s, p, maker, traded, left, list)
  BY FillFacts
<1>1. /\ FillOf(s, p, maker, traded, left, list)
      /\ node' = IF left = 0 THEN Without(node, maker) ELSE [node EXCEPT ![maker].qty = left]
      /\ call' = [call EXCEPT !.remaining = @ - traded,
                              !.raw = Append(@, [maker |-> maker, price |-> p,
                                                 quantity |-> traded, left |-> left])]
      /\ UNCHANGED <<order, orders>> /\ CanMatch /\ Running
  BY <1>a DEF Filling
<1>2. PICK own, held : own = Then.order /\ held = Then.orders
  OBVIOUS
<1>3. /\ own \in [Id -> Order]
      /\ Then'.order = [own EXCEPT ![maker].quantity = left,
                                   ![maker].status = IF left = 0 THEN "filled" ELSE "partial"]
      /\ Then'.orders = IF left = 0 THEN held \ {maker} ELSE held
      /\ CopyOf(own[maker], node[maker])
  <2>1. /\ Then.order \in [Id -> Order]
        /\ Then'.order = [Then.order EXCEPT ![maker].quantity = left,
                                            ![maker].status = IF left = 0 THEN "filled"
                                                              ELSE "partial"]
        /\ Then'.orders = IF left = 0 THEN Then.orders \ {maker} ELSE Then.orders
        /\ CopyOf(Then.order[maker], node[maker])
    BY <1>1, ConsumeThen
  <2>2. QED
    BY <1>2, <2>1
<1>4. /\ Book /\ call \in Call /\ call.raw \in Seq(Fill) /\ call.remaining \in Nat
      /\ order \in [Id -> Order] /\ orders \in SUBSET Id /\ CopiesFollow
      /\ FillsOnce /\ FrameFollows
  BY DEF IInv, CallOK, Call, Told
<1>5. /\ maker \in Id /\ maker \in DOMAIN node /\ traded \in Nat /\ left \in Nat
      /\ left # 0 => traded = call.remaining
  BY <1>1, <1>4, NodeFacts DEF FillOf
<1>6. held = DOMAIN node /\ \A x \in DOMAIN node : CopyOf(own[x], node[x]) /\ x \in Id
  BY <1>2, <1>4, NodeFacts DEF CopiesFollow
<1>7. /\ \A x \in Id \ {maker} : (x \in DOMAIN node' <=> x \in DOMAIN node)
                                 /\ (x \in DOMAIN node => node'[x] = node[x])
      /\ DOMAIN node' = IF left = 0 THEN DOMAIN node \ {maker} ELSE DOMAIN node
      /\ left # 0 => /\ node'[maker].qty = left /\ node'[maker].side = node[maker].side
                     /\ node'[maker].price = node[maker].price
  <2>1. CASE left = 0
    BY <1>1, <1>5, <2>1 DEF Without, Restrict
  <2>2. CASE left # 0
    <3>1. node[maker] \in [side : Side, price : 1..MaxPrice, qty : Nat]
      BY <1>4, <1>5, NodeFacts
    <3>2. node = [x \in DOMAIN node |-> node[x]]
      BY <1>4 DEF Book, CoreTypes
    <3>3. QED
      BY <1>1, <1>5, <2>2, <3>1, <3>2
  <2>3. QED
    BY <2>1, <2>2
<1>8. PICK new : new = Then'.order
  OBVIOUS
<1>9. /\ \A x \in Id \ {maker} : new[x] = own[x]
      /\ new[maker].side = own[maker].side /\ new[maker].price = own[maker].price
      /\ new[maker].quantity = left /\ (left # 0 => new[maker].status = "partial")
  <2>1. own[maker] \in Order
    BY <1>3, <1>5
  <2>2. QED
    BY <1>3, <1>5, <1>8, <2>1 DEF Order
<1>10. CopiesFollow'
  <2>1. Then'.orders = DOMAIN node'
    BY <1>3, <1>6, <1>7
  <2>2. ASSUME NEW x \in DOMAIN node'
        PROVE  CopyOf(new[x], node'[x])
    <3>1. CASE x = maker
      BY <1>3, <1>5, <1>7, <1>9, <2>2, <3>1 DEF CopyOf
    <3>2. CASE x # maker
      BY <1>6, <1>7, <1>9, <2>2, <3>2
    <3>3. QED
      BY <3>1, <3>2
  <2>3. QED
    BY <1>8, <2>1, <2>2 DEF CopiesFollow
<1>11. /\ call'.raw = Append(call.raw, [maker |-> maker, price |-> p,
                                        quantity |-> traded, left |-> left])
       /\ call'.remaining = call.remaining - traded /\ call'.kind = call.kind
       /\ call'.taker = call.taker /\ call'.side = call.side /\ call'.limit = call.limit
  BY <1>1, <1>4 DEF Call
<1>12. FillsOnce'
  <2>1. SUFFICES ASSUME NEW i \in DOMAIN call'.raw, call'.raw[i].maker \in DOMAIN node'
                 PROVE  call'.remaining = 0
    BY DEF FillsOnce
  <2>2. call.remaining # 0 /\ DOMAIN node' \subseteq DOMAIN node
    BY <1>4, <1>1, <1>7 DEF CanMatch
  <2>3. DOMAIN call'.raw = 1..(Len(call.raw) + 1) /\ DOMAIN call.raw = 1..Len(call.raw)
        /\ Len(call.raw) \in Nat
    BY <1>4, <1>11
  <2>4. CASE i = Len(call.raw) + 1
    <3>1. call'.raw[i].maker = maker
      BY <1>4, <1>11, <2>4
    <3>2. left # 0
      BY <1>7, <2>1, <3>1
    <3>3. QED
      BY <1>4, <1>5, <1>11, <3>2
  <2>5. CASE i # Len(call.raw) + 1
    <3>1. i \in DOMAIN call.raw /\ call'.raw[i] = call.raw[i]
      BY <1>4, <1>11, <2>1, <2>3, <2>5
    <3>2. QED
      BY <1>4, <2>1, <2>2, <3>1 DEF FillsOnce
  <2>6. QED
    BY <2>4, <2>5
<1>13. FrameFollows'
  BY <1>1, <1>4, <1>11 DEF FrameFollows, Running
<1>14. QED
  BY <1>1, <1>4, <1>10, <1>12, <1>13 DEF Told

\* Every step keeps what the caller is told right.
LEMMA NextVInv ==
  ASSUME IInv, VInv, [Next]_vars
  PROVE  VInv'
<1>0. Book /\ Book' /\ TotalsAdd /\ Told /\ ArrivalsFollow
  BY NextCorrect DEF IInv, VInv
<1>1. ASSUME UNCHANGED <<node, level, arrivals>>
      PROVE  TotalsAdd' /\ ArrivalsFollow'
  <2>1. Lots' = Lots
    BY <1>1 DEF Lots
  <2>2. TotalsAdd'
    BY <1>0, <1>1, <2>1 DEF TotalsAdd
  <2>3. LevelsOrdered'
    BY <1>0, <1>1 DEF LevelsOrdered, ArrivalsFollow
  <2>4. QED
    BY <1>0, <1>1, <2>2, <2>3 DEF ArrivalsFollow
<1>2. ASSUME NEW id \in Id, NEW side \in Side, NEW price \in 0..MaxPrice,
             NEW quantity \in 0..MaxQuantity, AddOrder(id, side, price, quantity)
      PROVE  VInv'
  <2>1. UNCHANGED <<node, level, arrivals>>
    BY <1>2 DEF AddOrder, core
  <2>2. QED
    BY <1>0, <1>1, <1>2, <2>1, AddOrderTold DEF VInv
<1>3. ASSUME NEW side \in Side, NEW quantity \in 0..MaxQuantity, MatchMarketOrder(side, quantity)
      PROVE  VInv'
  <2>1. UNCHANGED <<node, level, arrivals>>
    BY <1>3 DEF MatchMarketOrder, core
  <2>2. QED
    BY <1>0, <1>1, <1>3, <2>1, MatchMarketOrderTold DEF VInv
<1>4. CASE Consume
  BY <1>0, <1>4, ConsumeLevels, ConsumeTold DEF VInv
<1>5. CASE ReturnLimit
  <2>1. TotalsAdd' /\ ArrivalsFollow'
    <3>1. PICK id, s, p, qty : id = call.taker /\ s = call.side /\ p = call.limit
                               /\ qty = call.remaining
      OBVIOUS
    <3>2. /\ id \in Id /\ id \notin DOMAIN node /\ s \in Side /\ p \in 1..MaxPrice /\ qty \in Nat
      BY <1>5, <3>1 DEF ReturnLimit, IInv, CallOK, Call
    <3>3. CASE qty = 0
      BY <1>1, <1>5, <3>1, <3>3 DEF ReturnLimit, core
    <3>4. CASE qty # 0
      <4>1. Rest(id, s, p, qty)
        BY <1>5, <3>1, <3>4 DEF ReturnLimit
      <4>2. QED
        BY <1>0, <3>2, <4>1, RestLevels
    <3>5. QED
      BY <3>3, <3>4
  <2>2. QED
    BY <1>0, <1>5, <2>1, ReturnLimitTold DEF VInv
<1>6. CASE ReturnMarket
  <2>1. UNCHANGED <<node, level, arrivals>>
    BY <1>6 DEF ReturnMarket, core
  <2>2. QED
    BY <1>0, <1>1, <1>6, <2>1, ReturnMarketTold DEF VInv
<1>7. ASSUME NEW id \in Id, CancelOrder(id)
      PROVE  VInv'
  BY <1>0, <1>7, CancelLevels, CancelOrderTold DEF VInv
<1>8. CASE UNCHANGED vars
  <2>1. order' = order /\ orders' = orders /\ node' = node /\ level' = level /\ call' = call
        /\ arrivals' = arrivals
    BY <1>8 DEF vars, core
  <2>2. Then' = Then
    BY <2>1 DEF Then
  <2>3. CopiesFollow' /\ FillsOnce' /\ FrameFollows'
    BY <1>0, <2>1, <2>2 DEF Told, CopiesFollow, FillsOnce, FrameFollows, Running
  <2>4. Told'
    BY <1>0, <2>1, <2>3 DEF Told
  <2>5. QED
    BY <1>1, <2>1, <2>4 DEF VInv
<1>9. QED
  BY <1>2, <1>3, <1>4, <1>5, <1>6, <1>7, <1>8 DEF Next

\* Before the first call.
LEMMA InitVInv == Init => VInv
<1> SUFFICES ASSUME Init PROVE VInv
  OBVIOUS
<1>1. /\ order = [id \in Id |-> Unsent] /\ orders = {} /\ DOMAIN node = {}
      /\ call = IdleCall /\ arrivals = <<>> /\ \A s \in Side : DOMAIN level[s] = {}
  BY DEF Init
<1>2. order \in [Id -> Order]
  <2>1. Unsent \in Order
    BY NativeAssumption DEF Unsent, Order, Side
  <2>2. QED
    BY <1>1, <2>1
<1>3. call.raw = <<>>
  BY <1>1 DEF IdleCall
<1>4. CopiesFollow
  BY <1>1, <1>2, <1>3, NothingPending DEF CopiesFollow
<1>5. FillsOnce /\ FrameFollows
  BY <1>1, <1>3 DEF FillsOnce, FrameFollows, IdleCall
<1>6. TotalsAdd /\ LevelsOrdered
  BY <1>1 DEF TotalsAdd, LevelsOrdered
<1>7. arrivals \in Seq(Id) /\ IsInjective(arrivals) /\ Range(arrivals) = DOMAIN node
  BY <1>1, EmptySeq DEF IsInjective, Range
<1>8. QED
  BY <1>1, <1>2, <1>4, <1>5, <1>6, <1>7 DEF VInv, Told, ArrivalsFollow

\* Both invariants hold in every state.
THEOREM NativeInvariant == Spec => [](IInv /\ VInv)
<1>1. Init => IInv /\ VInv
  BY InitCorrect, InitVInv
<1>2. IInv /\ VInv /\ [Next]_vars => (IInv /\ VInv)'
  BY NextCorrect, NextVInv
<1>3. QED
  BY <1>1, <1>2, PTL DEF Spec

-----------------------------------------------------------------------------
(***************************************************************************)
(* The native book implements the linear-scan book of module ReferenceBook. *)
(***************************************************************************)

\* A side is the side it is kept under.
Named == \A s \in Side : sides[s].side = s

\* Levels that come and go leave a side what it is.
LEMMA NamedLevel ==
  ASSUME Book, Named, NEW s \in Side, NEW p \in Prices(sides[s]), NEW total, NEW list,
         SetLevel(s, p, total, list)
  PROVE  Named'
<1>1. /\ sides \in [Side -> SideUpTo(MaxPrice)] /\ WellFormed(sides[s]) /\ MaxPrice \in Nat
      /\ sides[s] \in SideUpTo(MaxPrice)
  BY NativeAssumption DEF Book, CoreTypes, SidesWellFormed
<1>2. Erase(sides[s], p).side = sides[s].side
  BY <1>1, EraseCorrect
<1>3. CASE list = <<>>
  <2>1. sides' = [sides EXCEPT ![s] = Erase(@, p)]
    BY <1>3 DEF SetLevel
  <2>2. QED
    BY <1>1, <1>2, <2>1 DEF Named
<1>4. CASE list # <<>>
  BY <1>4 DEF SetLevel, Named
<1>5. QED
  BY <1>3, <1>4

\* So does an order that comes to rest.
LEMMA NamedRest ==
  ASSUME Book, Named, NEW id, NEW s \in Side, NEW p \in 1..MaxPrice, NEW qty, Rest(id, s, p, qty)
  PROVE  Named'
<1>1. /\ sides \in [Side -> SideUpTo(MaxPrice)] /\ WellFormed(sides[s]) /\ MaxPrice \in Nat
      /\ sides[s] \in SideUpTo(MaxPrice) /\ Consistent(sides[s])
  BY NativeAssumption DEF Book, CoreTypes, SidesWellFormed, WellFormed
<1>2. CASE Find(sides[s], p) = NoLevel
  <2>1. sides' = [sides EXCEPT ![s] = Insert(@, p)]
    BY <1>2 DEF Rest
  <2>2. p \notin Prices(sides[s])
    <3>1. Find(sides[s], p) = IF p \in Prices(sides[s]) THEN p ELSE NoLevel
      BY <1>1, FindCorrect
    <3>2. p # NoLevel
      BY DEF NoLevel
    <3>3. QED
      BY <1>2, <3>1, <3>2
  <2>3. Insert(sides[s], p).side = sides[s].side
    BY <1>1, <2>2, InsertCorrect
  <2>4. QED
    BY <1>1, <2>1, <2>3 DEF Named
<1>3. CASE Find(sides[s], p) # NoLevel
  BY <1>3 DEF Rest, Named
<1>4. QED
  BY <1>2, <1>3

\* So no step changes it.
LEMMA NextNamed ==
  ASSUME IInv, Named, [Next]_vars
  PROVE  Named'
<1>0. Book
  BY DEF IInv
<1>1. ASSUME UNCHANGED sides
      PROVE  Named'
  BY <1>1 DEF Named
<1>2. ASSUME NEW id \in Id, NEW side \in Side, NEW price \in 0..MaxPrice,
             NEW quantity \in 0..MaxQuantity, AddOrder(id, side, price, quantity)
      PROVE  Named'
  BY <1>1, <1>2 DEF AddOrder, core
<1>3. ASSUME NEW side \in Side, NEW quantity \in 0..MaxQuantity, MatchMarketOrder(side, quantity)
      PROVE  Named'
  BY <1>1, <1>3 DEF MatchMarketOrder, core
<1>4. CASE Consume
  <2>a. PICK s, p, maker, traded, left, list : Filling(s, p, maker, traded, left, list)
    BY <1>4, FillFacts
  <2>1. /\ FillOf(s, p, maker, traded, left, list)
        /\ SetLevel(s, p, level[s][p].total - traded, list)
    BY <2>a DEF Filling
  <2>2. PICK total : total = level[s][p].total - traded
    OBVIOUS
  <2>3. s \in Side /\ p \in Prices(sides[s]) /\ SetLevel(s, p, total, list)
    BY <1>0, <2>1, <2>2 DEF FillOf, Book, CoreCoherent
  <2>4. QED
    BY <1>0, <2>3, NamedLevel
<1>5. CASE ReturnLimit
  <2>1. CASE call.remaining = 0
    BY <1>1, <1>5, <2>1 DEF ReturnLimit, core
  <2>2. CASE call.remaining # 0
    <3>1. PICK id, s, p, qty : id = call.taker /\ s = call.side /\ p = call.limit
                               /\ qty = call.remaining
      OBVIOUS
    <3>2. Rest(id, s, p, qty) /\ s \in Side /\ p \in 1..MaxPrice
      BY <1>5, <2>2, <3>1 DEF ReturnLimit, IInv, CallOK, Call
    <3>3. QED
      BY <1>0, <3>2, NamedRest
  <2>3. QED
    BY <2>1, <2>2
<1>6. CASE ReturnMarket
  BY <1>1, <1>6 DEF ReturnMarket, core
<1>7. ASSUME NEW id \in Id, CancelOrder(id)
      PROVE  Named'
  <2>1. PICK s, p, total, list : s = node[id].side /\ p = node[id].price
                                 /\ SetLevel(s, p, total, list)
    BY <1>7 DEF CancelOrder
  <2>2. s \in Side /\ p \in Prices(sides[s])
    BY <1>0, <1>7, <2>1, NodeFacts DEF CancelOrder
  <2>3. QED
    BY <1>0, <2>1, <2>2, NamedLevel
<1>8. CASE UNCHANGED vars
  BY <1>1, <1>8 DEF vars, core
<1>9. QED
  BY <1>2, <1>3, <1>4, <1>5, <1>6, <1>7, <1>8 DEF Next

\* The operators on lists are the same in the instantiated module.
LEMMA SameLists ==
  ASSUME NEW s, NEW x
  PROVE  /\ Ref!Others(s, x) = Others(s, x)
         /\ Ref!Contains(s, x) <=> x \in Range(s)
<1>1. Ref!Others(s, x) = Others(s, x)
  BY DEF Ref!Others, Others, Ref!FoldLeft, FoldLeft, Ref!MapThenFoldSet, MapThenFoldSet, Ref!Max, Max
<1>2. Ref!Contains(s, x) <=> x \in Range(s)
  BY DEF Ref!Contains, Range
<1>3. QED
  BY <1>1, <1>2

\* Removing a resting order from the list of arrivals is leaving it out.
LEMMA OutOfArrivals ==
  ASSUME ArrivalsFollow, NEW id \in DOMAIN node
  PROVE  RemoveFirst(arrivals, id) = Ref!Others(arrivals, id) /\ Ref!Contains(arrivals, id)
<1>1. arrivals \in Seq(Id) /\ IsInjective(arrivals) /\ id \in Range(arrivals)
  BY DEF ArrivalsFollow
<1>2. PICK k \in 1..Len(arrivals) : arrivals[k] = id
  BY <1>1 DEF Range
<1>3. Others(arrivals, arrivals[k]) = RemoveFirst(arrivals, arrivals[k])
  BY <1>1, OthersIsRemoveFirst
<1>4. QED
  BY <1>1, <1>2, <1>3, SameLists

\* The orders of a side in the list are those of its levels.
LEMMA PositionsOfSide ==
  ASSUME IInv, VInv, NEW s \in Side
  PROVE  /\ Ref!Positions(s) = {i \in DOMAIN arrivals : node[arrivals[i]].side = s}
         /\ \A i \in Ref!Positions(s) :
              /\ i \in DOMAIN arrivals /\ arrivals[i] \in DOMAIN node
              /\ node[arrivals[i]].side = s
              /\ node[arrivals[i]].price \in Prices(sides[s])
              /\ OrderThen[arrivals[i]].price = node[arrivals[i]].price
         /\ Ref!Positions(s) = {} <=> Prices(sides[s]) = {}
<1>0. Book /\ CopiesFollow /\ Range(arrivals) = DOMAIN node /\ OrderThen = Then.order
  BY ThenIs DEF IInv, VInv, Told, ArrivalsFollow
<1>1. \A i \in DOMAIN arrivals : arrivals[i] \in DOMAIN node
  BY <1>0 DEF Range
<1>2. \A id \in DOMAIN node : OrderThen[id].side = node[id].side /\ OrderThen[id].price = node[id].price
  BY <1>0 DEF CopiesFollow, CopyOf
<1>3. Ref!Positions(s) = {i \in DOMAIN arrivals : node[arrivals[i]].side = s}
  BY <1>1, <1>2 DEF Ref!Positions
<1>4. \A i \in Ref!Positions(s) :
        /\ i \in DOMAIN arrivals /\ arrivals[i] \in DOMAIN node
        /\ node[arrivals[i]].side = s
        /\ node[arrivals[i]].price \in Prices(sides[s])
        /\ OrderThen[arrivals[i]].price = node[arrivals[i]].price
  BY <1>0, <1>1, <1>2, <1>3, NodeFacts
<1>5. ASSUME NEW p \in Prices(sides[s])
      PROVE  Ref!Positions(s) # {}
  <2>1. PICK l : l = level[s][p].list
    OBVIOUS
  <2>2. l \in Seq(Id) /\ l # <<>> /\ Range(l) = At(s, p)
    BY <1>0, <2>1, LevelFacts
  <2>3. PICK id : id \in Range(l)
    BY <2>2 DEF Range
  <2>4. id \in DOMAIN node /\ node[id].side = s
    BY <2>2, <2>3 DEF At
  <2>5. PICK i \in DOMAIN arrivals : arrivals[i] = id
    BY <1>0, <2>4 DEF Range
  <2>6. QED
    BY <1>3, <2>4, <2>5
<1>6. QED
  BY <1>3, <1>4, <1>5

\* The two ways to compare prices.
LEMMA SameBetter ==
  ASSUME Named, NEW s \in Side, NEW p, NEW q
  PROVE  Ref!Better(s, p, q) <=> Better(sides[s], p, q)
  BY DEF Named, Ref!Better, Better

\* The first order of the best level is the one the scan over all resting orders finds.
LEMMA ScanFindsHead ==
  ASSUME IInv, VInv, Named, NEW s \in Side, NEW best, best = sides[s].best, best # NoLevel
  PROVE  /\ best \in Prices(sides[s])
         /\ Ref!Best(s) = Head(level[s][best].list)
         /\ Ref!Best(s) \in DOMAIN node /\ node[Ref!Best(s)].side = s
         /\ node[Ref!Best(s)].price = best
<1> DEFINE l == level[s][best].list
           m == Head(l)
           top == {i \in Ref!Positions(s) : \A j \in Ref!Positions(s) :
                     ~Ref!Better(s, OrderThen[arrivals[j]].price, OrderThen[arrivals[i]].price)}
<1>0. /\ Book /\ arrivals \in Seq(Id) /\ IsInjective(arrivals) /\ Range(arrivals) = DOMAIN node
      /\ LevelsOrdered /\ CopiesFollow /\ OrderThen = Then.order
  BY ThenIs DEF IInv, VInv, Told, ArrivalsFollow
<1>1. /\ best \in Prices(sides[s]) /\ \A q \in Prices(sides[s]) \ {best} : Better(sides[s], best, q)
      /\ sides[s] \in SideUpTo(MaxPrice) /\ MaxPrice \in Nat /\ Prices(sides[s]) \subseteq 1..MaxPrice
  <2>1. /\ BestIsBest(sides[s]) /\ Consistent(sides[s]) /\ sides[s] \in SideUpTo(MaxPrice)
        /\ MaxPrice \in Nat
    BY <1>0, NativeAssumption DEF Book, SidesWellFormed, WellFormed, CoreTypes
  <2>2. Prices(sides[s]) \subseteq 1..MaxPrice
    BY <2>1, PricesFacts
  <2>3. QED
    BY <2>1, <2>2 DEF BestIsBest, IsBest
<1>2. /\ best \in DOMAIN level[s] /\ l \in Seq(Id) /\ l # <<>> /\ Range(l) = At(s, best)
      /\ OrderedAs(l, arrivals)
  BY <1>0, <1>1, LevelFacts DEF LevelsOrdered
<1> HIDE DEF l
<1>3. 1 \in DOMAIN l /\ l[1] = m
  BY <1>2
<1>4. m \in DOMAIN node /\ node[m].side = s /\ node[m].price = best
  BY <1>2, <1>3 DEF Range, At
<1> HIDE DEF m
<1>5. PICK p \in DOMAIN arrivals : arrivals[p] = m
  BY <1>0, <1>4 DEF Range
<1>6. p \in Ref!Positions(s)
  BY <1>4, <1>5, PositionsOfSide
<1>7. OrderThen[m].price = best
  BY <1>4, <1>5, <1>6, PositionsOfSide
<1>8. ASSUME NEW i \in Ref!Positions(s)
      PROVE  /\ ~Ref!Better(s, OrderThen[arrivals[i]].price, best)
             /\ ~Ref!Better(s, best, OrderThen[arrivals[i]].price) => p <= i
  <2>1. PICK o, q : o = arrivals[i] /\ q = node[o].price
    OBVIOUS
  <2>2. /\ i \in DOMAIN arrivals /\ o \in DOMAIN node /\ node[o].side = s
        /\ q \in Prices(sides[s]) /\ OrderThen[o].price = q
    BY <2>1, PositionsOfSide
  <2>3. q \in Int /\ best \in Int
    BY <1>1, <2>2
  <2>4. ~Better(sides[s], q, best)
    <3>1. \A x, y, z \in Int : Better(sides[s], x, y) /\ Better(sides[s], y, z) => Better(sides[s], x, z)
      BY <1>1, BetterOrder
    <3>2. \A x \in Int : ~Better(sides[s], x, x)
      BY <1>1, BetterOrder
    <3>3. CASE q = best
      BY <2>3, <3>2, <3>3
    <3>4. CASE q # best
      BY <1>1, <2>2, <2>3, <3>1, <3>2, <3>4
    <3>5. QED
      BY <3>3, <3>4
  <2>5. ASSUME ~Better(sides[s], best, q)
        PROVE  p <= i
    <3>1. q = best
      BY <1>1, <2>2, <2>5
    <3>2. o \in Range(l)
      BY <1>2, <2>2, <2>1, <3>1 DEF At
    <3>3. PICK j \in DOMAIN l : l[j] = o
      BY <3>2 DEF Range
    <3>4. CASE j = 1
      <4>1. arrivals[i] = arrivals[p]
        BY <1>3, <1>5, <2>1, <3>3, <3>4
      <4>2. i = p
        BY <1>0, <2>2, <4>1 DEF IsInjective
      <4>3. QED
        BY <1>0, <4>2
    <3>5. CASE j # 1
      <4>1. 1 < j
        BY <1>2, <3>3, <3>5
      <4>2. Precedes(m, o, arrivals)
        BY <1>2, <1>3, <3>3, <4>1 DEF OrderedAs
      <4>3. PICK a, b \in DOMAIN arrivals : a < b /\ arrivals[a] = m /\ arrivals[b] = o
        BY <4>2 DEF Precedes
      <4>4. a = p /\ b = i
        BY <1>0, <1>5, <2>1, <2>2, <4>3 DEF IsInjective
      <4>5. QED
        BY <1>0, <4>3, <4>4
    <3>6. QED
      BY <3>4, <3>5
  <2>6. QED
    BY <2>1, <2>2, <2>4, <2>5, SameBetter
<1>9. p \in top
  BY <1>5, <1>6, <1>7, <1>8
<1>10. \A i \in top : p <= i
  BY <1>5, <1>6, <1>7, <1>8
<1>11. \A i \in top : i \in Int
  BY <1>0, PositionsOfSide
<1>12. Ref!Best(s) = arrivals[Ref!Min(top)]
  BY DEF Ref!Best
<1> HIDE DEF top
<1>13. Ref!Min(top) = p
  <2>1. \A i \in top : (\A j \in top : i <= j) => i = p
    BY <1>9, <1>10, <1>11
  <2>2. QED
    BY <1>9, <1>10, <2>1 DEF Ref!Min
<1>14. Ref!Best(s) = m
  BY <1>5, <1>12, <1>13
<1>15. QED
  BY <1>1, <1>4, <1>14 DEF m, l

\* The two loops go on under the same condition.
LEMMA SameCondition ==
  ASSUME IInv, VInv, Named, Running
  PROVE  Ref!CanMatch <=> CanMatch
<1>1. PICK opp : opp = Opposite(call.side)
  OBVIOUS
<1>2. PICK best : best = sides[opp].best
  OBVIOUS
<1>3. opp \in Side /\ Ref!Opposite(RefCall.side) = opp /\ RefCall.remaining = call.remaining
  BY <1>1 DEF Opposite, Ref!Opposite, Side, RefCall
<1>4. best = NoLevel <=> Prices(sides[opp]) = {}
  <2>1. /\ BestIsBest(sides[opp]) /\ Consistent(sides[opp]) /\ sides[opp] \in SideUpTo(MaxPrice)
        /\ MaxPrice \in Nat
    BY <1>3, NativeAssumption DEF IInv, Book, SidesWellFormed, WellFormed, CoreTypes
  <2>2. Prices(sides[opp]) \subseteq 1..MaxPrice
    BY <2>1, PricesFacts
  <2>3. QED
    BY <1>2, <2>1, <2>2 DEF BestIsBest, IsBest, NoLevel
<1>5. Ref!Positions(opp) = {} <=> best = NoLevel
  BY <1>3, <1>4, PositionsOfSide
<1>6. ASSUME best # NoLevel
      PROVE  OrderThen[Ref!Best(opp)].price = best
  <2>1. Ref!Best(opp) \in DOMAIN node /\ node[Ref!Best(opp)].price = best
    BY <1>2, <1>3, <1>6, ScanFindsHead
  <2>2. CopyOf(OrderThen[Ref!Best(opp)], node[Ref!Best(opp)])
    BY <2>1, ThenIs DEF VInv, Told, CopiesFollow
  <2>3. QED
    BY <2>1, <2>2 DEF CopyOf
<1>7. ASSUME NEW price
      PROVE  Ref!WithinLimit(price) <=> WithinLimit(price)
  BY DEF Ref!WithinLimit, WithinLimit, RefCall
<1>8. CanMatch <=> call.remaining > 0 /\ best # NoLevel /\ WithinLimit(best)
  BY <1>1, <1>2 DEF CanMatch
<1>9. Ref!CanMatch <=> /\ call.remaining > 0 /\ Ref!Positions(opp) # {}
                       /\ Ref!WithinLimit(OrderThen[Ref!Best(opp)].price)
  BY <1>3 DEF Ref!CanMatch
<1>10. QED
  BY <1>5, <1>6, <1>7, <1>8, <1>9

\* A fill more, in both lists of fills.
LEMMA FillsAppend ==
  ASSUME call.raw \in Seq(Fill), NEW f, call'.raw = Append(call.raw, f),
         call'.taker = call.taker, call'.side = call.side
  PROVE  Fills' = Append(Fills, [order_id |-> call.taker, price |-> f.price,
                                 quantity |-> f.quantity, side |-> call.side])
<1> DEFINE e(g) == [order_id |-> call.taker, price |-> g.price,
                    quantity |-> g.quantity, side |-> call.side]
<1>1. PICK raw, n : raw = call.raw /\ n = Len(raw)
  OBVIOUS
<1>2. /\ n \in Nat /\ DOMAIN raw = 1..n /\ DOMAIN Append(raw, f) = 1..(n + 1)
      /\ Append(raw, f)[n + 1] = f /\ \A i \in 1..n : Append(raw, f)[i] = raw[i]
  BY <1>1
<1>3. Fills = [i \in 1..n |-> e(raw[i])]
  BY <1>1, <1>2 DEF Fills
<1>4. Fills' = [i \in 1..(n + 1) |-> e(Append(raw, f)[i])]
  BY <1>1, <1>2 DEF Fills
<1> HIDE DEF e
<1>5. PICK T : T = {e(raw[i]) : i \in 1..n} \union {e(f)}
  OBVIOUS
<1>6. Fills \in Seq(T) /\ Len(Fills) = n /\ e(f) \in T
  <2>1. Fills \in [1..n -> T]
    BY <1>3, <1>5
  <2>2. QED
    BY <1>2, <1>5, <2>1
<1>7. /\ DOMAIN Append(Fills, e(f)) = 1..(n + 1) /\ Append(Fills, e(f))[n + 1] = e(f)
      /\ \A i \in 1..n : Append(Fills, e(f))[i] = Fills[i]
      /\ Append(Fills, e(f)) \in Seq(T)
  BY <1>6
<1>8. Append(Fills, e(f)) = [i \in 1..(n + 1) |-> Append(Fills, e(f))[i]]
  <2>1. PICK a : a = Append(Fills, e(f))
    OBVIOUS
  <2>2. a \in Seq(T) /\ DOMAIN a = 1..(n + 1)
    BY <1>7, <2>1
  <2>3. a = [i \in DOMAIN a |-> a[i]]
    BY <2>2
  <2>4. QED
    BY <2>1, <2>2, <2>3
<1>9. \A i \in 1..(n + 1) : Append(Fills, e(f))[i] = e(Append(raw, f)[i])
  <2>1. SUFFICES ASSUME NEW i \in 1..(n + 1)
                 PROVE  Append(Fills, e(f))[i] = e(Append(raw, f)[i])
    OBVIOUS
  <2>2. CASE i = n + 1
    BY <1>2, <1>7, <2>2
  <2>3. CASE i # n + 1
    <3>1. i \in 1..n
      BY <1>2, <2>3
    <3>2. QED
      BY <1>2, <1>3, <1>7, <3>1
  <2>4. QED
    BY <2>2, <2>3
<1>10. Fills' = Append(Fills, e(f))
  BY <1>4, <1>8, <1>9
<1>11. QED
  BY <1>10 DEF e

\* An iteration of the loop: the same maker, the same fill, the same order left out.
LEMMA ConsumeRefines ==
  ASSUME IInv, VInv, Named, Consume
  PROVE  Ref!Consume
<1>a. PICK s, p, maker, traded, left, list : Filling(s, p, maker, traded, left, list)
  BY FillFacts
<1>1. /\ FillOf(s, p, maker, traded, left, list)
      /\ node' = IF left = 0 THEN Without(node, maker) ELSE [node EXCEPT ![maker].qty = left]
      /\ arrivals' = IF left = 0 THEN RemoveFirst(arrivals, maker) ELSE arrivals
      /\ call' = [call EXCEPT !.remaining = @ - traded,
                              !.raw = Append(@, [maker |-> maker, price |-> p,
                                                 quantity |-> traded, left |-> left])]
      /\ UNCHANGED <<order, orders>> /\ CanMatch /\ Running
  BY <1>a DEF Filling
<1>2. /\ Told /\ ArrivalsFollow /\ call \in Call /\ call.raw \in Seq(Fill)
  BY DEF IInv, VInv, CallOK, Call
<1>3. /\ Then'.order = [Then.order EXCEPT ![maker].quantity = left,
                                          ![maker].status = IF left = 0 THEN "filled"
                                                            ELSE "partial"]
      /\ CopyOf(Then.order[maker], node[maker])
  <2>1. /\ FillOf(s, p, maker, traded, left, list) /\ CanMatch
        /\ call' = [call EXCEPT !.remaining = @ - traded,
                                !.raw = Append(@, [maker |-> maker, price |-> p,
                                                   quantity |-> traded, left |-> left])]
        /\ UNCHANGED <<order, orders>>
    BY <1>1
  <2>2. /\ Then.order \in [Id -> Order]
        /\ Then'.order = [Then.order EXCEPT ![maker].quantity = left,
                                            ![maker].status = IF left = 0 THEN "filled"
                                                              ELSE "partial"]
        /\ Then'.orders = IF left = 0 THEN Then.orders \ {maker} ELSE Then.orders
        /\ CopyOf(Then.order[maker], node[maker])
    BY <1>2, <2>1, ConsumeThen
  <2>3. QED
    BY <2>2
<1>4. OrderThen = Then.order /\ OrderThen' = Then'.order
  BY ThenIs DEF OrderThen, Then, ApplyRaw, Applied, Hits, Updated
<1>5. /\ s \in Side /\ s = Opposite(call.side) /\ p = sides[s].best /\ maker = Head(level[s][p].list)
      /\ maker \in DOMAIN node /\ traded = Traded(node[maker].qty) /\ node[maker].price = p
      /\ left = node[maker].qty - traded
  BY <1>1 DEF FillOf
<1>6. p # NoLevel
  BY <1>1, <1>5 DEF CanMatch
<1>7. Ref!Best(s) = maker /\ Ref!Opposite(RefCall.side) = s
  BY <1>5, <1>6, ScanFindsHead DEF Opposite, Ref!Opposite, RefCall
<1>8. Ref!Running /\ Ref!CanMatch
  BY <1>1, SameCondition DEF Running, Ref!Running, RefCall
<1>9. RemoveFirst(arrivals, maker) = Ref!Others(arrivals, maker)
  BY <1>2, <1>5, OutOfArrivals
<1>10. /\ traded = Ref!Min({RefCall.remaining, OrderThen[maker].quantity})
       /\ left = OrderThen[maker].quantity - traded /\ OrderThen[maker].price = p
  <2>1. OrderThen[maker].quantity = node[maker].qty /\ OrderThen[maker].price = node[maker].price
    BY <1>3, <1>4 DEF CopyOf
  <2>2. traded = Min({call.remaining, OrderThen[maker].quantity}) /\ RefCall.remaining = call.remaining
    BY <1>5, <2>1 DEF Traded, RefCall
  <2>3. Ref!Min({call.remaining, OrderThen[maker].quantity})
        = Min({call.remaining, OrderThen[maker].quantity})
    BY DEF Ref!Min, Min
  <2>4. QED
    BY <1>5, <2>1, <2>2, <2>3
<1>11. PICK f : f = [maker |-> maker, price |-> p, quantity |-> traded, left |-> left]
  OBVIOUS
<1>12. /\ call'.raw = Append(call.raw, f) /\ call'.remaining = call.remaining - traded
       /\ call'.kind = call.kind /\ call'.taker = call.taker /\ call'.side = call.side
       /\ call'.limit = call.limit /\ call'.quantity = call.quantity
  BY <1>1, <1>2, <1>11 DEF Call
<1>13. Fills' = Append(Fills, [order_id |-> call.taker, price |-> p,
                               quantity |-> traded, side |-> call.side])
  BY <1>2, <1>11, <1>12, FillsAppend
<1>14. RefCall' = [RefCall EXCEPT !.remaining = @ - traded,
                                  !.fills = Append(@, [order_id |-> RefCall.taker, price |-> p,
                                                       quantity |-> traded, side |-> RefCall.side])]
  <2>1. RefCall' = [kind |-> call.kind, side |-> call.side, taker |-> call.taker,
                    limit |-> call.limit, quantity |-> call.quantity,
                    remaining |-> call.remaining - traded, fills |-> Fills']
    BY <1>12 DEF RefCall
  <2>2. PICK x, a : /\ x = [order_id |-> call.taker, price |-> p,
                            quantity |-> traded, side |-> call.side]
                    /\ a = Append(Fills, x)
    OBVIOUS
  <2>3. RefCall.taker = call.taker /\ RefCall.side = call.side /\ RefCall.fills = Fills
    BY DEF RefCall
  <2>4. [RefCall EXCEPT !.remaining = @ - traded, !.fills = a]
        = [kind |-> call.kind, side |-> call.side, taker |-> call.taker,
           limit |-> call.limit, quantity |-> call.quantity,
           remaining |-> call.remaining - traded, fills |-> a]
    <3>1. PICK k, sd, t, l, q, r, fl :
            /\ k = call.kind /\ sd = call.side /\ t = call.taker /\ l = call.limit
            /\ q = call.quantity /\ r = call.remaining /\ fl = Fills
      OBVIOUS
    <3>2. RefCall = [kind |-> k, side |-> sd, taker |-> t, limit |-> l, quantity |-> q,
                     remaining |-> r, fills |-> fl]
      BY <3>1 DEF RefCall
    <3>3. PICK n : n = r - traded
      OBVIOUS
    <3>4. [RefCall EXCEPT !.remaining = n, !.fills = a]
          = [kind |-> k, side |-> sd, taker |-> t, limit |-> l, quantity |-> q,
             remaining |-> n, fills |-> a]
      <4>1. PICK frame : frame = RefCall
        OBVIOUS
      <4>2. frame = [kind |-> k, side |-> sd, taker |-> t, limit |-> l, quantity |-> q,
                     remaining |-> r, fills |-> fl]
        BY <3>2, <4>1
      <4>3. PICK first : first = [frame EXCEPT !.remaining = n]
        OBVIOUS
      <4>4. [frame EXCEPT !.remaining = n, !.fills = a] = [first EXCEPT !.fills = a]
        BY <4>3
      <4>5. [frame EXCEPT !.remaining = n]
            = [kind |-> k, side |-> sd, taker |-> t, limit |-> l, quantity |-> q,
               remaining |-> n, fills |-> fl]
        BY <4>2
      <4>6. first = [kind |-> k, side |-> sd, taker |-> t, limit |-> l, quantity |-> q,
                     remaining |-> n, fills |-> fl]
        BY <4>3, <4>5
      <4>7. [first EXCEPT !.fills = a]
            = [kind |-> k, side |-> sd, taker |-> t, limit |-> l, quantity |-> q,
               remaining |-> n, fills |-> a]
        BY <4>6
      <4>8. QED
        BY <4>1, <4>4, <4>7
    <3>5. RefCall.remaining - traded = n
      BY <3>2, <3>3
    <3>6. QED
      BY <3>1, <3>3, <3>4, <3>5
  <2>5. RefCall' = [RefCall EXCEPT !.remaining = @ - traded, !.fills = a]
    BY <1>13, <2>1, <2>2, <2>4
  <2>6. QED
    BY <2>2, <2>3, <2>5
<1>15. QED
  BY <1>1, <1>3, <1>4, <1>7, <1>8, <1>9, <1>10, <1>14 DEF Ref!Consume

\* A call without fills, seen from the linear-scan book.
LEMMA NoFillsYet ==
  ASSUME order \in [Id -> Order], call.raw = <<>>
  PROVE  OrderThen = order /\ Fills = <<>>
<1>1. OrderThen = order
  BY NothingPending, ThenIs
<1>2. Fills = <<>>
  BY DEF Fills
<1>3. QED
  BY <1>1, <1>2

\* The same after a step.
LEMMA NoFillsYetNext ==
  ASSUME order' \in [Id -> Order], call'.raw = <<>>
  PROVE  OrderThen' = order' /\ Fills' = <<>>
<1>1. OrderThen' = Then'.order
  BY DEF OrderThen, Then, ApplyRaw, Applied, Hits, Updated
<1>2. OrderThen' = order'
  BY <1>1, NothingPendingNext
<1>3. Fills' = <<>>
  BY DEF Fills
<1>4. QED
  BY <1>2, <1>3

\* The linear-scan book is idle, and starts calls, when this one does.
LEMMA SameFrames ==
  ASSUME NEW kind, NEW side, NEW taker, NEW limit, NEW quantity, order' \in [Id -> Order]
  PROVE  /\ Ref!Running <=> Running
         /\ call' = IdleCall => RefCall' = Ref!IdleCall
         /\ call' = NewCall(kind, side, taker, limit, quantity) =>
              RefCall' = Ref!NewCall(kind, side, taker, limit, quantity)
<1>1. Ref!Running <=> Running
  BY DEF Running, Ref!Running, RefCall
<1>2. ASSUME call' = IdleCall
      PROVE  RefCall' = Ref!IdleCall
  <2>1. Fills' = <<>>
    BY <1>2, NoFillsYetNext DEF IdleCall
  <2>2. QED
    BY <1>2, <2>1 DEF IdleCall, RefCall, Ref!IdleCall
<1>3. ASSUME call' = NewCall(kind, side, taker, limit, quantity)
      PROVE  RefCall' = Ref!NewCall(kind, side, taker, limit, quantity)
  <2>1. Fills' = <<>>
    BY <1>3, NoFillsYetNext DEF NewCall
  <2>2. QED
    BY <1>3, <2>1 DEF NewCall, RefCall, Ref!NewCall
<1>4. QED
  BY <1>1, <1>2, <1>3

\* The return of add_order: what is left rests last in both.
LEMMA ReturnLimitRefines ==
  ASSUME IInv, VInv, Named, ReturnLimit
  PROVE  Ref!ReturnLimit
<1>1. call.kind = "limit" /\ ~CanMatch /\ Running /\ call' = IdleCall
  BY DEF ReturnLimit, Running
<1>2. order' \in [Id -> Order] /\ OrderThen = Then.order /\ ApplyRaw(call.raw) = Then
  BY ReturnLimitTold, ThenIs DEF VInv, Told
<1>3. OrderThen' = order' /\ RefCall' = Ref!IdleCall
  BY <1>1, <1>2, NoFillsYetNext, SameFrames DEF IdleCall
<1>4. order' = [Then.order EXCEPT ![call.taker].quantity = call.remaining,
                                  ![call.taker].status = IF call.remaining = 0 THEN "filled"
                                                         ELSE IF call.remaining < call.quantity THEN "partial"
                                                         ELSE "open"]
  BY <1>2 DEF ReturnLimit
<1>5. arrivals' = IF call.remaining = 0 THEN arrivals ELSE Append(arrivals, call.taker)
  BY DEF ReturnLimit, Rest
<1>6. ~Ref!CanMatch
  BY <1>1, SameCondition
<1>7. /\ RefCall.kind = call.kind /\ RefCall.taker = call.taker
      /\ RefCall.remaining = call.remaining /\ RefCall.quantity = call.quantity
  BY DEF RefCall
<1>8. QED
  BY <1>1, <1>2, <1>3, <1>4, <1>5, <1>6, <1>7 DEF Ref!ReturnLimit

\* Every step of the native book is a step of the linear-scan book.
LEMMA NextRefines ==
  ASSUME IInv, VInv, Named, [Next]_vars
  PROVE  [Ref!Next]_(Ref!vars)
<1>0. Book /\ Told /\ ArrivalsFollow /\ order \in [Id -> Order] /\ order' \in [Id -> Order]
  BY NextVInv DEF IInv, VInv, Told
<1>1. ASSUME ~Running
      PROVE  OrderThen = order /\ Fills = <<>> /\ orders = DOMAIN node /\ orders = Range(arrivals)
  <2>1. call.raw = <<>>
    BY <1>0, <1>1 DEF Told, FrameFollows, IdleCall
  <2>2. OrderThen = order /\ Fills = <<>>
    BY <1>0, <2>1, NoFillsYet
  <2>3. orders = DOMAIN node
    BY <1>0, <2>1, NothingPending DEF Told, CopiesFollow
  <2>4. QED
    BY <1>0, <2>2, <2>3 DEF ArrivalsFollow
<1>2. ASSUME NEW id \in Id, NEW side \in Side, NEW price \in 0..MaxPrice,
             NEW quantity \in 0..MaxQuantity, AddOrder(id, side, price, quantity)
      PROVE  Ref!Next
  <2>1. /\ ~Running /\ id \notin orders /\ quantity > 0 /\ price > 0 /\ arrivals' = arrivals
        /\ order' = [order EXCEPT ![id] = [side |-> side, price |-> price,
                                           quantity |-> quantity, status |-> "open"]]
        /\ call' = NewCall("limit", side, id, price, quantity)
    BY <1>2 DEF AddOrder
  <2>2. RefCall' = Ref!NewCall("limit", side, id, price, quantity) /\ ~Ref!Running
    BY <1>0, <2>1, SameFrames
  <2>3. OrderThen' = order' /\ OrderThen = order
    BY <1>0, <1>1, <2>1, NoFillsYetNext DEF NewCall
  <2>4. ~Ref!Contains(arrivals, id)
    BY <1>1, <2>1, SameLists
  <2>5. Ref!AddOrder(id, side, price, quantity)
    BY <2>1, <2>2, <2>3, <2>4 DEF Ref!AddOrder
  <2>6. price \in 1..MaxPrice /\ quantity \in 1..MaxQuantity
    BY <2>1, NativeAssumption
  <2>7. QED
    BY <2>5, <2>6 DEF Ref!Next, Ref!Side, Side
<1>3. ASSUME NEW side \in Side, NEW quantity \in 0..MaxQuantity, MatchMarketOrder(side, quantity)
      PROVE  Ref!Next
  <2>1. /\ ~Running /\ quantity > 0 /\ call' = NewCall("market", side, NoOrder, 0, quantity)
        /\ order' = order /\ arrivals' = arrivals
    BY <1>3 DEF MatchMarketOrder
  <2>2. RefCall' = Ref!NewCall("market", side, NoOrder, 0, quantity) /\ ~Ref!Running
    BY <1>0, <2>1, SameFrames
  <2>3. OrderThen' = order' /\ OrderThen = order
    BY <1>0, <1>1, <2>1, NoFillsYetNext DEF NewCall
  <2>4. Ref!MatchMarketOrder(side, quantity)
    BY <2>1, <2>2, <2>3 DEF Ref!MatchMarketOrder
  <2>5. QED
    BY <2>4 DEF Ref!Next, Ref!Side, Side
<1>4. CASE Consume
  BY <1>4, ConsumeRefines DEF Ref!Next
<1>5. CASE ReturnLimit
  BY <1>5, ReturnLimitRefines DEF Ref!Next
<1>6. CASE ReturnMarket
  <2>1. /\ call.kind = "market" /\ ~CanMatch /\ Running /\ call' = IdleCall
        /\ order' = OrderThen /\ arrivals' = arrivals
    BY <1>6 DEF ReturnMarket, Running, OrderThen
  <2>2. OrderThen' = OrderThen /\ RefCall' = Ref!IdleCall
    BY <1>0, <2>1, NoFillsYetNext, SameFrames DEF IdleCall
  <2>3. ~Ref!CanMatch
    BY <2>1, SameCondition
  <2>4. RefCall.kind = call.kind
    BY DEF RefCall
  <2>5. Ref!ReturnMarket
    BY <2>1, <2>2, <2>3, <2>4 DEF Ref!ReturnMarket
  <2>6. QED
    BY <2>5 DEF Ref!Next
<1>7. ASSUME NEW id \in Id, CancelOrder(id)
      PROVE  Ref!Next
  <2>1. /\ ~Running /\ id \in DOMAIN node /\ call' = call
        /\ order' = IF id \in orders THEN [order EXCEPT ![id].status = "cancelled"] ELSE order
        /\ arrivals' = RemoveFirst(arrivals, id)
    BY <1>7 DEF CancelOrder
  <2>2. /\ call.raw = <<>> /\ call'.raw = <<>> /\ ~Ref!Running
    BY <1>0, <2>1, SameFrames DEF Told, FrameFollows, IdleCall
  <2>3. OrderThen = order /\ OrderThen' = order' /\ Fills = <<>> /\ Fills' = <<>>
    BY <1>0, <2>2, NoFillsYet, NoFillsYetNext
  <2>4. RefCall' = RefCall
    BY <2>1, <2>3 DEF RefCall
  <2>5. id \in orders /\ RemoveFirst(arrivals, id) = Ref!Others(arrivals, id)
        /\ Ref!Contains(arrivals, id)
    BY <1>0, <1>1, <2>1, OutOfArrivals
  <2>6. Ref!CancelOrder(id)
    BY <2>1, <2>2, <2>3, <2>4, <2>5 DEF Ref!CancelOrder
  <2>7. QED
    BY <2>6 DEF Ref!Next
<1>8. CASE UNCHANGED vars
  <2>1. order' = order /\ orders' = orders /\ call' = call /\ arrivals' = arrivals
    BY <1>8 DEF vars
  <2>2. OrderThen' = OrderThen
    BY <2>1 DEF OrderThen, ApplyRaw
  <2>3. RefCall' = RefCall
    BY <2>1 DEF RefCall, Fills
  <2>4. QED
    BY <2>1, <2>2, <2>3 DEF Ref!vars
<1>9. QED
  BY <1>2, <1>3, <1>4, <1>5, <1>6, <1>7, <1>8 DEF Next

\* The native book does, step by step, what the linear-scan book does: the same
\* fills, order objects and resting orders in the same order.
THEOREM ReferenceImplemented == Spec => ImplementsReference
<1>1. Init => Ref!Init
  <2>1. SUFFICES ASSUME Init PROVE Ref!Init
    OBVIOUS
  <2>2. order = [id \in Id |-> Unsent] /\ call = IdleCall /\ arrivals = <<>>
    BY <2>1 DEF Init
  <2>3. OrderThen = order /\ Fills = <<>>
    BY <2>1, <2>2, InitVInv, NoFillsYet DEF VInv, Told, IdleCall
  <2>4. QED
    BY <2>2, <2>3 DEF Ref!Init, Ref!Unsent, Unsent, Ref!IdleCall, IdleCall, RefCall
<1>2. Init => Named
  BY DEF Init, Named, NewSide
<1>3. Named /\ IInv /\ [Next]_vars => Named'
  BY NextNamed
<1>4. IInv /\ VInv /\ Named /\ [Next]_vars => [Ref!Next]_(Ref!vars)
  BY NextRefines
<1>5. QED
  BY <1>1, <1>2, <1>3, <1>4, NativeInvariant, PTL DEF Spec, ImplementsReference, Ref!Spec

\* What the book answers of itself follows from the invariants.
LEMMA ViewsFollow ==
  ASSUME IInv, VInv
  PROVE  ViewsAgree
<1>1. TotalsAdd
  BY DEF VInv
<1>2. CopiesAgree
  <2>1. SUFFICES ASSUME ~Running PROVE /\ orders = DOMAIN node
                                       /\ \A id \in DOMAIN node : CopyOf(order[id], node[id])
    BY DEF CopiesAgree, CopyOf
  <2>2. call.raw = <<>> /\ order \in [Id -> Order] /\ CopiesFollow
    BY <2>1 DEF VInv, Told, FrameFollows, IdleCall
  <2>3. Then.order = order /\ Then.orders = orders
    BY <2>2, NothingPending
  <2>4. QED
    BY <2>2, <2>3 DEF CopiesFollow
<1>3. DepthSorted
  <2>1. SUFFICES ASSUME NEW s \in Side, NEW m, m = Cardinality(DOMAIN level[s]) + 1, NEW shown, shown = Visit(sides[s], m)
                 PROVE  /\ Range(shown) = DOMAIN level[s]
                        /\ \A i, j \in DOMAIN shown : i < j => Better(sides[s], shown[i], shown[j])
    BY DEF DepthSorted
  <2>2. PICK sl, n : sl = sides[s] /\ n = MaxPrice
    OBVIOUS
  <2>3. n \in Nat /\ sl \in SideUpTo(n) /\ Consistent(sl) /\ DOMAIN level[s] = Prices(sl)
    BY <2>2, NativeAssumption DEF IInv, Book, CoreTypes, CoreCoherent, SidesWellFormed, WellFormed
  <2>4. IsFiniteSet(Prices(sl))
    <3>1. Prices(sl) \subseteq 1..n
      BY <2>3, PricesFacts
    <3>2. QED
      BY <2>3, <3>1, FS_Interval, FS_Subset
  <2>5. m \in Nat /\ Cardinality(Prices(sl)) < m
    BY <2>1, <2>3, <2>4, FS_CardinalityType
  <2>6. /\ Range(Visit(sl, m)) = Prices(sl)
        /\ \A i, j \in DOMAIN Visit(sl, m) : i < j => Better(sl, Visit(sl, m)[i], Visit(sl, m)[j])
    BY <2>3, <2>5, VisitCorrect
  <2>7. QED
    BY <2>1, <2>2, <2>3, <2>6
<1>4. QED
  BY <1>1, <1>2, <1>3 DEF ViewsAgree

\* Totals, depth and the Python objects always tell of the orders of the core.
THEOREM ViewsCorrect == Spec => []ViewsAgree
<1>1. IInv /\ VInv => ViewsAgree
  BY ViewsFollow
<1>2. QED
  BY <1>1, NativeInvariant, PTL

=============================================================================
