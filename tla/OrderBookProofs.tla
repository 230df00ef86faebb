--------------------------- MODULE OrderBookProofs ---------------------------
(***************************************************************************)
(* Proofs about module OrderBook: its safety properties hold and it        *)
(* implements the linear-scan book, for every set of ids and every bound   *)
(* on prices and quantities.                                               *)
(***************************************************************************)
EXTENDS OrderBook, ListLemmas

-----------------------------------------------------------------------------
(***************************************************************************)
(* Helpers.                                                                *)
(***************************************************************************)

\* Setting an entry of a partial map: dict[k] = v.
LEMMA PutFacts ==
  \A f, k, v :
    /\ DOMAIN Put(f, k, v) = DOMAIN f \union {k}
    /\ Put(f, k, v)[k] = v
    /\ \A x \in DOMAIN f \ {k} : Put(f, k, v)[x] = f[x]
BY DEF Put

\* Deleting an entry of a partial map: del dict[k].
LEMMA DropFacts ==
  \A f, k :
    /\ DOMAIN Drop(f, k) = DOMAIN f \ {k}
    /\ \A x \in DOMAIN f \ {k} : Drop(f, k)[x] = f[x]
BY DEF Drop, Restrict

\* peekitem(0): the best key of a side that is not empty is one of its keys and
\* no key of the side is smaller.
LEMMA BestKeyFacts ==
  ASSUME NEW T \in SUBSET Keys, T # {}
  PROVE  Min(T) \in T /\ \A k \in T : Min(T) <= k
<1> DEFINE U == {k + MaxPrice : k \in T}
<1>0. \A k \in T : k \in Int /\ k + MaxPrice \in Nat
  <2>1. T \subseteq -MaxPrice..MaxPrice
    BY Zenon DEF Keys
  <2>2. QED
    BY <2>1, PriceAssumption
<1>1. U \in SUBSET Nat /\ U # {}
  BY <1>0
<1>2. PICK m \in U : \A n \in U : m <= n
  BY <1>1, LeastNatural
<1>3. PICK k \in T : m = k + MaxPrice
  BY <1>2
<1>4. \A j \in T : k <= j
  <2>1. SUFFICES ASSUME NEW j \in T PROVE k <= j
    OBVIOUS
  <2>2. k + MaxPrice <= j + MaxPrice
    BY <1>2, <1>3
  <2>3. QED
    BY <1>0, <2>2, PriceAssumption
<1>5. QED
  BY <1>4 DEF Min

-----------------------------------------------------------------------------
(***************************************************************************)
(* Levels and index.                                                       *)
(***************************************************************************)

\* The types of the two structures, as the lemmas below need them.
Typed(t, x) ==
  /\ DOMAIN t = Side
  /\ \A s \in Side : \A k \in DOMAIN t[s] : t[s][k] \in Seq(Id)
  /\ DOMAIN x \subseteq Id
  /\ \A id \in DOMAIN x : x[id].side \in Side

\* Replacing one level: its key is there unless the level is empty, the other
\* levels and the other side do not move.
LEMMA SetLevelFacts ==
  ASSUME NEW t, DOMAIN t = Side, NEW s \in Side, NEW k, NEW level
  PROVE  LET u == [t EXCEPT ![s] = SetLevel(@, k, level)]
         IN  /\ DOMAIN u = Side
             /\ \A r \in Side \ {s} : u[r] = t[r]
             /\ level = <<>> => DOMAIN u[s] = DOMAIN t[s] \ {k}
             /\ level # <<>> => DOMAIN u[s] = DOMAIN t[s] \union {k} /\ u[s][k] = level
             /\ \A j \in DOMAIN t[s] \ {k} : u[s][j] = t[s][j]
<1> DEFINE u == [t EXCEPT ![s] = SetLevel(@, k, level)]
<1>1. DOMAIN u = Side /\ u[s] = SetLevel(t[s], k, level) /\ \A r \in Side \ {s} : u[r] = t[r]
  OBVIOUS
<1> HIDE DEF u
<1>2. CASE level = <<>>
  <2>1. u[s] = Drop(t[s], k)
    BY <1>1, <1>2 DEF SetLevel
  <2>2. DOMAIN u[s] = DOMAIN t[s] \ {k} /\ \A j \in DOMAIN t[s] \ {k} : u[s][j] = t[s][j]
    BY <2>1 DEF Drop, Restrict
  <2>3. QED
    BY <1>1, <1>2, <2>2
<1>3. CASE level # <<>>
  <2>1. u[s] = Put(t[s], k, level)
    BY <1>1, <1>3 DEF SetLevel
  <2>2. /\ DOMAIN u[s] = DOMAIN t[s] \union {k}
        /\ u[s][k] = level
        /\ \A j \in DOMAIN t[s] \ {k} : u[s][j] = t[s][j]
    BY <2>1 DEF Put
  <2>3. QED
    BY <1>1, <1>3, <2>2
<1>4. QED
  BY <1>1, <1>2, <1>3 DEF u

\* An order leaves its level and the index together (fill or cancel).
LEMMA IndexedRemove ==
  ASSUME NEW t, NEW x, Typed(t, x), Indexed(t, x), NEW id \in DOMAIN x,
         NEW level \in Seq(Id), IsInjective(level),
         Range(level) = Range(t[x[id].side][x[id].key]) \ {id}
  PROVE  Indexed([t EXCEPT ![x[id].side] = SetLevel(@, x[id].key, level)], Drop(x, id))
<1> DEFINE s == x[id].side
           k == x[id].key
           u == [t EXCEPT ![s] = SetLevel(@, k, level)]
           y == Drop(x, id)
<1>1. /\ DOMAIN u = Side
      /\ \A r \in Side \ {s} : u[r] = t[r]
      /\ level = <<>> => DOMAIN u[s] = DOMAIN t[s] \ {k}
      /\ level # <<>> => DOMAIN u[s] = DOMAIN t[s] \union {k} /\ u[s][k] = level
      /\ \A j \in DOMAIN t[s] \ {k} : u[s][j] = t[s][j]
  <2>1. DOMAIN t = Side /\ s \in Side
    BY DEF Typed
  <2> HIDE DEF s, k
  <2>2. QED
    BY <2>1, SetLevelFacts
<1>2. DOMAIN y = DOMAIN x \ {id} /\ \A i \in DOMAIN x \ {id} : y[i] = x[i]
  BY DropFacts
<1>3. s \in Side /\ k \in DOMAIN t[s] /\ id \in Range(t[s][k])
  BY DEF Indexed, Typed
<1> HIDE DEF u, y, s, k
<1>4. ASSUME NEW r \in Side, NEW j \in DOMAIN u[r]
      PROVE  /\ u[r][j] # <<>>
             /\ IsInjective(u[r][j])
             /\ \A i \in Range(u[r][j]) : i \in DOMAIN y /\ y[i] = [key |-> j, side |-> r]
  <2>1. CASE r = s /\ j = k
    <3>1. u[r][j] = level /\ level # <<>>
      BY <1>1, <2>1
    <3>2. \A i \in Range(level) : i \in Range(t[s][k]) /\ i # id
      BY DEF s, k
    <3>3. \A i \in Range(t[s][k]) : i \in DOMAIN x /\ x[i] = [key |-> k, side |-> s]
      BY <1>3 DEF Indexed
    <3>4. QED
      BY <1>2, <2>1, <3>1, <3>2, <3>3
  <2>2. CASE ~(r = s /\ j = k)
    <3>1. j \in DOMAIN t[r] /\ u[r][j] = t[r][j]
      BY <1>1, <2>2
    <3>2. /\ t[r][j] # <<>>
          /\ IsInjective(t[r][j])
          /\ \A i \in Range(t[r][j]) : i \in DOMAIN x /\ x[i] = [key |-> j, side |-> r]
      BY <3>1 DEF Indexed
    <3>3. id \notin Range(t[r][j])
      BY <2>2, <3>2 DEF s, k
    <3>4. QED
      BY <1>2, <3>1, <3>2, <3>3
  <2>3. QED
    BY <2>1, <2>2
<1>5. ASSUME NEW i \in DOMAIN y
      PROVE  /\ y[i].key \in DOMAIN u[y[i].side]
             /\ i \in Range(u[y[i].side][y[i].key])
  <2>1. i \in DOMAIN x /\ i # id /\ y[i] = x[i]
    BY <1>2
  <2>2. x[i].side \in Side /\ x[i].key \in DOMAIN t[x[i].side] /\ i \in Range(t[x[i].side][x[i].key])
    BY <2>1 DEF Indexed, Typed
  <2>3. CASE x[i].side = s /\ x[i].key = k
    <3>1. i \in Range(level)
      BY <2>1, <2>2, <2>3 DEF s, k
    <3>2. level # <<>>
      BY <3>1 DEF Range
    <3>3. QED
      BY <1>1, <2>1, <2>3, <3>1, <3>2
  <2>4. CASE ~(x[i].side = s /\ x[i].key = k)
    BY <1>1, <2>1, <2>2, <2>4
  <2>5. QED
    BY <2>3, <2>4
<1>6. QED
  BY <1>4, <1>5 DEF Indexed, u, y, s, k

\* An order that is not indexed joins the level of its key (_rest).
LEMMA IndexedAdd ==
  ASSUME NEW t, NEW x, Typed(t, x), Indexed(t, x), NEW id \in Id \ DOMAIN x,
         NEW s \in Side, NEW k
  PROVE  LET old == IF k \in DOMAIN t[s] THEN t[s][k] ELSE <<>>
         IN  /\ Indexed([t EXCEPT ![s] = Put(@, k, Append(old, id))],
                        Put(x, id, [key |-> k, side |-> s]))
             /\ old \in Seq(Id)
             /\ id \notin Range(old)
<1> DEFINE old == IF k \in DOMAIN t[s] THEN t[s][k] ELSE <<>>
           u == [t EXCEPT ![s] = Put(@, k, Append(old, id))]
           new == Append(old, id)
           y == Put(x, id, [key |-> k, side |-> s])
<1>1. old \in Seq(Id) /\ IsInjective(old) /\ \A i \in Range(old) : i \in DOMAIN x /\ x[i] = [key |-> k, side |-> s]
  <2>1. CASE k \in DOMAIN t[s]
    BY <2>1 DEF Typed, Indexed
  <2>2. CASE k \notin DOMAIN t[s]
    BY <2>2, EmptySeq DEF Range, IsInjective
  <2>3. QED
    BY <2>1, <2>2
<1>2. new # <<>> /\ IsInjective(new) /\ Range(new) = Range(old) \union {id}
  <2> HIDE DEF old
  <2>1. id \in Id /\ id \notin Range(old)
    BY <1>1
  <2>2. QED
    BY <1>1, <2>1, AppendRange
<1>3. /\ \A r \in Side \ {s} : u[r] = t[r]
      /\ DOMAIN u[s] = DOMAIN t[s] \union {k}
      /\ u[s][k] = new
      /\ \A j \in DOMAIN t[s] \ {k} : u[s][j] = t[s][j]
  <2>1. u[s] = Put(t[s], k, new) /\ \A r \in Side \ {s} : u[r] = t[r]
    BY DEF Typed
  <2> HIDE DEF new
  <2>2. QED
    BY <2>1 DEF Put
<1>4. /\ DOMAIN y = DOMAIN x \union {id}
      /\ y[id] = [key |-> k, side |-> s]
      /\ \A i \in DOMAIN x : y[i] = x[i]
  BY DEF Put
<1> HIDE DEF old, u, new, y
<1>5. ASSUME NEW r \in Side, NEW j \in DOMAIN u[r]
      PROVE  /\ u[r][j] # <<>>
             /\ IsInjective(u[r][j])
             /\ \A i \in Range(u[r][j]) : i \in DOMAIN y /\ y[i] = [key |-> j, side |-> r]
  <2>1. CASE r = s /\ j = k
    BY <1>1, <1>2, <1>3, <1>4, <2>1
  <2>2. CASE ~(r = s /\ j = k)
    <3>1. j \in DOMAIN t[r] /\ u[r][j] = t[r][j]
      BY <1>3, <2>2
    <3>2. QED
      BY <1>4, <3>1 DEF Indexed
  <2>3. QED
    BY <2>1, <2>2
<1>6. ASSUME NEW i \in DOMAIN y
      PROVE  /\ y[i].key \in DOMAIN u[y[i].side]
             /\ i \in Range(u[y[i].side][y[i].key])
  <2>1. CASE i = id
    BY <1>2, <1>3, <1>4, <2>1
  <2>2. CASE i # id
    <3>1. i \in DOMAIN x /\ y[i] = x[i] /\ x[i].side \in Side
      BY <1>4, <2>2 DEF Typed
    <3>2. x[i].key \in DOMAIN t[x[i].side] /\ i \in Range(t[x[i].side][x[i].key])
      BY <3>1 DEF Indexed
    <3>3. CASE x[i].side = s /\ x[i].key = k
      <4>1. old = t[s][k]
        BY <3>2, <3>3 DEF old
      <4>2. QED
        BY <1>2, <1>3, <3>1, <3>2, <3>3, <4>1
    <3>4. CASE ~(x[i].side = s /\ x[i].key = k)
      BY <1>3, <3>1, <3>2, <3>4
    <3>5. QED
      BY <3>3, <3>4
  <2>3. QED
    BY <2>1, <2>2
<1>7. QED
  BY <1>1, <1>5, <1>6 DEF Indexed, old, u, new, y

-----------------------------------------------------------------------------
(***************************************************************************)
(* The inductive invariant, action by action.                              *)
(***************************************************************************)

\* The invariant holds of a new book.
LEMMA InitIInv == Init => IInv
<1> SUFFICES ASSUME Init PROVE IInv
  OBVIOUS
<1>1. DOMAIN <<>> = {} /\ Range(<<>>) = {} /\ <<>> \in Seq(Id) /\ <<>> \in Seq(Fill)
  BY EmptySeq DEF Range
<1>2. TypeOK
  BY <1>1, PriceAssumption, QtyAssumption DEF Init, TypeOK, Unsent, IdleCall, Side, Status
<1>3. IndexMatchesLevels /\ PricesMatch /\ NotCrossed
  BY <1>1 DEF Init, IndexMatchesLevels, Indexed, PricesMatch, NotCrossed, Side
<1>4. OrdersConserved /\ FrameOK
  BY DEF Init, OrdersConserved, Outstanding, FrameOK, Running, IdleCall, Unsent
<1>5. ArrivalsMatch
  BY <1>1 DEF Init, ArrivalsMatch, IsInjective
<1>6. QED
  BY <1>2, <1>3, <1>4, <1>5 DEF IInv

\* Starting a call touches its frame and its own order, which is not resting.
LEMMA AddOrderIInv ==
  ASSUME IInv, NEW id \in Id, NEW side \in Side, NEW price \in 0..MaxPrice,
         NEW quantity \in 0..MaxQuantity, AddOrder(id, side, price, quantity)
  PROVE  IInv'
<1>0. /\ ~Running /\ quantity > 0 /\ price > 0 /\ id \notin DOMAIN index
      /\ order' = [order EXCEPT ![id] = [side |-> side, price |-> price,
                                         quantity |-> quantity, status |-> "open"]]
      /\ call' = NewCall("limit", side, id, price, quantity)
      /\ submitted' = [submitted EXCEPT ![id] = quantity]
      /\ executed' = [executed EXCEPT ![id] = 0]
      /\ tree' = tree /\ qtyMap' = qtyMap /\ index' = index /\ arrivals' = arrivals
  BY DEF AddOrder, book
<1>1. \A i \in Id \ {id} : order'[i] = order[i]
  BY <1>0 DEF IInv, TypeOK
<1>2. order'[id] = [side |-> side, price |-> price, quantity |-> quantity, status |-> "open"]
  BY <1>0 DEF IInv, TypeOK
<1>3. TypeOK'
  <2>1. order' \in [Id -> [side : Side, price : 0..MaxPrice, quantity : 0..MaxQuantity, status : Status]]
    BY <1>0 DEF IInv, TypeOK, Status
  <2>2. /\ call' \in [kind : {"idle", "limit", "market"}, side : Side, taker : Id \union {NoOrder},
                      limit : 0..MaxPrice, quantity : 0..MaxQuantity, remaining : 0..MaxQuantity,
                      fills : Seq(Fill)]
    BY <1>0, EmptySeq DEF NewCall
  <2>3. submitted' \in [Id -> 0..MaxQuantity] /\ executed' \in [Id -> 0..MaxQuantity]
    BY <1>0, QtyAssumption DEF IInv, TypeOK
  <2>4. QED
    BY <1>0, <2>1, <2>2, <2>3 DEF IInv, TypeOK
<1>4. IndexMatchesLevels'
  <2>1. \A i \in DOMAIN index : order'[i] = order[i]
    BY <1>0, <1>1 DEF IInv, TypeOK
  <2>2. QED
    BY <1>0, <2>1 DEF IInv, IndexMatchesLevels
<1>5. PricesMatch' /\ NotCrossed' /\ ArrivalsMatch'
  BY <1>0 DEF IInv, PricesMatch, NotCrossed, ArrivalsMatch
<1>6. OrdersConserved'
  <2> SUFFICES ASSUME NEW i \in Id
               PROVE  submitted'[i] = executed'[i] + Outstanding(i)'
    BY DEF OrdersConserved
  <2>1. call'.kind = "limit" /\ call'.taker = id /\ call'.remaining = quantity
    BY <1>0 DEF NewCall
  <2>2. CASE i = id
    BY <1>0, <2>1, <2>2 DEF IInv, TypeOK, Outstanding
  <2>3. CASE i # id
    <3>1. submitted'[i] = submitted[i] /\ executed'[i] = executed[i] /\ order'[i] = order[i]
      BY <1>0, <1>1, <2>3 DEF IInv, TypeOK
    <3>2. Outstanding(i) = order[i].quantity /\ Outstanding(i)' = order[i].quantity
      BY <1>0, <2>1, <2>3, <3>1 DEF Outstanding, Running
    <3>3. QED
      BY <3>1, <3>2 DEF IInv, OrdersConserved
  <2>4. QED
    BY <2>2, <2>3
<1>7. FrameOK'
  <2>1. /\ call'.kind = "limit" /\ call'.taker = id /\ call'.side = side /\ call'.limit = price
        /\ call'.quantity = quantity /\ call'.remaining = quantity
    BY <1>0 DEF NewCall
  <2>2. QED
    BY <1>0, <1>2, <2>1 DEF FrameOK, Running
<1>8. QED
  BY <1>3, <1>4, <1>5, <1>6, <1>7 DEF IInv

\* The first step of match_market_order keeps it.
LEMMA MatchMarketOrderIInv ==
  ASSUME IInv, NEW side \in Side, NEW quantity \in 0..MaxQuantity, MatchMarketOrder(side, quantity)
  PROVE  IInv'
<1>1. /\ ~Running /\ quantity > 0
      /\ call' = NewCall("market", side, NoOrder, 0, quantity)
      /\ UNCHANGED <<order, tree, qtyMap, index, arrivals, submitted, executed>>
  BY DEF MatchMarketOrder, book, history
<1>2. call' \in [kind : {"idle", "limit", "market"}, side : Side, taker : Id \union {NoOrder},
                 limit : 0..MaxPrice, quantity : 0..MaxQuantity, remaining : 0..MaxQuantity,
                 fills : Seq(Fill)]
  BY <1>1, EmptySeq, PriceAssumption DEF NewCall
<1>3. call'.kind = "market" /\ call'.taker = NoOrder /\ call'.quantity = quantity /\ call'.remaining = quantity
  BY <1>1 DEF NewCall
<1>4. TypeOK'
  BY <1>1, <1>2 DEF IInv, TypeOK
<1>5. IndexMatchesLevels' /\ PricesMatch' /\ NotCrossed' /\ ArrivalsMatch'
  BY <1>1 DEF IInv, IndexMatchesLevels, PricesMatch, NotCrossed, ArrivalsMatch
<1>6. OrdersConserved'
  BY <1>1, <1>3 DEF IInv, OrdersConserved, Outstanding, Running
<1>7. FrameOK'
  BY <1>1, <1>3 DEF FrameOK, Running
<1>8. QED
  BY <1>4, <1>5, <1>6, <1>7 DEF IInv

\* The return of match_market_order keeps it.
LEMMA ReturnMarketIInv ==
  ASSUME IInv, ReturnMarket
  PROVE  IInv'
<1>1. /\ call.kind = "market" /\ call' = IdleCall
      /\ UNCHANGED <<order, tree, qtyMap, index, arrivals, submitted, executed>>
  BY DEF ReturnMarket, book, history
<1>2. call' \in [kind : {"idle", "limit", "market"}, side : Side, taker : Id \union {NoOrder},
                 limit : 0..MaxPrice, quantity : 0..MaxQuantity, remaining : 0..MaxQuantity,
                 fills : Seq(Fill)]
  BY <1>1, EmptySeq, PriceAssumption, QtyAssumption DEF IdleCall, Side
<1>3. TypeOK'
  BY <1>1, <1>2 DEF IInv, TypeOK
<1>4. IndexMatchesLevels' /\ PricesMatch' /\ NotCrossed' /\ ArrivalsMatch'
  BY <1>1 DEF IInv, IndexMatchesLevels, PricesMatch, NotCrossed, ArrivalsMatch
<1>5. OrdersConserved' /\ FrameOK'
  BY <1>1 DEF IInv, OrdersConserved, Outstanding, FrameOK, Running, IdleCall
<1>6. QED
  BY <1>3, <1>4, <1>5 DEF IInv

\* The shape of a level.
LEMMA LevelFacts ==
  ASSUME IInv, NEW s \in Side, NEW k \in DOMAIN tree[s]
  PROVE  /\ k \in Keys
         /\ tree[s][k] \in Seq(Id) /\ tree[s][k] # <<>> /\ IsInjective(tree[s][k])
         /\ OrderedAs(tree[s][k], arrivals)
         /\ PriceOf(s, k) \in 1..MaxPrice /\ PriceOf(s, k) \in DOMAIN qtyMap[s]
<1>1. /\ k \in Keys /\ tree[s][k] \in Seq(Id)
      /\ tree[s][k] # <<>> /\ IsInjective(tree[s][k])
      /\ OrderedAs(tree[s][k], arrivals)
  BY DEF IInv, TypeOK, IndexMatchesLevels, Indexed, ArrivalsMatch
<1>2. PriceOf(s, k) \in 1..MaxPrice /\ PriceOf(s, k) \in DOMAIN qtyMap[s]
  BY DEF IInv, TypeOK, PricesMatch
<1>3. QED
  BY <1>1, <1>2

\* What a level says about an order in it.
LEMMA LevelOrders ==
  ASSUME IInv, NEW s \in Side, NEW k \in DOMAIN tree[s], NEW id \in Range(tree[s][k])
  PROVE  /\ id \in DOMAIN index /\ id \in Id
         /\ index[id].key = k /\ index[id].side = s
         /\ order[id].side = s /\ order[id].price = PriceOf(s, k)
         /\ order[id].quantity \in 1..MaxQuantity
<1>1. id \in DOMAIN index /\ index[id] = [key |-> k, side |-> s]
  BY DEF IInv, IndexMatchesLevels, Indexed
<1>2. id \in Id /\ order[id].price \in Nat /\ order[id].quantity \in 0..MaxQuantity
  BY <1>1, PriceAssumption DEF IInv, TypeOK
<1>3. order[id].side = s /\ k = Key(s, order[id].price) /\ order[id].quantity > 0
  BY <1>1 DEF IInv, IndexMatchesLevels
<1>4. order[id].price = PriceOf(s, k)
  BY <1>2, <1>3 DEF Key, PriceOf
<1>5. QED
  BY <1>1, <1>2, <1>3, <1>4, QtyAssumption

\* Different keys of a side are different prices.
LEMMA PricesDiffer ==
  ASSUME NEW s \in Side, NEW j \in Keys, NEW k \in Keys, PriceOf(s, j) = PriceOf(s, k)
  PROVE  j = k
<1>1. j \in Int /\ k \in Int
  BY PriceAssumption DEF Keys
<1>2. QED
  BY <1>1 DEF PriceOf

\* Replacing a level and its aggregate together keeps the types, the agreement
\* of the two maps, and the spread.
LEMMA LevelStep ==
  ASSUME IInv, NEW s \in Side, NEW k \in DOMAIN tree[s], NEW level \in Seq(Id), NEW total \in Int,
         tree' = [tree EXCEPT ![s] = SetLevel(@, k, level)],
         qtyMap' = [qtyMap EXCEPT ![s] = IF level = <<>> THEN Drop(@, PriceOf(s, k))
                                         ELSE Put(@, PriceOf(s, k), total)]
  PROVE  /\ DOMAIN tree' = Side
         /\ \A r \in Side : /\ DOMAIN tree'[r] \subseteq DOMAIN tree[r]
                            /\ DOMAIN tree'[r] \subseteq Keys
                            /\ \A j \in DOMAIN tree'[r] : tree'[r][j] \in Seq(Id)
         /\ DOMAIN qtyMap' = Side
         /\ \A r \in Side : /\ DOMAIN qtyMap'[r] \subseteq 1..MaxPrice
                            /\ \A p \in DOMAIN qtyMap'[r] : qtyMap'[r][p] \in Int
         /\ PricesMatch'
         /\ NotCrossed'
<1> DEFINE price == PriceOf(s, k)
<1>0. /\ DOMAIN tree = Side /\ DOMAIN qtyMap = Side
      /\ \A r \in Side : DOMAIN tree[r] \subseteq Keys /\ \A j \in DOMAIN tree[r] : tree[r][j] \in Seq(Id)
      /\ \A r \in Side : DOMAIN qtyMap[r] \subseteq 1..MaxPrice /\ \A p \in DOMAIN qtyMap[r] : qtyMap[r][p] \in Int
  BY DEF IInv, TypeOK
<1>1. /\ DOMAIN tree' = Side
      /\ \A r \in Side \ {s} : tree'[r] = tree[r]
      /\ level = <<>> => DOMAIN tree'[s] = DOMAIN tree[s] \ {k}
      /\ level # <<>> => DOMAIN tree'[s] = DOMAIN tree[s] \union {k} /\ tree'[s][k] = level
      /\ \A j \in DOMAIN tree[s] \ {k} : tree'[s][j] = tree[s][j]
  BY <1>0, SetLevelFacts
<1>2. /\ DOMAIN qtyMap' = Side
      /\ \A r \in Side \ {s} : qtyMap'[r] = qtyMap[r]
      /\ level = <<>> => DOMAIN qtyMap'[s] = DOMAIN qtyMap[s] \ {price}
      /\ level # <<>> => DOMAIN qtyMap'[s] = DOMAIN qtyMap[s] \union {price} /\ qtyMap'[s][price] = total
      /\ \A p \in DOMAIN qtyMap[s] \ {price} : qtyMap'[s][p] = qtyMap[s][p]
  <2> HIDE DEF price
  <2>1. /\ DOMAIN qtyMap' = Side
        /\ \A r \in Side \ {s} : qtyMap'[r] = qtyMap[r]
        /\ qtyMap'[s] = IF level = <<>> THEN Drop(qtyMap[s], price) ELSE Put(qtyMap[s], price, total)
    BY <1>0 DEF price
  <2>2. CASE level = <<>>
    <3>1. qtyMap'[s] = Drop(qtyMap[s], price)
      BY <2>1, <2>2
    <3>2. QED
      BY <2>1, <2>2, <3>1 DEF Drop, Restrict
  <2>3. CASE level # <<>>
    <3>1. qtyMap'[s] = Put(qtyMap[s], price, total)
      BY <2>1, <2>3
    <3>2. QED
      BY <2>1, <2>3, <3>1 DEF Put
  <2>4. QED
    BY <2>2, <2>3
<1>3. price \in 1..MaxPrice /\ price \in DOMAIN qtyMap[s] /\ k \in Keys
  BY LevelFacts
<1>4. \A r \in Side : /\ DOMAIN tree'[r] \subseteq DOMAIN tree[r]
                      /\ DOMAIN tree'[r] \subseteq Keys
                      /\ \A j \in DOMAIN tree'[r] : tree'[r][j] \in Seq(Id)
  <2>1. ASSUME NEW r \in Side \ {s}
        PROVE  tree'[r] = tree[r]
    BY <1>1
  <2>2. DOMAIN tree'[s] \subseteq DOMAIN tree[s] /\ \A j \in DOMAIN tree'[s] : tree'[s][j] \in Seq(Id)
    BY <1>0, <1>1
  <2>3. QED
    BY <1>0, <2>1, <2>2
<1>5. \A r \in Side : /\ DOMAIN qtyMap'[r] \subseteq 1..MaxPrice
                      /\ \A p \in DOMAIN qtyMap'[r] : qtyMap'[r][p] \in Int
  <2> HIDE DEF price
  <2>1. ASSUME NEW r \in Side \ {s}
        PROVE  qtyMap'[r] = qtyMap[r]
    BY <1>2
  <2>2. DOMAIN qtyMap'[s] \subseteq 1..MaxPrice /\ \A p \in DOMAIN qtyMap'[s] : qtyMap'[s][p] \in Int
    BY <1>0, <1>2, <1>3
  <2>3. QED
    BY <1>0, <2>1, <2>2
<1>6. PricesMatch'
  <2>1. ASSUME NEW r \in Side \ {s}
        PROVE  DOMAIN qtyMap'[r] = {PriceOf(r, j) : j \in DOMAIN tree'[r]}
    BY <1>1, <1>2 DEF IInv, PricesMatch
  <2>2. DOMAIN qtyMap[s] = {PriceOf(s, j) : j \in DOMAIN tree[s]}
    BY DEF IInv, PricesMatch
  <2>3. \A j \in DOMAIN tree[s] : PriceOf(s, j) = price => j = k
    BY <1>0, <1>3, PricesDiffer
  <2>4. DOMAIN qtyMap'[s] = {PriceOf(s, j) : j \in DOMAIN tree'[s]}
    <3> HIDE DEF price
    <3>0. price = PriceOf(s, k)
      BY DEF price
    <3>1. CASE level = <<>>
      BY <1>1, <1>2, <2>2, <2>3, <3>0, <3>1
    <3>2. CASE level # <<>>
      BY <1>1, <1>2, <2>2, <3>0, <3>2
    <3>3. QED
      BY <3>1, <3>2
  <2>5. QED
    BY <2>1, <2>4 DEF PricesMatch
<1>7. NotCrossed'
  BY <1>4 DEF IInv, NotCrossed, Side
<1>8. QED
  BY <1>1, <1>2, <1>4, <1>5, <1>6, <1>7

\* cancel_order keeps it.
LEMMA CancelOrderIInv ==
  ASSUME IInv, NEW id \in Id, CancelOrder(id)
  PROVE  IInv'
<1> DEFINE s == index[id].side
           k == index[id].key
           level == RemoveFirst(tree[s][k], id)
<1>0. ~Running /\ id \in DOMAIN index
  BY DEF CancelOrder
<1>1. s \in Side /\ k \in DOMAIN tree[s] /\ id \in Range(tree[s][k])
  <2>1. s \in Side
    BY <1>0 DEF IInv, TypeOK
  <2>2. k \in DOMAIN tree[s] /\ id \in Range(tree[s][k])
    BY <1>0 DEF IInv, IndexMatchesLevels, Indexed
  <2>3. QED
    BY <2>1, <2>2
<1>2. /\ tree[s][k] \in Seq(Id) /\ IsInjective(tree[s][k])
      /\ order[id].price = PriceOf(s, k) /\ PriceOf(s, k) \in DOMAIN qtyMap[s]
      /\ OrderedAs(tree[s][k], arrivals)
  <2> HIDE DEF s, k
  <2>1. /\ tree[s][k] \in Seq(Id) /\ IsInjective(tree[s][k])
        /\ PriceOf(s, k) \in DOMAIN qtyMap[s]
        /\ OrderedAs(tree[s][k], arrivals)
    BY <1>1, LevelFacts
  <2>2. order[id].price = PriceOf(s, k)
    BY <1>1, LevelOrders
  <2>3. QED
    BY <2>1, <2>2
<1>3. /\ level \in Seq(Id) /\ IsInjective(level)
      /\ Range(level) = Range(tree[s][k]) \ {id}
      /\ OrderedAs(level, arrivals)
  BY <1>1, <1>2, RemoveFirstRange, LevelKeepsOrder
<1> DEFINE total == qtyMap[s][PriceOf(s, k)] - order[id].quantity
<1>4. /\ tree' = [tree EXCEPT ![s] = SetLevel(@, k, level)]
      /\ qtyMap' = [qtyMap EXCEPT ![s] = IF level = <<>> THEN Drop(@, PriceOf(s, k))
                                         ELSE Put(@, PriceOf(s, k), total)]
      /\ index' = Drop(index, id)
      /\ order' = [order EXCEPT ![id].status = "cancelled"]
      /\ arrivals' = RemoveFirst(arrivals, id)
      /\ call' = call /\ submitted' = submitted /\ executed' = executed
  BY <1>2 DEF CancelOrder
<1>5. total \in Int
  BY <1>1, <1>2, <1>0, QtyAssumption DEF IInv, TypeOK
<1>6. DOMAIN index' = DOMAIN index \ {id} /\ \A i \in DOMAIN index \ {id} : index'[i] = index[i]
  BY <1>4, DropFacts
<1>7. \A i \in Id : /\ order'[i].side = order[i].side /\ order'[i].price = order[i].price
                    /\ order'[i].quantity = order[i].quantity
  BY <1>4 DEF IInv, TypeOK
<1>8. /\ arrivals' \in Seq(Id) /\ IsInjective(arrivals') /\ Range(arrivals') = Range(arrivals) \ {id}
  BY <1>0, <1>4, RemoveFirstRange DEF IInv, TypeOK, ArrivalsMatch
<1>9. Indexed(tree', index')
  <2>1. Typed(tree, index) /\ Indexed(tree, index)
    BY DEF IInv, TypeOK, IndexMatchesLevels, Typed
  <2> HIDE DEF level
  <2>2. QED
    BY <1>0, <1>3, <1>4, <2>1, IndexedRemove
<1> HIDE DEF level, total
<1>10. /\ DOMAIN tree' = Side
       /\ \A r \in Side : /\ DOMAIN tree'[r] \subseteq DOMAIN tree[r]
                          /\ DOMAIN tree'[r] \subseteq Keys
                          /\ \A j \in DOMAIN tree'[r] : tree'[r][j] \in Seq(Id)
       /\ DOMAIN qtyMap' = Side
       /\ \A r \in Side : /\ DOMAIN qtyMap'[r] \subseteq 1..MaxPrice
                          /\ \A p \in DOMAIN qtyMap'[r] : qtyMap'[r][p] \in Int
       /\ PricesMatch' /\ NotCrossed'
  <2> HIDE DEF s, k
  <2>1. QED
    BY <1>1, <1>3, <1>4, <1>5, LevelStep
<1>11. TypeOK'
  <2>1. order' \in [Id -> [side : Side, price : 0..MaxPrice, quantity : 0..MaxQuantity, status : Status]]
    BY <1>4 DEF IInv, TypeOK, Status
  <2>2. DOMAIN index' \subseteq Id /\ \A i \in DOMAIN index' : index'[i] \in [key : Keys, side : Side]
    BY <1>6 DEF IInv, TypeOK
  <2>3. QED
    BY <1>4, <1>8, <1>10, <2>1, <2>2 DEF IInv, TypeOK
<1>12. IndexMatchesLevels'
  <2>1. \A i \in DOMAIN index' : i \in Id /\ i \in DOMAIN index /\ index'[i] = index[i]
    BY <1>6 DEF IInv, TypeOK
  <2>2. QED
    BY <1>7, <1>9, <2>1 DEF IInv, IndexMatchesLevels
<1>13. OrdersConserved'
  BY <1>4, <1>7 DEF IInv, OrdersConserved, Outstanding
<1>14. FrameOK'
  BY <1>0, <1>4 DEF IInv, FrameOK, Running, IdleCall
<1>15. ArrivalsMatch'
  <2>1. ASSUME NEW r \in Side, NEW j \in DOMAIN tree'[r]
        PROVE  OrderedAs(tree'[r][j], arrivals')
    <3>1. OrderedAs(tree'[r][j], arrivals)
      <4>1. DOMAIN tree = Side
        BY DEF IInv, TypeOK
      <4>2. CASE r = s /\ j = k
        <5>1. tree'[r][j] = level
          BY <1>1, <1>4, <4>1, <4>2, SetLevelFacts
        <5>2. QED
          BY <1>3, <5>1
      <4>3. CASE ~(r = s /\ j = k)
        <5>1. j \in DOMAIN tree[r] /\ tree'[r][j] = tree[r][j]
          BY <1>1, <1>4, <4>1, <4>3, SetLevelFacts
        <5>2. QED
          BY <5>1 DEF IInv, ArrivalsMatch
      <4>4. QED
        BY <4>2, <4>3
    <3>2. \A i \in DOMAIN tree'[r][j] : tree'[r][j][i] # id
      <4>1. \A i \in Range(tree'[r][j]) : i \in DOMAIN index'
        BY <1>9 DEF Indexed
      <4>2. QED
        BY <1>6, <4>1 DEF Range
    <3>3. QED
      <4> SUFFICES ASSUME NEW a \in DOMAIN tree'[r][j], NEW b \in DOMAIN tree'[r][j], a < b
                   PROVE  Precedes(tree'[r][j][a], tree'[r][j][b], arrivals')
        BY DEF OrderedAs
      <4>1. Precedes(tree'[r][j][a], tree'[r][j][b], arrivals)
        BY <3>1 DEF OrderedAs
      <4>2. arrivals \in Seq(Id) /\ IsInjective(arrivals) /\ id \in Range(arrivals)
        BY <1>0 DEF IInv, TypeOK, ArrivalsMatch
      <4>3. QED
        BY <1>4, <3>2, <4>1, <4>2, RemoveKeepsOrder
  <2>2. Range(arrivals') = DOMAIN index'
    BY <1>6, <1>8 DEF IInv, ArrivalsMatch
  <2>3. QED
    BY <1>8, <2>1, <2>2 DEF ArrivalsMatch
<1>16. QED
  BY <1>10, <1>11, <1>12, <1>13, <1>14, <1>15 DEF IInv

\* What the matching loop reads: the best opposite level and its first order.
LEMMA MatchFacts ==
  ASSUME IInv, Running, CanMatch
  PROVE  LET opp   == Opposite(call.side)
             key   == BestKey(opp)
             maker == Head(tree[opp][key])
         IN  /\ opp \in Side /\ key \in DOMAIN tree[opp]
             /\ \A k \in DOMAIN tree[opp] : key <= k
             /\ maker \in Range(tree[opp][key])
             /\ maker # call.taker
             /\ call.remaining \in 1..MaxQuantity
             /\ WithinLimit(PriceOf(opp, key))
<1> DEFINE opp == Opposite(call.side)
           key == BestKey(opp)
           maker == Head(tree[opp][key])
<1>1. opp \in Side
  BY DEF Opposite, Side
<1>2. DOMAIN tree[opp] \in SUBSET Keys /\ DOMAIN tree[opp] # {}
  BY <1>1 DEF IInv, TypeOK, CanMatch
<1>3. key \in DOMAIN tree[opp] /\ \A k \in DOMAIN tree[opp] : key <= k
  <2> HIDE DEF opp
  <2>1. QED
    BY <1>2, BestKeyFacts DEF BestKey
<1>4. call.remaining \in 1..MaxQuantity /\ WithinLimit(PriceOf(opp, key))
  BY QtyAssumption DEF CanMatch, IInv, TypeOK
<1> HIDE DEF opp, key
<1>5. maker \in Range(tree[opp][key])
  <2>1. tree[opp][key] \in Seq(Id) /\ tree[opp][key] # <<>> /\ IsInjective(tree[opp][key])
    BY <1>1, <1>3, LevelFacts
  <2>2. QED
    BY <2>1, TailRange
<1>6. maker # call.taker
  <2>1. maker \in DOMAIN index /\ maker \in Id
    BY <1>1, <1>3, <1>5, LevelOrders
  <2> HIDE DEF maker
  <2>2. call.kind \in {"limit", "market"}
    BY DEF IInv, TypeOK, Running
  <2>3. CASE call.kind = "limit"
    BY <2>1, <2>3 DEF IInv, FrameOK
  <2>4. CASE call.kind = "market"
    BY <2>1, <2>4, IdAssumption DEF IInv, FrameOK
  <2>5. QED
    BY <2>2, <2>3, <2>4
<1>7. QED
  BY <1>1, <1>3, <1>4, <1>5, <1>6 DEF opp, key, maker

\* A turn of the matching loop keeps it.
LEMMA ConsumeIInv ==
  ASSUME IInv, Consume
  PROVE  IInv'
<1> DEFINE opp == Opposite(call.side)
           key == BestKey(opp)
           price == PriceOf(opp, key)
           level == tree[opp][key]
           maker == Head(level)
           traded == Min({call.remaining, order[maker].quantity})
           left == order[maker].quantity - traded
           levelNow == IF left = 0 THEN Tail(level) ELSE level
           total == qtyMap[opp][price] - traded
           fill == [order_id |-> call.taker, price |-> price, quantity |-> traded, side |-> call.side]
<1>1. /\ opp \in Side /\ key \in DOMAIN tree[opp]
      /\ maker \in Range(level) /\ maker # call.taker
      /\ call.remaining \in 1..MaxQuantity
      /\ Running
  BY MatchFacts DEF Consume
<1>2. /\ order' = [order EXCEPT ![maker].quantity = left,
                                ![maker].status = IF left = 0 THEN "filled" ELSE "partial"]
      /\ call' = [call EXCEPT !.remaining = @ - traded, !.fills = Append(@, fill)]
      /\ index' = IF left = 0 THEN Drop(index, maker) ELSE index
      /\ tree' = [tree EXCEPT ![opp] = SetLevel(@, key, levelNow)]
      /\ qtyMap' = [qtyMap EXCEPT ![opp] = IF levelNow = <<>> THEN Drop(@, price)
                                           ELSE Put(@, price, @[price] - traded)]
      /\ arrivals' = IF left = 0 THEN RemoveFirst(arrivals, maker) ELSE arrivals
      /\ executed' = [id \in Id |-> IF id \in {maker, call.taker} THEN executed[id] + traded
                                    ELSE executed[id]]
      /\ submitted' = submitted
  BY DEF Consume
<1> HIDE DEF opp, key
<1>3. /\ key \in Keys /\ level \in Seq(Id) /\ level # <<>> /\ IsInjective(level)
      /\ OrderedAs(level, arrivals)
      /\ price \in 1..MaxPrice /\ price \in DOMAIN qtyMap[opp]
  BY <1>1, LevelFacts
<1>4. /\ maker \in DOMAIN index /\ maker \in Id
      /\ index[maker].key = key /\ index[maker].side = opp
      /\ order[maker].quantity \in 1..MaxQuantity
  BY <1>1, LevelOrders
<1>5. /\ traded \in 1..MaxQuantity /\ traded <= call.remaining /\ traded <= order[maker].quantity
      /\ left \in 0..MaxQuantity /\ order[maker].quantity = left + traded
  <2>1. call.remaining \in Int /\ order[maker].quantity \in Int
    BY <1>1, <1>4, QtyAssumption
  <2>2. traded \in {call.remaining, order[maker].quantity} /\ traded <= call.remaining /\ traded <= order[maker].quantity
    BY <2>1, MinOfTwo
  <2> HIDE DEF traded
  <2>3. QED
    BY <1>1, <1>4, <2>2, QtyAssumption
<1>6. total \in Int
  BY <1>1, <1>3, <1>5, QtyAssumption DEF IInv, TypeOK
<1>7. /\ levelNow \in Seq(Id) /\ IsInjective(levelNow) /\ OrderedAs(levelNow, arrivals)
      /\ left = 0 => Range(levelNow) = Range(level) \ {maker}
      /\ left # 0 => levelNow = level
  <2>1. /\ Tail(level) \in Seq(Id) /\ IsInjective(Tail(level))
        /\ Range(Tail(level)) = Range(level) \ {maker}
        /\ OrderedAs(Tail(level), arrivals)
    BY <1>3, TailRange, LevelKeepsOrder
  <2> HIDE DEF left, level, maker
  <2>2. QED
    BY <1>3, <2>1
<1>8. /\ order'[maker].quantity = left
      /\ order'[maker].side = order[maker].side /\ order'[maker].price = order[maker].price
      /\ \A i \in Id \ {maker} : order'[i] = order[i]
  BY <1>2, <1>4 DEF IInv, TypeOK
<1>9. /\ call'.kind = call.kind /\ call'.side = call.side /\ call'.taker = call.taker
      /\ call'.limit = call.limit /\ call'.quantity = call.quantity
      /\ call'.remaining = call.remaining - traded
      /\ call'.fills = Append(call.fills, fill)
  BY <1>2 DEF IInv, TypeOK
<1> HIDE DEF price, level, maker, traded, left, levelNow, total
<1>10. /\ DOMAIN tree' = Side
       /\ \A r \in Side : /\ DOMAIN tree'[r] \subseteq DOMAIN tree[r]
                          /\ DOMAIN tree'[r] \subseteq Keys
                          /\ \A j \in DOMAIN tree'[r] : tree'[r][j] \in Seq(Id)
       /\ DOMAIN qtyMap' = Side
       /\ \A r \in Side : /\ DOMAIN qtyMap'[r] \subseteq 1..MaxPrice
                          /\ \A p \in DOMAIN qtyMap'[r] : qtyMap'[r][p] \in Int
       /\ PricesMatch' /\ NotCrossed'
  <2>1. qtyMap' = [qtyMap EXCEPT ![opp] = IF levelNow = <<>> THEN Drop(@, PriceOf(opp, key))
                                          ELSE Put(@, PriceOf(opp, key), total)]
    BY <1>2 DEF price, total
  <2>2. QED
    BY <1>1, <1>2, <1>6, <1>7, <2>1, LevelStep
<1>11. /\ \A r \in Side \ {opp} : tree'[r] = tree[r]
       /\ levelNow = <<>> => DOMAIN tree'[opp] = DOMAIN tree[opp] \ {key}
       /\ levelNow # <<>> => DOMAIN tree'[opp] = DOMAIN tree[opp] \union {key} /\ tree'[opp][key] = levelNow
       /\ \A j \in DOMAIN tree[opp] \ {key} : tree'[opp][j] = tree[opp][j]
  BY <1>1, <1>2, SetLevelFacts DEF IInv, TypeOK
<1>12. /\ left = 0 => DOMAIN index' = DOMAIN index \ {maker}
       /\ left # 0 => DOMAIN index' = DOMAIN index
       /\ \A i \in DOMAIN index' : index'[i] = index[i]
  <2>1. CASE left = 0
    <3>1. index' = Drop(index, maker)
      BY <1>2, <2>1
    <3> HIDE DEF maker, left
    <3>2. DOMAIN Drop(index, maker) = DOMAIN index \ {maker}
          /\ \A i \in DOMAIN index \ {maker} : Drop(index, maker)[i] = index[i]
      BY DropFacts
    <3>3. QED
      BY <2>1, <3>1, <3>2
  <2>2. CASE left # 0
    BY <1>2, <2>2
  <2>3. QED
    BY <2>1, <2>2
<1>13. Indexed(tree', index')
  <2>1. Typed(tree, index) /\ Indexed(tree, index)
    BY DEF IInv, TypeOK, IndexMatchesLevels, Typed
  <2>2. CASE left = 0
    <3>1. /\ index' = Drop(index, maker)
          /\ tree' = [tree EXCEPT ![index[maker].side] = SetLevel(@, index[maker].key, levelNow)]
          /\ Range(levelNow) = Range(tree[index[maker].side][index[maker].key]) \ {maker}
      BY <1>2, <1>4, <1>7, <2>2 DEF level
    <3>2. QED
      BY <1>4, <1>7, <2>1, <3>1, IndexedRemove
  <2>3. CASE left # 0
    <3>1. index' = index
      BY <1>2, <2>3
    <3>2. levelNow = tree[opp][key] /\ levelNow # <<>>
      BY <1>3, <1>7, <2>3 DEF level
    <3>3. /\ \A r \in Side : DOMAIN tree'[r] = DOMAIN tree[r]
          /\ \A r \in Side : \A j \in DOMAIN tree[r] : tree'[r][j] = tree[r][j]
      BY <1>1, <1>11, <3>2
    <3>4. \A i \in DOMAIN index : index[i].side \in Side
      BY DEF IInv, TypeOK
    <3>5. QED
      BY <2>1, <3>1, <3>3, <3>4 DEF Indexed
  <2>4. QED
    BY <2>2, <2>3
<1>14. /\ arrivals' \in Seq(Id) /\ IsInjective(arrivals')
       /\ left = 0 => Range(arrivals') = Range(arrivals) \ {maker}
       /\ left # 0 => arrivals' = arrivals
  BY <1>2, <1>4, RemoveFirstRange DEF IInv, TypeOK, ArrivalsMatch
<1>15. OrdersConserved'
  <2> SUFFICES ASSUME NEW i \in Id
               PROVE  submitted'[i] = executed'[i] + Outstanding(i)'
    BY DEF OrdersConserved
  <2>1. submitted[i] = executed[i] + Outstanding(i)
    BY DEF IInv, OrdersConserved
  <2>2. /\ executed[i] \in Int /\ order[i].quantity \in Int /\ call.remaining \in Int /\ traded \in Int
        /\ order[i].quantity = (order[i].quantity - traded) + traded
    BY <1>1, <1>5, QtyAssumption DEF IInv, TypeOK
  <2>3. submitted'[i] = submitted[i]
    BY <1>2
  <2>4. CASE i = maker
    <3>1. executed'[i] = executed[i] + traded
      BY <1>2, <2>4
    <3>2. Outstanding(i) = order[maker].quantity /\ Outstanding(i)' = left
      BY <1>1, <1>8, <1>9, <2>4 DEF Outstanding
    <3>3. QED
      BY <1>5, <2>1, <2>2, <2>3, <3>1, <3>2
  <2>5. CASE i # maker /\ i = call.taker
    <3>1. executed'[i] = executed[i] + traded
      BY <1>2, <2>5
    <3>2. call.kind = "limit"
      BY <1>1, <2>5, IdAssumption DEF IInv, TypeOK, FrameOK, Running
    <3>3. Outstanding(i) = call.remaining /\ Outstanding(i)' = call.remaining - traded
      BY <1>9, <2>5, <3>2 DEF Outstanding
    <3>4. QED
      BY <2>1, <2>2, <2>3, <3>1, <3>3
  <2>6. CASE i # maker /\ i # call.taker
    <3>1. executed'[i] = executed[i]
      BY <1>2, <2>6
    <3>2. Outstanding(i) = Outstanding(i)'
      BY <1>8, <1>9, <2>6 DEF Outstanding
    <3>3. QED
      BY <2>1, <2>3, <3>1, <3>2
  <2>7. QED
    BY <2>4, <2>5, <2>6
<1>16. order' \in [Id -> [side : Side, price : 0..MaxPrice, quantity : 0..MaxQuantity, status : Status]]
  <2> DEFINE status == IF left = 0 THEN "filled" ELSE "partial"
  <2>1. status \in Status
    BY DEF Status
  <2>2. order' = [order EXCEPT ![maker].quantity = left, ![maker].status = status]
    BY <1>2
  <2>3. order \in [Id -> [side : Side, price : 0..MaxPrice, quantity : 0..MaxQuantity, status : Status]]
    BY DEF IInv, TypeOK
  <2> HIDE DEF status
  <2>4. QED
    BY <1>4, <1>5, <2>1, <2>2, <2>3
<1>17. call' \in [kind : {"idle", "limit", "market"}, side : Side, taker : Id \union {NoOrder},
                  limit : 0..MaxPrice, quantity : 0..MaxQuantity, remaining : 0..MaxQuantity,
                  fills : Seq(Fill)]
  <2>1. call \in [kind : {"idle", "limit", "market"}, side : Side, taker : Id \union {NoOrder},
                  limit : 0..MaxPrice, quantity : 0..MaxQuantity, remaining : 0..MaxQuantity,
                  fills : Seq(Fill)]
    BY DEF IInv, TypeOK
  <2>2. fill \in Fill
    BY <1>3, <1>5, <2>1 DEF Fill
  <2> HIDE DEF fill
  <2>3. Append(call.fills, fill) \in Seq(Fill)
    BY <2>1, <2>2
  <2>4. call.remaining - traded \in 0..MaxQuantity
    BY <1>1, <1>5, QtyAssumption
  <2>5. QED
    BY <1>2, <2>1, <2>3, <2>4
<1>18. executed' \in [Id -> 0..MaxQuantity]
  <2> SUFFICES ASSUME NEW i \in Id
               PROVE  executed'[i] \in 0..MaxQuantity
    BY <1>2
  <2>1. executed'[i] \in Nat
    <3>1. executed[i] \in Nat /\ traded \in Nat
      BY <1>5, QtyAssumption DEF IInv, TypeOK
    <3>2. executed'[i] \in {executed[i], executed[i] + traded}
      BY <1>2
    <3>3. QED
      BY <3>1, <3>2
  <2>2. Outstanding(i)' \in Nat
    BY <1>16, <1>17, QtyAssumption DEF Outstanding
  <2>3. submitted'[i] \in 0..MaxQuantity /\ submitted'[i] = executed'[i] + Outstanding(i)'
    BY <1>2, <1>15 DEF IInv, TypeOK, OrdersConserved
  <2> HIDE DEF Outstanding
  <2>4. QED
    BY <2>1, <2>2, <2>3, QtyAssumption
<1>19. TypeOK'
  <2>1. DOMAIN index' \subseteq Id /\ \A i \in DOMAIN index' : index'[i] \in [key : Keys, side : Side]
    BY <1>12 DEF IInv, TypeOK
  <2>2. submitted' \in [Id -> 0..MaxQuantity]
    BY <1>2 DEF IInv, TypeOK
  <2>3. QED
    BY <1>10, <1>14, <1>16, <1>17, <1>18, <2>1, <2>2 DEF TypeOK
<1>20. IndexMatchesLevels'
  <2>1. ASSUME NEW i \in DOMAIN index'
        PROVE  /\ index'[i].side = order'[i].side
               /\ index'[i].key = Key(order'[i].side, order'[i].price)
               /\ order'[i].quantity > 0
    <3>1. i \in DOMAIN index /\ i \in Id /\ index'[i] = index[i]
      BY <1>12 DEF IInv, TypeOK
    <3>2. /\ index[i].side = order[i].side
          /\ index[i].key = Key(order[i].side, order[i].price)
          /\ order[i].quantity > 0
      BY <3>1 DEF IInv, IndexMatchesLevels
    <3>3. order'[i].side = order[i].side /\ order'[i].price = order[i].price
      BY <1>8, <3>1
    <3>4. order'[i].quantity > 0
      <4>1. CASE i = maker
        BY <1>5, <1>8, <1>12, <4>1
      <4>2. CASE i # maker
        BY <1>8, <3>1, <3>2, <4>2
      <4>3. QED
        BY <4>1, <4>2
    <3>5. QED
      BY <3>1, <3>2, <3>3, <3>4
  <2>2. QED
    BY <1>13, <2>1 DEF IndexMatchesLevels
<1>21. FrameOK'
  <2>1. call'.kind = "limit" =>
          /\ call'.taker \in Id \ DOMAIN index'
          /\ order'[call'.taker].side = call'.side
          /\ order'[call'.taker].price = call'.limit
          /\ call'.limit > 0
    BY <1>1, <1>8, <1>9, <1>12 DEF IInv, FrameOK
  <2>2. Running' /\ call'.quantity > 0 /\ call'.remaining <= call'.quantity
    BY <1>1, <1>5, <1>9, QtyAssumption DEF IInv, FrameOK, Running, TypeOK
  <2>3. call'.kind = "market" => call'.taker = NoOrder
    BY <1>9 DEF IInv, FrameOK
  <2>4. QED
    BY <2>1, <2>2, <2>3 DEF FrameOK
<1>22. ArrivalsMatch'
  <2>1. Range(arrivals') = DOMAIN index'
    BY <1>12, <1>14 DEF IInv, ArrivalsMatch
  <2>2. ASSUME NEW r \in Side, NEW j \in DOMAIN tree'[r]
        PROVE  OrderedAs(tree'[r][j], arrivals')
    <3>1. OrderedAs(tree'[r][j], arrivals)
      <4>1. CASE r = opp /\ j = key
        BY <1>7, <1>11, <4>1
      <4>2. CASE ~(r = opp /\ j = key)
        <5>1. j \in DOMAIN tree[r] /\ tree'[r][j] = tree[r][j]
          BY <1>1, <1>11, <4>2
        <5>2. QED
          BY <5>1 DEF IInv, ArrivalsMatch
      <4>3. QED
        BY <4>1, <4>2
    <3>2. CASE left # 0
      BY <1>14, <3>1, <3>2
    <3>3. CASE left = 0
      <4> SUFFICES ASSUME NEW a \in DOMAIN tree'[r][j], NEW b \in DOMAIN tree'[r][j], a < b
                   PROVE  Precedes(tree'[r][j][a], tree'[r][j][b], arrivals')
        BY DEF OrderedAs
      <4>1. Precedes(tree'[r][j][a], tree'[r][j][b], arrivals)
        BY <3>1 DEF OrderedAs
      <4>2. arrivals \in Seq(Id) /\ IsInjective(arrivals) /\ maker \in Range(arrivals)
        BY <1>4 DEF IInv, TypeOK, ArrivalsMatch
      <4>3. tree'[r][j][a] # maker /\ tree'[r][j][b] # maker
        <5>1. \A i \in Range(tree'[r][j]) : i \in DOMAIN index'
          BY <1>13 DEF Indexed
        <5>2. QED
          BY <1>12, <3>3, <5>1 DEF Range
      <4>4. arrivals' = RemoveFirst(arrivals, maker)
        BY <1>2, <3>3
      <4>5. QED
        BY <4>1, <4>2, <4>3, <4>4, RemoveKeepsOrder
    <3>4. QED
      BY <3>2, <3>3
  <2>3. QED
    BY <1>14, <2>1, <2>2 DEF ArrivalsMatch
<1>23. QED
  BY <1>10, <1>15, <1>19, <1>20, <1>21, <1>22 DEF IInv

\* When the loop ends with quantity left, every opposite price is beyond the limit.
LEMMA NothingToTake ==
  ASSUME IInv, call.kind = "limit", ~CanMatch, call.remaining > 0,
         NEW j \in DOMAIN tree[Opposite(call.side)]
  PROVE  /\ call.side = "bid" => PriceOf("ask", j) > call.limit
         /\ call.side = "ask" => PriceOf("bid", j) < call.limit
<1> DEFINE opp == Opposite(call.side)
           key == BestKey(opp)
<1>1. opp \in Side
  BY DEF Opposite, Side
<1>2. DOMAIN tree[opp] \in SUBSET Keys /\ DOMAIN tree[opp] # {}
  BY <1>1 DEF IInv, TypeOK
<1>3. ~WithinLimit(PriceOf(opp, key))
  BY <1>2 DEF CanMatch
<1>4. key \in DOMAIN tree[opp] /\ key <= j
  <2> HIDE DEF opp
  <2>1. j \in DOMAIN tree[opp]
    BY DEF opp
  <2>2. QED
    BY <1>2, <2>1, BestKeyFacts DEF BestKey
<1>5. key \in Int /\ j \in Int /\ call.limit \in Int
  BY <1>2, <1>4, PriceAssumption DEF Keys, IInv, TypeOK
<1> HIDE DEF key
<1>6. CASE call.side = "bid"
  <2>1. opp = "ask"
    BY <1>6 DEF Opposite
  <2>2. ~(key <= call.limit)
    BY <1>3, <1>6, <2>1 DEF WithinLimit, PriceOf
  <2>3. QED
    BY <1>4, <1>5, <1>6, <2>2 DEF PriceOf
<1>7. CASE call.side = "ask"
  <2>1. opp = "bid"
    BY <1>7 DEF Opposite
  <2>2. ~(-key >= call.limit)
    BY <1>3, <1>7, <2>1 DEF WithinLimit, PriceOf
  <2>3. QED
    BY <1>4, <1>5, <1>7, <2>2 DEF PriceOf
<1>8. QED
  BY <1>6, <1>7 DEF IInv, TypeOK, Side

\* The end of add_order keeps it: what is left of the taker rests.
LEMMA ReturnLimitIInv ==
  ASSUME IInv, ReturnLimit
  PROVE  IInv'
<1> DEFINE id == call.taker
           status == StatusAfter(call.remaining, call.quantity)
<1>1. /\ call.kind = "limit" /\ ~CanMatch /\ call' = IdleCall
      /\ order' = [order EXCEPT ![id].quantity = call.remaining, ![id].status = status]
      /\ submitted' = submitted /\ executed' = executed
  BY DEF ReturnLimit, Settle
<1>2. /\ id \in Id /\ id \notin DOMAIN index
      /\ order[id].side = call.side /\ order[id].price = call.limit /\ call.limit > 0
      /\ order[id].side \in Side /\ order[id].price \in 1..MaxPrice
      /\ call.remaining \in 0..MaxQuantity
  BY <1>1, PriceAssumption DEF IInv, FrameOK, TypeOK
<1>3. /\ order'[id].quantity = call.remaining
      /\ order'[id].side = order[id].side /\ order'[id].price = order[id].price
      /\ \A i \in Id \ {id} : order'[i] = order[i]
  BY <1>1, <1>2 DEF IInv, TypeOK
<1>4. order' \in [Id -> [side : Side, price : 0..MaxPrice, quantity : 0..MaxQuantity, status : Status]]
  <2>1. status \in Status
    BY DEF Status, StatusAfter
  <2>2. order \in [Id -> [side : Side, price : 0..MaxPrice, quantity : 0..MaxQuantity, status : Status]]
    BY DEF IInv, TypeOK
  <2> HIDE DEF status
  <2>3. QED
    BY <1>1, <1>2, <2>1, <2>2
<1> HIDE DEF status
<1>5. call' \in [kind : {"idle", "limit", "market"}, side : Side, taker : Id \union {NoOrder},
                 limit : 0..MaxPrice, quantity : 0..MaxQuantity, remaining : 0..MaxQuantity,
                 fills : Seq(Fill)]
  BY <1>1, EmptySeq, PriceAssumption, QtyAssumption DEF IdleCall, Side
<1>6. FrameOK'
  BY <1>1 DEF FrameOK, Running, IdleCall
<1>7. OrdersConserved'
  <2> SUFFICES ASSUME NEW i \in Id
               PROVE  submitted'[i] = executed'[i] + Outstanding(i)'
    BY DEF OrdersConserved
  <2>1. submitted[i] = executed[i] + Outstanding(i)
    BY DEF IInv, OrdersConserved
  <2>2. Outstanding(i)' = order'[i].quantity
    BY <1>1 DEF Outstanding, IdleCall
  <2>3. Outstanding(i) = order'[i].quantity
    BY <1>1, <1>3 DEF Outstanding
  <2>4. QED
    BY <1>1, <2>1, <2>2, <2>3
<1>8. \A i \in DOMAIN index : i \in Id /\ i # id /\ order'[i] = order[i]
  BY <1>2, <1>3 DEF IInv, TypeOK
<1>9. CASE call.remaining = 0
  <2>1. tree' = tree /\ qtyMap' = qtyMap /\ index' = index /\ arrivals' = arrivals
    BY <1>9 DEF ReturnLimit, Settle, book
  <2>2. TypeOK'
    BY <1>1, <1>4, <1>5, <2>1 DEF IInv, TypeOK
  <2>3. IndexMatchesLevels' /\ PricesMatch' /\ NotCrossed' /\ ArrivalsMatch'
    BY <1>8, <2>1 DEF IInv, IndexMatchesLevels, PricesMatch, NotCrossed, ArrivalsMatch
  <2>4. QED
    BY <1>6, <1>7, <2>2, <2>3 DEF IInv
<1>10. CASE call.remaining > 0
  <2> DEFINE s == order[id].side
             price == order[id].price
             key == Key(s, price)
             old == IF key \in DOMAIN tree[s] THEN tree[s][key] ELSE <<>>
             total == IF key \in DOMAIN tree[s] THEN qtyMap[s][price] ELSE 0
             entry == [key |-> key, side |-> s]
  <2>1. /\ tree' = [tree EXCEPT ![s] = Put(@, key, Append(old, id))]
        /\ qtyMap' = [qtyMap EXCEPT ![s] = Put(@, price, total + call.remaining)]
        /\ index' = Put(index, id, entry)
        /\ arrivals' = Append(arrivals, id)
    BY <1>10 DEF ReturnLimit, Settle, Rest, RestAt, LevelAt, TotalAt
  <2>2. s \in Side /\ price \in 1..MaxPrice /\ key \in Keys /\ PriceOf(s, key) = price
    BY <1>2, PriceAssumption DEF Key, Keys, PriceOf
  <2>3. /\ DOMAIN tree = Side /\ DOMAIN qtyMap = Side
        /\ \A r \in Side : DOMAIN tree[r] \subseteq Keys /\ \A j \in DOMAIN tree[r] : tree[r][j] \in Seq(Id)
        /\ \A r \in Side : DOMAIN qtyMap[r] \subseteq 1..MaxPrice /\ \A p \in DOMAIN qtyMap[r] : qtyMap[r][p] \in Int
        /\ Typed(tree, index) /\ Indexed(tree, index)
    BY DEF IInv, TypeOK, IndexMatchesLevels, Typed
  <2> HIDE DEF key, s, price
  <2>4. Indexed(tree', index') /\ old \in Seq(Id) /\ id \notin Range(old)
    BY <1>2, <2>1, <2>2, <2>3, IndexedAdd
  <2>5. /\ DOMAIN tree' = Side
        /\ \A r \in Side \ {s} : tree'[r] = tree[r]
        /\ DOMAIN tree'[s] = DOMAIN tree[s] \union {key}
        /\ tree'[s][key] = Append(old, id)
        /\ \A j \in DOMAIN tree[s] \ {key} : tree'[s][j] = tree[s][j]
    <3> HIDE DEF old
    <3>1. tree'[s] = Put(tree[s], key, Append(old, id)) /\ DOMAIN tree' = Side
      BY <2>1, <2>2, <2>3
    <3>2. \A r \in Side \ {s} : tree'[r] = tree[r]
      BY <2>1, <2>2, <2>3
    <3>3. QED
      BY <3>1, <3>2 DEF Put
  <2>6. /\ DOMAIN qtyMap' = Side
        /\ \A r \in Side \ {s} : qtyMap'[r] = qtyMap[r]
        /\ DOMAIN qtyMap'[s] = DOMAIN qtyMap[s] \union {price}
        /\ qtyMap'[s][price] = total + call.remaining
        /\ \A p \in DOMAIN qtyMap[s] \ {price} : qtyMap'[s][p] = qtyMap[s][p]
    <3> HIDE DEF total
    <3>1. qtyMap'[s] = Put(qtyMap[s], price, total + call.remaining) /\ DOMAIN qtyMap' = Side
      BY <2>1, <2>2, <2>3
    <3>2. \A r \in Side \ {s} : qtyMap'[r] = qtyMap[r]
      BY <2>1, <2>2, <2>3
    <3>3. QED
      BY <3>1, <3>2 DEF Put
  <2>7. total + call.remaining \in Int
    <3>1. key \in DOMAIN tree[s] => price \in DOMAIN qtyMap[s]
      BY <2>2 DEF IInv, PricesMatch
    <3>2. total \in Int
      BY <2>2, <2>3, <3>1
    <3>3. QED
      BY <1>2, <3>2, QtyAssumption
  <2>8. /\ DOMAIN index' = DOMAIN index \union {id}
        /\ index'[id] = entry
        /\ \A i \in DOMAIN index : index'[i] = index[i]
    <3> HIDE DEF entry
    <3>1. QED
      BY <1>2, <2>1 DEF Put
  <2>9. /\ arrivals' \in Seq(Id) /\ IsInjective(arrivals')
        /\ Range(arrivals') = Range(arrivals) \union {id}
    BY <1>2, <2>1, AppendRange DEF IInv, TypeOK, ArrivalsMatch
  <2>10. TypeOK'
    <3>1. \A r \in Side : DOMAIN tree'[r] \subseteq Keys /\ \A j \in DOMAIN tree'[r] : tree'[r][j] \in Seq(Id)
      <4>1. Append(old, id) \in Seq(Id)
        BY <1>2, <2>4
      <4> HIDE DEF old
      <4>2. QED
        BY <2>2, <2>3, <2>5, <4>1
    <3>2. \A r \in Side : DOMAIN qtyMap'[r] \subseteq 1..MaxPrice /\ \A p \in DOMAIN qtyMap'[r] : qtyMap'[r][p] \in Int
      <4> HIDE DEF total
      <4>1. QED
        BY <2>2, <2>3, <2>6, <2>7
    <3>3. DOMAIN index' \subseteq Id /\ \A i \in DOMAIN index' : index'[i] \in [key : Keys, side : Side]
      BY <1>2, <2>2, <2>8 DEF IInv, TypeOK
    <3>4. submitted' \in [Id -> 0..MaxQuantity] /\ executed' \in [Id -> 0..MaxQuantity]
      BY <1>1 DEF IInv, TypeOK
    <3>5. QED
      BY <1>4, <1>5, <2>5, <2>6, <2>9, <3>1, <3>2, <3>3, <3>4 DEF TypeOK
  <2>11. IndexMatchesLevels'
    <3>1. ASSUME NEW i \in DOMAIN index'
          PROVE  /\ index'[i].side = order'[i].side
                 /\ index'[i].key = Key(order'[i].side, order'[i].price)
                 /\ order'[i].quantity > 0
      <4>1. CASE i = id
        BY <1>3, <1>10, <2>8, <4>1 DEF s, key, price
      <4>2. CASE i # id
        BY <1>8, <2>8, <4>2 DEF IInv, IndexMatchesLevels
      <4>3. QED
        BY <4>1, <4>2
    <3>2. QED
      BY <2>4, <3>1 DEF IndexMatchesLevels
  <2>12. PricesMatch'
    <3>1. ASSUME NEW r \in Side \ {s}
          PROVE  DOMAIN qtyMap'[r] = {PriceOf(r, j) : j \in DOMAIN tree'[r]}
      BY <2>5, <2>6 DEF IInv, PricesMatch
    <3>2. DOMAIN qtyMap'[s] = {PriceOf(s, j) : j \in DOMAIN tree'[s]}
      <4>1. DOMAIN qtyMap[s] = {PriceOf(s, j) : j \in DOMAIN tree[s]}
        BY <2>2 DEF IInv, PricesMatch
      <4>2. QED
        BY <2>2, <2>5, <2>6, <4>1
    <3>3. QED
      BY <3>1, <3>2 DEF PricesMatch
  <2>13. NotCrossed'
    <3>0. s = call.side /\ price = call.limit
      BY <1>2 DEF s, price
    <3>1. CASE s = "bid"
      <4>1. tree'["ask"] = tree["ask"] /\ Opposite(call.side) = "ask"
        BY <2>5, <3>0, <3>1 DEF Side, Opposite
      <4>2. \A j \in DOMAIN tree["ask"] : PriceOf("ask", j) > price
        BY <1>1, <1>10, <3>0, <3>1, <4>1, NothingToTake
      <4>3. \A b \in DOMAIN tree'["bid"] : b \in DOMAIN tree["bid"] \/ PriceOf("bid", b) = price
        BY <2>2, <2>5, <3>1
      <4>4. QED
        BY <4>1, <4>2, <4>3 DEF IInv, NotCrossed
    <3>2. CASE s = "ask"
      <4>1. tree'["bid"] = tree["bid"] /\ Opposite(call.side) = "bid"
        BY <2>5, <3>0, <3>2 DEF Side, Opposite
      <4>2. \A j \in DOMAIN tree["bid"] : PriceOf("bid", j) < price
        BY <1>1, <1>10, <3>0, <3>2, <4>1, NothingToTake
      <4>3. \A a \in DOMAIN tree'["ask"] : a \in DOMAIN tree["ask"] \/ PriceOf("ask", a) = price
        BY <2>2, <2>5, <3>2
      <4>4. QED
        BY <4>1, <4>2, <4>3 DEF IInv, NotCrossed
    <3>3. QED
      BY <2>2, <3>1, <3>2 DEF Side
  <2>14. ArrivalsMatch'
    <3>1. arrivals \in Seq(Id) /\ Range(arrivals) = DOMAIN index
      BY DEF IInv, TypeOK, ArrivalsMatch
    <3>2. ASSUME NEW x, NEW y, Precedes(x, y, arrivals)
          PROVE  Precedes(x, y, arrivals')
      BY <1>2, <2>1, <3>1, <3>2, AppendKeepsOrder
    <3>3. ASSUME NEW r \in Side, NEW j \in DOMAIN tree[r]
          PROVE  OrderedAs(tree[r][j], arrivals')
      BY <3>2 DEF IInv, ArrivalsMatch, OrderedAs
    <3>4. OrderedAs(Append(old, id), arrivals')
      <4>1. /\ old \in Seq(Id)
            /\ OrderedAs(old, arrivals')
            /\ \A i \in DOMAIN old : old[i] \in Range(arrivals)
        <5>1. CASE key \in DOMAIN tree[s]
          <6>1. \A i \in Range(tree[s][key]) : i \in DOMAIN index
            BY <2>2, <2>3, <5>1 DEF Indexed
          <6>2. QED
            BY <2>2, <2>4, <3>1, <3>3, <5>1, <6>1 DEF Range
        <5>2. CASE key \notin DOMAIN tree[s]
          BY <5>2, EmptySeq DEF OrderedAs
        <5>3. QED
          BY <5>1, <5>2
      <4> HIDE DEF old
      <4>2. /\ Len(Append(old, id)) = Len(old) + 1 /\ Append(old, id) \in Seq(Id)
            /\ \A i \in 1..Len(old) : Append(old, id)[i] = old[i]
            /\ Append(old, id)[Len(old) + 1] = id
        BY <1>2, <4>1
      <4>3. ASSUME NEW a \in 1..Len(old) + 1, NEW b \in 1..Len(old) + 1, a < b
            PROVE  Precedes(Append(old, id)[a], Append(old, id)[b], arrivals')
        <5>1. a \in 1..Len(old)
          BY <4>1, <4>3
        <5>2. CASE b \in 1..Len(old)
          BY <4>1, <4>2, <4>3, <5>1, <5>2 DEF OrderedAs
        <5>3. CASE b = Len(old) + 1
          <6>1. Precedes(old[a], id, arrivals')
            BY <1>2, <2>1, <3>1, <4>1, <5>1, AppendKeepsOrder
          <6>2. QED
            BY <4>2, <5>1, <5>3, <6>1
        <5>4. QED
          BY <4>1, <5>2, <5>3
      <4>4. QED
        BY <4>2, <4>3 DEF OrderedAs
    <3>5. ASSUME NEW r \in Side, NEW j \in DOMAIN tree'[r]
          PROVE  OrderedAs(tree'[r][j], arrivals')
      <4> HIDE DEF old
      <4>1. CASE r = s /\ j = key
        BY <2>5, <3>4, <4>1
      <4>2. CASE ~(r = s /\ j = key)
        BY <2>5, <3>3, <4>2
      <4>3. QED
        BY <4>1, <4>2
    <3>6. Range(arrivals') = DOMAIN index'
      BY <2>8, <2>9, <3>1
    <3>7. QED
      BY <2>9, <3>5, <3>6 DEF ArrivalsMatch
  <2>15. QED
    BY <1>6, <1>7, <2>10, <2>11, <2>12, <2>13, <2>14 DEF IInv
<1>11. QED
  BY <1>2, <1>9, <1>10, QtyAssumption

-----------------------------------------------------------------------------
(***************************************************************************)
(* Every step keeps the invariant, and what follows from it.               *)
(***************************************************************************)

\* Every operation of the book, and a stuttering step, keeps the invariant.
LEMMA NextIInv ==
  ASSUME IInv, [Next]_vars
  PROVE  IInv'
<1>1. ASSUME NEW id \in Id, NEW side \in Side, NEW price \in 0..MaxPrice,
             NEW quantity \in 0..MaxQuantity, AddOrder(id, side, price, quantity)
      PROVE  IInv'
  BY <1>1, AddOrderIInv
<1>2. ASSUME NEW side \in Side, NEW quantity \in 0..MaxQuantity, MatchMarketOrder(side, quantity)
      PROVE  IInv'
  BY <1>2, MatchMarketOrderIInv
<1>3. CASE Consume
  BY <1>3, ConsumeIInv
<1>4. CASE ReturnLimit
  BY <1>4, ReturnLimitIInv
<1>5. CASE ReturnMarket
  BY <1>5, ReturnMarketIInv
<1>6. ASSUME NEW id \in Id, CancelOrder(id)
      PROVE  IInv'
  BY <1>6, CancelOrderIInv
<1>7. CASE UNCHANGED vars
  <2>1. UNCHANGED <<order, tree, qtyMap, index, call, arrivals, submitted, executed>>
    BY <1>7 DEF vars, book, history
  <2>2. TypeOK' /\ FrameOK'
    BY <2>1 DEF IInv, TypeOK, FrameOK, Running
  <2>3. IndexMatchesLevels' /\ PricesMatch' /\ NotCrossed'
    BY <2>1 DEF IInv, IndexMatchesLevels, PricesMatch, NotCrossed
  <2>4. OrdersConserved' /\ ArrivalsMatch'
    BY <2>1 DEF IInv, OrdersConserved, Outstanding, ArrivalsMatch
  <2>5. QED
    BY <2>2, <2>3, <2>4 DEF IInv
<1>8. QED
  BY <1>1, <1>2, <1>3, <1>4, <1>5, <1>6, <1>7 DEF Next

\* The strengthened invariant holds in every reachable state.
THEOREM InductiveInvariant == Spec => []IInv
<1>1. IInv /\ [Next]_vars => IInv'
  BY NextIInv
<1>2. QED
  BY <1>1, InitIInv, PTL DEF Spec

\* Every variable keeps its shape: no index, level or aggregate is ever keyed
\* by anything but a price of its side, and no quantity leaves its range.
THEOREM TypeCorrect == Spec => []TypeOK
<1>1. IInv => TypeOK
  BY DEF IInv
<1>2. QED
  BY <1>1, InductiveInvariant, PTL

\* The cancel index of orderbook.py leads to exactly the orders in its levels.
THEOREM IndexCorrect == Spec => []IndexMatchesLevels
<1>1. IInv => IndexMatchesLevels
  BY DEF IInv
<1>2. QED
  BY <1>1, InductiveInvariant, PTL

\* A book that only add_order, match_market_order and cancel_order touch is
\* never crossed, not even in the middle of a call.
THEOREM NeverCrossed == Spec => []NotCrossed
<1>1. IInv => NotCrossed
  BY DEF IInv
<1>2. QED
  BY <1>1, InductiveInvariant, PTL

\* What an order was submitted with is what it traded plus what is open.
THEOREM QuantityConserved == Spec => []OrdersConserved
<1>1. IInv => OrdersConserved
  BY DEF IInv
<1>2. QED
  BY <1>1, InductiveInvariant, PTL

\* Only an iteration of the matching loop makes a resting order trade, and the
\* order it makes trade is the first one of the best level.
LEMMA OnlyTheBestTrades ==
  ASSUME IInv, [Next]_vars, NEW m \in DOMAIN index, executed'[m] > executed[m]
  PROVE  LET opp == Opposite(call.side)
         IN  Running /\ CanMatch /\ m = Head(tree[opp][BestKey(opp)])
<1>1. m \in Id /\ executed \in [Id -> 0..MaxQuantity]
  BY DEF IInv, TypeOK
<1>2. executed'[m] # executed[m]
  BY <1>1, QtyAssumption
<1>3. ASSUME NEW id \in Id, NEW side \in Side, NEW price \in 0..MaxPrice,
             NEW quantity \in 0..MaxQuantity, AddOrder(id, side, price, quantity)
      PROVE  FALSE
  BY <1>1, <1>2, <1>3 DEF AddOrder
<1>4. Consume
  <2>1. CASE UNCHANGED vars
    BY <1>2, <2>1 DEF vars, history
  <2>2. CASE \E side \in Side, quantity \in 0..MaxQuantity : MatchMarketOrder(side, quantity)
    BY <1>2, <2>2 DEF MatchMarketOrder, history
  <2>3. CASE ReturnLimit
    BY <1>2, <2>3 DEF ReturnLimit, Settle
  <2>4. CASE ReturnMarket
    BY <1>2, <2>4 DEF ReturnMarket, history
  <2>5. CASE \E id \in Id : CancelOrder(id)
    BY <1>2, <2>5 DEF CancelOrder
  <2>6. QED
    BY <1>3, <2>1, <2>2, <2>3, <2>4, <2>5 DEF Next
<1> DEFINE opp == Opposite(call.side)
           maker == Head(tree[opp][BestKey(opp)])
<1>5. Running /\ CanMatch
  BY <1>4 DEF Consume
<1>6. m \in {maker, call.taker}
  <2>1. PICK traded : executed' = [id \in Id |-> IF id \in {maker, call.taker}
                                                THEN executed[id] + traded ELSE executed[id]]
    BY <1>4 DEF Consume
  <2>2. QED
    BY <1>1, <1>2, <2>1
<1>7. m # call.taker
  <2>1. call.kind \in {"limit", "market"}
    BY <1>5 DEF IInv, TypeOK, Running
  <2>2. QED
    BY <1>1, <2>1, IdAssumption DEF IInv, FrameOK
<1>8. QED
  BY <1>5, <1>6, <1>7

\* Of two orders the one that precedes the other in `arrivals` came first.
LEMMA PrecedesCame ==
  ASSUME IInv, NEW m, NEW o, Precedes(m, o, arrivals)
  PROVE  (CHOOSE i \in DOMAIN arrivals : arrivals[i] = m)
           < (CHOOSE i \in DOMAIN arrivals : arrivals[i] = o)
<1>1. IsInjective(arrivals) /\ arrivals \in Seq(Id)
  BY DEF IInv, ArrivalsMatch, TypeOK
<1>2. PICK a, b \in DOMAIN arrivals : a < b /\ arrivals[a] = m /\ arrivals[b] = o
  BY DEF Precedes
<1>3. \A i, j \in DOMAIN arrivals : arrivals[i] = arrivals[j] => i = j
  BY <1>1 DEF IsInjective
<1>4. (CHOOSE i \in DOMAIN arrivals : arrivals[i] = m) = a
  BY <1>2, <1>3
<1>5. (CHOOSE i \in DOMAIN arrivals : arrivals[i] = o) = b
  BY <1>2, <1>3
<1>6. QED
  BY <1>2, <1>4, <1>5

\* The first order of the best level has priority over the rest of its side.
LEMMA HeadHasPriority ==
  ASSUME IInv, Running, CanMatch, NEW o \in DOMAIN index,
         NEW m, m = Head(tree[Opposite(call.side)][BestKey(Opposite(call.side))]),
         o # m, order[o].side = order[m].side
  PROVE  HasPriority(m, o)
<1> DEFINE opp == Opposite(call.side)
           key == BestKey(opp)
<1>1. /\ opp \in Side /\ key \in DOMAIN tree[opp]
      /\ \A k \in DOMAIN tree[opp] : key <= k
      /\ m \in Range(tree[opp][key])
  BY MatchFacts
<1> HIDE DEF opp, key
<1>2. order[m].side = opp /\ order[m].price = PriceOf(opp, key)
  BY <1>1, LevelOrders
<1> DEFINE k == index[o].key
<1>3. /\ index[o].side = opp
      /\ k \in DOMAIN tree[opp]
      /\ o \in Range(tree[opp][k])
  BY <1>2 DEF IInv, IndexMatchesLevels, Indexed
<1> HIDE DEF k
<1>4. order[o].price = PriceOf(opp, k)
  BY <1>1, <1>3, LevelOrders
<1>5. key \in Int /\ k \in Int
  BY <1>1, <1>3, PriceAssumption DEF IInv, TypeOK, Keys
<1>6. CASE key # k
  <2>1. key < k
    BY <1>1, <1>3, <1>5, <1>6
  <2>2. QED
    BY <1>1, <1>2, <1>4, <1>5, <2>1 DEF HasPriority, PriceOf, Side
<1>7. CASE key = k
  <2>1. /\ tree[opp][key] \in Seq(Id) /\ tree[opp][key] # <<>>
        /\ OrderedAs(tree[opp][key], arrivals)
    BY <1>1, LevelFacts
  <2>2. 1 \in DOMAIN tree[opp][key] /\ tree[opp][key][1] = m
    BY <2>1 DEF opp, key
  <2>3. PICK j \in DOMAIN tree[opp][key] : tree[opp][key][j] = o
    BY <1>3, <1>7 DEF Range
  <2>4. 1 < j
    BY <2>1, <2>2, <2>3
  <2>5. Precedes(m, o, arrivals)
    BY <2>1, <2>2, <2>3, <2>4 DEF OrderedAs
  <2>6. QED
    BY <1>2, <1>4, <1>7, <2>5, PrecedesCame DEF HasPriority
<1>8. QED
  BY <1>6, <1>7

\* Price-time priority: a resting order trades only when no other resting order
\* of its side has a better price, or the same price and an earlier arrival.
THEOREM PriorityRespected == Spec => PriceTimePriority
<1> DEFINE A == \A m \in DOMAIN index :
                  executed'[m] > executed[m] =>
                    \A o \in DOMAIN index \ {m} :
                      order[o].side = order[m].side => HasPriority(m, o)
<1>1. ASSUME IInv, [Next]_vars
      PROVE  A
  <2>1. SUFFICES ASSUME NEW m \in DOMAIN index, executed'[m] > executed[m],
                        NEW o \in DOMAIN index \ {m}, order[o].side = order[m].side
                 PROVE  HasPriority(m, o)
    OBVIOUS
  <2>2. QED
    BY <1>1, <2>1, OnlyTheBestTrades, HeadHasPriority
<1>2. IInv /\ [Next]_vars => [A]_vars
  BY <1>1
<1> HIDE DEF A
<1>3. Spec => [][A]_vars
  BY <1>2, InductiveInvariant, PTL DEF Spec
<1>4. QED
  BY <1>3 DEF PriceTimePriority, A

-----------------------------------------------------------------------------
(***************************************************************************)
(* The book implements the linear-scan book of module ReferenceBook.       *)
(***************************************************************************)

\* The operators on lists are the same in the instantiated module.
LEMMA SameLists ==
  ASSUME NEW s, NEW x
  PROVE  /\ Ref!Others(s, x) = Others(s, x)
         /\ Ref!Contains(s, x) <=> x \in Range(s)
<1>1. Ref!Others(s, x) = Others(s, x)
  BY DEF Ref!Others, Others, Ref!FoldLeft, FoldLeft, Ref!MapThenFoldSet, MapThenFoldSet, Ref!Max, Max
<1>2. Ref!Contains(s, x) <=> x \in Range(s)
  BY DEF Ref!Contains, Range
<1>3. QED
  BY <1>1, <1>2

\* Removing a resting order from the list of arrivals is leaving it out.
LEMMA OutOfArrivals ==
  ASSUME IInv, NEW id \in DOMAIN index
  PROVE  /\ RemoveFirst(arrivals, id) = Ref!Others(arrivals, id)
         /\ Ref!Contains(arrivals, id)
<1>1. arrivals \in Seq(Id) /\ IsInjective(arrivals) /\ id \in Range(arrivals)
  BY DEF IInv, TypeOK, ArrivalsMatch
<1>2. PICK k \in 1..Len(arrivals) : arrivals[k] = id
  BY <1>1 DEF Range
<1>3. Others(arrivals, arrivals[k]) = RemoveFirst(arrivals, arrivals[k])
  BY <1>1, OthersIsRemoveFirst
<1>4. QED
  BY <1>1, <1>2, <1>3, SameLists

\* A side has a level exactly when the list has an order of that side.
LEMMA PositionsOfSide ==
  ASSUME IInv, NEW s \in Side
  PROVE  /\ Ref!Positions(s) = {i \in DOMAIN arrivals : index[arrivals[i]].side = s}
         /\ \A i \in Ref!Positions(s) :
              /\ arrivals[i] \in DOMAIN index
              /\ index[arrivals[i]].key \in DOMAIN tree[s]
              /\ arrivals[i] \in Range(tree[s][index[arrivals[i]].key])
         /\ Ref!Positions(s) = {} <=> DOMAIN tree[s] = {}
<1>1. \A i \in DOMAIN arrivals : arrivals[i] \in DOMAIN index
  BY DEF IInv, ArrivalsMatch, Range
<1>2. Ref!Positions(s) = {i \in DOMAIN arrivals : index[arrivals[i]].side = s}
  BY <1>1 DEF Ref!Positions, IInv, IndexMatchesLevels
<1>3. \A i \in Ref!Positions(s) :
        /\ arrivals[i] \in DOMAIN index
        /\ index[arrivals[i]].key \in DOMAIN tree[s]
        /\ arrivals[i] \in Range(tree[s][index[arrivals[i]].key])
  BY <1>1, <1>2 DEF IInv, IndexMatchesLevels, Indexed
<1>4. ASSUME NEW k \in DOMAIN tree[s]
      PROVE  Ref!Positions(s) # {}
  <2>1. tree[s][k] \in Seq(Id) /\ tree[s][k] # <<>>
    BY LevelFacts
  <2>2. PICK id \in Range(tree[s][k]) : TRUE
    <3>1. 1 \in DOMAIN tree[s][k]
      BY <2>1
    <3>2. QED
      BY <3>1 DEF Range
  <2>3. id \in DOMAIN index /\ index[id].side = s
    BY <2>2, LevelOrders
  <2>4. id \in Range(arrivals)
    BY <2>3 DEF IInv, ArrivalsMatch
  <2>5. QED
    BY <1>2, <2>3, <2>4 DEF Range
<1>5. QED
  BY <1>2, <1>3, <1>4

\* The first order of the best level is the one the scan over all resting orders
\* finds: no order of its side has a better price, and none with its price came
\* before it.
LEMMA ScanFindsHead ==
  ASSUME IInv, NEW s \in Side, DOMAIN tree[s] # {}
  PROVE  /\ BestKey(s) \in DOMAIN tree[s]
         /\ Head(tree[s][BestKey(s)]) \in Range(tree[s][BestKey(s)])
         /\ Ref!Best(s) = Head(tree[s][BestKey(s)])
<1> DEFINE key == BestKey(s)
           m == Head(tree[s][key])
           top == {i \in Ref!Positions(s) : \A j \in Ref!Positions(s) :
                     ~Ref!Better(s, order[arrivals[j]].price, order[arrivals[i]].price)}
<1>1. key \in DOMAIN tree[s] /\ \A k \in DOMAIN tree[s] : key <= k
  BY BestKeyFacts DEF IInv, TypeOK, BestKey
<1> HIDE DEF key
<1>2. /\ tree[s][key] \in Seq(Id) /\ tree[s][key] # <<>>
      /\ OrderedAs(tree[s][key], arrivals)
  BY <1>1, LevelFacts
<1>3. 1 \in DOMAIN tree[s][key] /\ tree[s][key][1] = m
  BY <1>2
<1>4. m \in Range(tree[s][key])
  BY <1>3 DEF Range
<1> HIDE DEF m
<1>5. m \in DOMAIN index /\ index[m].side = s /\ order[m].price = PriceOf(s, key)
  BY <1>1, <1>4, LevelOrders
<1>6. PICK p \in DOMAIN arrivals : arrivals[p] = m
  BY <1>5 DEF IInv, ArrivalsMatch, Range
<1>7. p \in Ref!Positions(s)
  BY <1>5, <1>6, PositionsOfSide
<1>8. ASSUME NEW i \in Ref!Positions(s)
      PROVE  /\ ~Ref!Better(s, order[arrivals[i]].price, order[m].price)
             /\ ~Ref!Better(s, order[m].price, order[arrivals[i]].price) => p <= i
  <2> DEFINE o == arrivals[i]
             k == index[o].key
  <2>1. o \in DOMAIN index /\ k \in DOMAIN tree[s] /\ o \in Range(tree[s][k])
    BY PositionsOfSide
  <2>2. i \in DOMAIN arrivals
    BY PositionsOfSide
  <2> HIDE DEF o, k
  <2>3. order[o].price = PriceOf(s, k)
    BY <2>1, LevelOrders
  <2>4. key \in Int /\ k \in Int /\ key <= k
    BY <1>1, <2>1, PriceAssumption DEF IInv, TypeOK, Keys
  <2>5. ~Ref!Better(s, order[o].price, order[m].price)
    BY <1>5, <2>3, <2>4 DEF Ref!Better, PriceOf, Side
  <2>6. ASSUME ~Ref!Better(s, order[m].price, order[o].price)
        PROVE  p <= i
    <3>1. k = key
      BY <1>5, <2>3, <2>4, <2>6 DEF Ref!Better, PriceOf, Side
    <3>2. PICK j \in DOMAIN tree[s][key] : tree[s][key][j] = o
      BY <2>1, <3>1 DEF Range
    <3>3. arrivals \in Seq(Id) /\ IsInjective(arrivals)
      BY DEF IInv, TypeOK, ArrivalsMatch
    <3>4. CASE j = 1
      <4>1. arrivals[i] = arrivals[p]
        BY <1>3, <1>6, <3>2, <3>4 DEF o
      <4>2. i = p
        BY <2>2, <3>3, <4>1 DEF IsInjective
      <4>3. QED
        BY <3>3, <4>2
    <3>5. CASE j # 1
      <4>1. 1 < j
        BY <1>2, <3>2, <3>5
      <4>2. Precedes(m, o, arrivals)
        BY <1>2, <1>3, <3>2, <4>1 DEF OrderedAs
      <4>3. PICK a, b \in DOMAIN arrivals : a < b /\ arrivals[a] = m /\ arrivals[b] = o
        BY <4>2 DEF Precedes
      <4>4. a = p /\ b = i
        BY <1>6, <2>2, <3>3, <4>3 DEF IsInjective, o
      <4>5. QED
        BY <3>3, <4>3, <4>4
    <3>6. QED
      BY <3>4, <3>5
  <2>7. QED
    BY <2>5, <2>6 DEF o
<1>9. p \in top
  BY <1>6, <1>7, <1>8
<1>10. \A i \in top : p <= i
  BY <1>6, <1>7, <1>8
<1>11. top \subseteq DOMAIN arrivals /\ arrivals \in Seq(Id)
  BY PositionsOfSide DEF IInv, TypeOK
<1> HIDE DEF top
<1>12. Ref!Min(top) = p
  <2>1. \A i \in top : i \in Int
    BY <1>11
  <2>2. \A i \in top : (\A j \in top : i <= j) => i = p
    BY <1>9, <1>10, <2>1
  <2>3. QED
    BY <1>9, <1>10, <2>2 DEF Ref!Min
<1>13. Ref!Best(s) = m
  BY <1>6, <1>12 DEF Ref!Best, top
<1>14. QED
  BY <1>1, <1>4, <1>13 DEF key, m

\* The two loops go on under the same condition.
LEMMA SameCondition ==
  ASSUME IInv, Running
  PROVE  Ref!CanMatch <=> CanMatch
<1> DEFINE opp == Opposite(call.side)
<1>1. opp \in Side /\ Ref!Opposite(call.side) = opp
  BY DEF Opposite, Ref!Opposite, Side
<1> HIDE DEF opp
<1>2. Ref!Positions(opp) = {} <=> DOMAIN tree[opp] = {}
  BY <1>1, PositionsOfSide
<1>3. ASSUME DOMAIN tree[opp] # {}
      PROVE  order[Ref!Best(opp)].price = PriceOf(opp, BestKey(opp))
  <2>1. /\ BestKey(opp) \in DOMAIN tree[opp]
        /\ Ref!Best(opp) \in Range(tree[opp][BestKey(opp)])
    BY <1>1, <1>3, ScanFindsHead
  <2>2. QED
    BY <1>1, <2>1, LevelOrders
<1>4. ASSUME NEW price
      PROVE  Ref!WithinLimit(price) <=> WithinLimit(price)
  BY DEF Ref!WithinLimit, WithinLimit
<1>5. QED
  BY <1>1, <1>2, <1>3, <1>4 DEF CanMatch, Ref!CanMatch, opp

\* An iteration of the loop: the same maker, the same fill, the same order left out.
LEMMA ConsumeRefines ==
  ASSUME IInv, Consume
  PROVE  Ref!Consume
<1> DEFINE opp == Opposite(call.side)
           key == BestKey(opp)
           maker == Head(tree[opp][key])
           traded == Min({call.remaining, order[maker].quantity})
           left == order[maker].quantity - traded
<1>1. Running /\ CanMatch
  BY DEF Consume
<1>2. opp \in Side /\ Ref!Opposite(call.side) = opp /\ DOMAIN tree[opp] # {}
  BY <1>1 DEF Opposite, Ref!Opposite, Side, CanMatch
<1>3. /\ order' = [order EXCEPT ![maker].quantity = left,
                                ![maker].status = IF left = 0 THEN "filled" ELSE "partial"]
      /\ call' = [call EXCEPT !.remaining = @ - traded,
                              !.fills = Append(@, [order_id |-> call.taker, price |-> PriceOf(opp, key),
                                                   quantity |-> traded, side |-> call.side])]
      /\ arrivals' = IF left = 0 THEN RemoveFirst(arrivals, maker) ELSE arrivals
  BY DEF Consume
<1>4. key \in DOMAIN tree[opp] /\ maker \in Range(tree[opp][key]) /\ Ref!Best(opp) = maker
  BY <1>2, ScanFindsHead
<1> HIDE DEF opp, key
<1> HIDE DEF maker
<1>5. maker \in DOMAIN index /\ order[maker].price = PriceOf(opp, key)
  BY <1>2, <1>4, LevelOrders
<1>6. RemoveFirst(arrivals, maker) = Ref!Others(arrivals, maker)
  BY <1>5, OutOfArrivals
<1>7. traded = Ref!Min({call.remaining, order[maker].quantity})
  BY DEF Ref!Min, Min
<1>8. Ref!Running /\ Ref!CanMatch
  BY <1>1, SameCondition DEF Running, Ref!Running
<1> HIDE DEF traded
<1>9. QED
  BY <1>2, <1>3, <1>4, <1>5, <1>6, <1>7, <1>8 DEF Ref!Consume

\* The return of add_order: what is left rests last in both.
LEMMA ReturnLimitRefines ==
  ASSUME IInv, ReturnLimit
  PROVE  Ref!ReturnLimit
<1>1. call.kind = "limit" /\ ~CanMatch /\ Running
  BY DEF ReturnLimit, Running
<1>2. ~Ref!CanMatch
  BY <1>1, SameCondition
<1>3. /\ order' = [order EXCEPT ![call.taker].quantity = call.remaining,
                                ![call.taker].status = IF call.remaining = 0 THEN "filled"
                                                       ELSE IF call.remaining < call.quantity THEN "partial"
                                                       ELSE "open"]
      /\ call' = Ref!IdleCall
  BY DEF ReturnLimit, Settle, StatusAfter, IdleCall, Ref!IdleCall
<1>4. arrivals' = IF call.remaining = 0 THEN arrivals ELSE Append(arrivals, call.taker)
  BY DEF ReturnLimit, Settle, Rest, RestAt
<1>5. QED
  BY <1>1, <1>2, <1>3, <1>4 DEF Ref!ReturnLimit

\* Every step of the indexed book is a step of the linear-scan book.
LEMMA NextRefines ==
  ASSUME IInv, [Next]_vars
  PROVE  [Ref!Next]_(Ref!vars)
<1>1. ASSUME NEW id \in Id, NEW side \in Side, NEW price \in 0..MaxPrice,
             NEW quantity \in 0..MaxQuantity, AddOrder(id, side, price, quantity)
      PROVE  Ref!Next
  <2>1. Ref!AddOrder(id, side, price, quantity)
    <3>1. ~Ref!Contains(arrivals, id)
      BY <1>1, SameLists DEF AddOrder, IInv, ArrivalsMatch
    <3>2. QED
      BY <1>1, <3>1 DEF AddOrder, Ref!AddOrder, Ref!Running, Running, NewCall, Ref!NewCall
  <2>2. price \in 1..MaxPrice /\ quantity \in 1..MaxQuantity
    BY <1>1, PriceAssumption, QtyAssumption DEF AddOrder
  <2>3. QED
    BY <2>1, <2>2 DEF Ref!Next, Ref!Side, Side
<1>2. ASSUME NEW side \in Side, NEW quantity \in 0..MaxQuantity, MatchMarketOrder(side, quantity)
      PROVE  Ref!Next
  <2>1. Ref!MatchMarketOrder(side, quantity)
    BY <1>2 DEF MatchMarketOrder, Ref!MatchMarketOrder, Ref!Running, Running, NewCall, Ref!NewCall,
                history
  <2>2. QED
    BY <2>1 DEF Ref!Next, Ref!Side, Side
<1>3. CASE Consume
  BY <1>3, ConsumeRefines DEF Ref!Next
<1>4. CASE ReturnLimit
  BY <1>4, ReturnLimitRefines DEF Ref!Next
<1>5. CASE ReturnMarket
  <2>1. ~Ref!CanMatch
    BY <1>5, SameCondition DEF ReturnMarket, Running
  <2>2. Ref!ReturnMarket
    BY <1>5, <2>1 DEF ReturnMarket, Ref!ReturnMarket, IdleCall, Ref!IdleCall, history
  <2>3. QED
    BY <2>2 DEF Ref!Next
<1>6. ASSUME NEW id \in Id, CancelOrder(id)
      PROVE  Ref!Next
  <2>1. id \in DOMAIN index
    BY <1>6 DEF CancelOrder
  <2>2. Ref!CancelOrder(id)
    BY <1>6, <2>1, OutOfArrivals DEF CancelOrder, Ref!CancelOrder, Ref!Running, Running
  <2>3. QED
    BY <2>2 DEF Ref!Next
<1>7. CASE UNCHANGED vars
  BY <1>7 DEF vars, history, Ref!vars
<1>8. QED
  BY <1>1, <1>2, <1>3, <1>4, <1>5, <1>6, <1>7 DEF Next

\* The indexed book does, step by step, what the linear-scan book does: the same
\* fills, order objects and resting orders in the same order.  This is what the
\* repository's fuzzers compare the two engines for.
THEOREM ReferenceImplemented == Spec => ImplementsReference
<1>1. Init => Ref!Init
  BY DEF Ref!Init, Init, Ref!Unsent, Unsent, Ref!IdleCall, IdleCall
<1>2. IInv /\ [Next]_vars => [Ref!Next]_(Ref!vars)
  BY NextRefines
<1>3. QED
  BY <1>1, <1>2, InductiveInvariant, PTL DEF Spec, ImplementsReference, Ref!Spec

-----------------------------------------------------------------------------
(***************************************************************************)
(* Quantities: aggregates, fills, statuses.                                *)
(***************************************************************************)

\* Orders have numbers as quantities, and so have fills.
LEMMA QuantitiesType ==
  ASSUME TypeOK
  PROVE  /\ Quantities \in [Id -> Int]
         /\ \A id \in Id : Quantities[id] = order[id].quantity
<1>1. \A id \in Id : order[id].quantity \in 0..MaxQuantity
  BY DEF TypeOK
<1>2. \A n \in 0..MaxQuantity : n \in Int
  BY QtyAssumption
<1>3. QED
  BY <1>1, <1>2 DEF Quantities

\* The same after a step.
LEMMA QuantitiesTypeNext ==
  ASSUME TypeOK'
  PROVE  /\ Quantities' \in [Id -> Int]
         /\ \A id \in Id : Quantities'[id] = order'[id].quantity
<1>1. \A id \in Id : order'[id].quantity \in 0..MaxQuantity
  BY DEF TypeOK
<1>2. \A n \in 0..MaxQuantity : n \in Int
  BY QtyAssumption
<1>3. QED
  BY <1>1, <1>2 DEF Quantities

\* An order that is not in a level does not count for its aggregate.
LEMMA LevelUntouched ==
  ASSUME IInv, TypeOK', NEW id, \A i \in Id \ {id} : order'[i].quantity = order[i].quantity,
         NEW s \in Side, NEW k \in DOMAIN tree[s], id \notin Range(tree[s][k])
  PROVE  Total(Quantities', tree[s][k]) = Total(Quantities, tree[s][k])
<1> DEFINE w == Quantities
           v == Quantities'
           level == tree[s][k]
<1>1. w \in [Id -> Int] /\ v \in [Id -> Int]
  BY QuantitiesType, QuantitiesTypeNext DEF IInv
<1>2. level \in Seq(Id)
  BY LevelFacts
<1>3. \A i \in 1..Len(level) : level[i] \in Id /\ level[i] # id
  BY <1>2 DEF Range
<1>4. \A i \in Id \ {id} : v[i] = w[i]
  BY DEF Quantities
<1> HIDE DEF w, v, level
<1>5. \A i \in 1..Len(level) : v[level[i]] = w[level[i]]
  BY <1>3, <1>4
<1>6. Total(v, level) = Total(w, level)
  BY <1>1, <1>2, <1>5, TotalOfSame
<1>7. QED
  BY <1>6 DEF w, v, level

\* A level and its aggregate replaced together: the aggregates are exact again
\* when the new one is and no other level's total changed.
LEMMA AggregateStep ==
  ASSUME IInv, AggregatesExact, PricesMatch', NEW s \in Side, NEW k \in Keys, NEW level, NEW total,
         tree' = [tree EXCEPT ![s] = SetLevel(@, k, level)],
         qtyMap' = [qtyMap EXCEPT ![s] = IF level = <<>> THEN Drop(@, PriceOf(s, k))
                                         ELSE Put(@, PriceOf(s, k), total)],
         level # <<>> => total = Total(Quantities', level),
         \A r \in Side : \A j \in DOMAIN tree[r] :
           r # s \/ j # k => Total(Quantities', tree[r][j]) = Total(Quantities, tree[r][j])
  PROVE  AggregatesExact'
<1> SUFFICES ASSUME NEW r \in Side, NEW j \in DOMAIN tree'[r]
             PROVE  qtyMap'[r][PriceOf(r, j)] = Total(Quantities', tree'[r][j])
  BY DEF AggregatesExact, PricesMatch
<1>1. DOMAIN tree = Side /\ DOMAIN qtyMap = Side
  BY DEF IInv, TypeOK
<1> DEFINE u == [tree EXCEPT ![s] = SetLevel(@, k, level)]
<1>2. tree' = u
  OBVIOUS
<1>3. /\ DOMAIN u = Side
      /\ \A t \in Side \ {s} : u[t] = tree[t]
      /\ level = <<>> => DOMAIN u[s] = DOMAIN tree[s] \ {k}
      /\ level # <<>> => DOMAIN u[s] = DOMAIN tree[s] \union {k} /\ u[s][k] = level
      /\ \A i \in DOMAIN tree[s] \ {k} : u[s][i] = tree[s][i]
  BY <1>1, SetLevelFacts
<1> HIDE DEF u
<1>4. CASE r = s /\ j = k
  <2>1. level # <<>> /\ tree'[s][k] = level
    BY <1>2, <1>3, <1>4
  <2>2. qtyMap'[s] = Put(qtyMap[s], PriceOf(s, k), total)
    BY <1>1, <2>1
  <2>3. qtyMap'[s][PriceOf(s, k)] = total
    BY <2>2, PutFacts
  <2>4. QED
    BY <1>4, <2>1, <2>3
<1>5. CASE ~(r = s /\ j = k)
  <2>1. j \in DOMAIN tree[r] /\ tree'[r][j] = tree[r][j]
    BY <1>2, <1>3, <1>5
  <2>2. qtyMap[r][PriceOf(r, j)] = Total(Quantities, tree[r][j])
    BY <2>1 DEF AggregatesExact
  <2>3. Total(Quantities', tree[r][j]) = Total(Quantities, tree[r][j])
    BY <1>5, <2>1
  <2>4. qtyMap'[r][PriceOf(r, j)] = qtyMap[r][PriceOf(r, j)]
    <3>1. CASE r # s
      BY <1>1, <3>1
    <3>2. CASE r = s
      <4>1. j \in Keys
        BY <2>1 DEF IInv, TypeOK
      <4>2. PriceOf(s, j) # PriceOf(s, k)
        BY <1>5, <3>2, <4>1, PricesDiffer
      <4>3. PriceOf(s, j) \in DOMAIN qtyMap[s]
        BY <2>1, <3>2, LevelFacts
      <4>4. \/ qtyMap'[s] = Drop(qtyMap[s], PriceOf(s, k))
            \/ qtyMap'[s] = Put(qtyMap[s], PriceOf(s, k), total)
        BY <1>1
      <4>5. PriceOf(s, j) \in DOMAIN qtyMap[s] \ {PriceOf(s, k)}
        BY <4>2, <4>3
      <4>6. qtyMap'[s][PriceOf(s, j)] = qtyMap[s][PriceOf(s, j)]
        BY <4>4, <4>5, PutFacts, DropFacts
      <4>7. QED
        BY <3>2, <4>6
    <3>3. QED
      BY <3>1, <3>2
  <2>5. QED
    BY <2>1, <2>2, <2>3, <2>4
<1>6. QED
  BY <1>4, <1>5

\* A step that leaves the book alone and changes no resting order's quantity.
LEMMA BookUntouched ==
  ASSUME IInv, AggregatesExact, TypeOK', tree' = tree, qtyMap' = qtyMap,
         NEW id, id \notin DOMAIN index, \A i \in Id \ {id} : order'[i].quantity = order[i].quantity
  PROVE  AggregatesExact'
<1>1. ASSUME NEW s \in Side, NEW k \in DOMAIN tree[s]
      PROVE  Total(Quantities', tree[s][k]) = Total(Quantities, tree[s][k])
  <2>1. id \notin Range(tree[s][k])
    BY LevelOrders
  <2>2. QED
    BY <2>1, LevelUntouched
<1>2. QED
  BY <1>1 DEF AggregatesExact

\* What one iteration of the matching loop does, as the proofs below use it.
LEMMA ConsumeFacts ==
  ASSUME IInv, Consume
  PROVE  LET opp == Opposite(call.side)
             key == BestKey(opp)
             level == tree[opp][key]
             maker == Head(level)
             traded == Min({call.remaining, order[maker].quantity})
             left == order[maker].quantity - traded
         IN  /\ opp \in Side /\ key \in DOMAIN tree[opp] /\ key \in Keys
             /\ \A k \in DOMAIN tree[opp] : key <= k
             /\ WithinLimit(PriceOf(opp, key))
             /\ level \in Seq(Id) /\ level # <<>> /\ IsInjective(level) /\ maker = level[1]
             /\ maker \in Range(level) /\ maker \in DOMAIN index /\ maker \in Id /\ maker # call.taker
             /\ index[maker] = [key |-> key, side |-> opp]
             /\ Running /\ call.remaining \in 1..MaxQuantity
             /\ traded \in 1..MaxQuantity /\ left \in 0..MaxQuantity
             /\ order[maker].quantity = left + traded
<1> DEFINE opp == Opposite(call.side)
           key == BestKey(opp)
           level == tree[opp][key]
           maker == Head(level)
           traded == Min({call.remaining, order[maker].quantity})
           left == order[maker].quantity - traded
<1>1. /\ opp \in Side /\ key \in DOMAIN tree[opp]
      /\ \A k \in DOMAIN tree[opp] : key <= k
      /\ maker \in Range(level) /\ maker # call.taker
      /\ call.remaining \in 1..MaxQuantity
      /\ WithinLimit(PriceOf(opp, key))
      /\ Running
  BY MatchFacts DEF Consume
<1> HIDE DEF opp, key
<1>2. key \in Keys /\ level \in Seq(Id) /\ level # <<>> /\ IsInjective(level)
  BY <1>1, LevelFacts
<1>3. maker = level[1]
  BY <1>2
<1>4. /\ maker \in DOMAIN index /\ maker \in Id
      /\ order[maker].quantity \in 1..MaxQuantity
  BY <1>1, LevelOrders
<1>5. index[maker] = [key |-> key, side |-> opp]
  BY <1>1 DEF IInv, IndexMatchesLevels, Indexed
<1>6. /\ traded \in 1..MaxQuantity /\ left \in 0..MaxQuantity /\ order[maker].quantity = left + traded
  <2>1. call.remaining \in Int /\ order[maker].quantity \in Int
    BY <1>1, <1>4, QtyAssumption
  <2>2. traded \in {call.remaining, order[maker].quantity} /\ traded <= call.remaining /\ traded <= order[maker].quantity
    BY <2>1, MinOfTwo
  <2> HIDE DEF traded
  <2>3. QED
    BY <1>1, <1>4, <2>2, QtyAssumption
<1>7. QED
  BY <1>1, <1>2, <1>3, <1>4, <1>5, <1>6 DEF opp, key

\* The aggregates after an iteration of the loop.
LEMMA ConsumeAggregates ==
  ASSUME IInv, IInv', AggregatesExact, Consume
  PROVE  AggregatesExact'
<1> DEFINE opp == Opposite(call.side)
           key == BestKey(opp)
           price == PriceOf(opp, key)
           level == tree[opp][key]
           maker == Head(level)
           traded == Min({call.remaining, order[maker].quantity})
           left == order[maker].quantity - traded
           levelNow == IF left = 0 THEN Tail(level) ELSE level
           total == qtyMap[opp][price] - traded
           w == Quantities
           v == Quantities'
<1>1. /\ opp \in Side /\ key \in DOMAIN tree[opp] /\ key \in Keys
      /\ level \in Seq(Id) /\ level # <<>> /\ IsInjective(level) /\ maker = level[1]
      /\ maker \in DOMAIN index /\ maker \in Id /\ index[maker] = [key |-> key, side |-> opp]
      /\ traded \in 1..MaxQuantity /\ left \in 0..MaxQuantity
      /\ order[maker].quantity = left + traded
  BY ConsumeFacts
<1>2. /\ tree' = [tree EXCEPT ![opp] = SetLevel(@, key, levelNow)]
      /\ qtyMap' = [qtyMap EXCEPT ![opp] = IF levelNow = <<>> THEN Drop(@, price)
                                           ELSE Put(@, price, @[price] - traded)]
      /\ order' = [order EXCEPT ![maker].quantity = left,
                                ![maker].status = IF left = 0 THEN "filled" ELSE "partial"]
  BY DEF Consume
<1> HIDE DEF opp, key
<1>3. order'[maker].quantity = left /\ \A i \in Id \ {maker} : order'[i].quantity = order[i].quantity
  <2> HIDE DEF left, maker
  <2>1. QED
    BY <1>1, <1>2 DEF IInv, TypeOK
<1>4. qtyMap[opp][price] = Total(w, level)
  BY <1>1 DEF AggregatesExact
<1>5. w \in [Id -> Int] /\ v \in [Id -> Int] /\ w[maker] = left + traded /\ v[maker] = left
      /\ \A i \in Id \ {maker} : v[i] = w[i]
  <2>1. TypeOK /\ TypeOK'
    BY DEF IInv
  <2> HIDE DEF left, traded, maker
  <2>2. QED
    BY <1>1, <1>3, <2>1, QuantitiesType, QuantitiesTypeNext
<1>6. levelNow # <<>> => total = Total(v, levelNow)
  <2> HIDE DEF w, v, level, maker, traded, left
  <2>0. 1 \in 1..Len(level) /\ level \in Seq(Id)
    BY <1>1
  <2>1. Total(w, level) \in Int /\ left \in Int /\ traded \in Int
    BY <1>1, <1>5, TotalType, QtyAssumption
  <2>2. CASE left # 0
    <3>1. Total(v, level) = Total(w, level) - w[level[1]] + v[level[1]]
      <4> DEFINE one == 1
      <4>1. one \in 1..Len(level) /\ level[one] = maker
        BY <1>1, <2>0
      <4> HIDE DEF one
      <4>2. AlikeBut(w, v, level, one)
        BY <1>1, <1>5, <4>1 DEF AlikeBut, IsInjective
      <4>3. Total(v, level) = Total(w, level) - w[level[one]] + v[level[one]]
        <5>1. level \in Seq(Id) /\ IsInjective(level) /\ w \in [Id -> Int] /\ v \in [Id -> Int]
          BY <1>1, <1>5
        <5>2. QED
          BY <4>1, <4>2, <5>1, TotalOfChange
      <4>4. QED
        BY <4>3 DEF one
    <3>2. Total(v, level) = Total(w, level) - traded
      BY <1>1, <1>5, <2>1, <3>1
    <3>3. QED
      BY <1>4, <2>2, <3>2
  <2>3. CASE left = 0
    <3> DEFINE r == Tail(level)
    <3>1. /\ r \in Seq(Id) /\ Len(r) = Len(level) - 1
          /\ \A i \in 1..Len(r) : r[i] = IF i < 1 THEN level[i] ELSE level[i + 1]
      BY <1>1, <2>0
    <3> HIDE DEF r
    <3>2. Total(w, r) = Total(w, level) - w[level[1]]
      BY <1>5, <2>0, <3>1, TotalOfRest
    <3>3. \A i \in 1..Len(r) : r[i] \in Id \ {maker}
      BY <1>1, <2>0, <3>1 DEF IsInjective
    <3>4. Total(v, r) = Total(w, r)
      <4>1. \A i \in 1..Len(r) : v[r[i]] = w[r[i]]
        BY <1>5, <3>3
      <4>2. QED
        BY <1>5, <3>1, <4>1, TotalOfSame
    <3>5. Total(v, r) = Total(w, level) - traded
      BY <1>1, <1>5, <2>1, <2>3, <3>2, <3>4
    <3>6. QED
      BY <1>4, <2>3, <3>5 DEF r
  <2>4. QED
    BY <2>2, <2>3
<1>7. ASSUME NEW r \in Side, NEW j \in DOMAIN tree[r], r # opp \/ j # key
      PROVE  Total(v, tree[r][j]) = Total(w, tree[r][j])
  <2> HIDE DEF left, maker, level
  <2>1. maker \notin Range(tree[r][j])
    BY <1>1, <1>7, LevelOrders
  <2>2. QED
    BY <1>3, <2>1, LevelUntouched DEF IInv
<1>8. qtyMap' = [qtyMap EXCEPT ![opp] = IF levelNow = <<>> THEN Drop(@, price) ELSE Put(@, price, total)]
  <2> HIDE DEF levelNow, price, traded
  <2>1. DOMAIN qtyMap = Side
    BY DEF IInv, TypeOK
  <2>2. QED
    BY <1>1, <1>2, <2>1
<1> HIDE DEF levelNow, total, w, v
<1>9. tree' = [tree EXCEPT ![opp] = SetLevel(@, key, levelNow)]
  BY <1>2
<1>10. \A r \in Side : \A j \in DOMAIN tree[r] :
         r # opp \/ j # key => Total(v, tree[r][j]) = Total(w, tree[r][j])
  BY <1>7
<1>11. PricesMatch'
  BY DEF IInv
<1>12. QED
  BY <1>1, <1>6, <1>8, <1>9, <1>10, <1>11, AggregateStep DEF w, v

\* The aggregates after a cancellation.
LEMMA CancelAggregates ==
  ASSUME IInv, IInv', AggregatesExact, NEW id \in Id, CancelOrder(id)
  PROVE  AggregatesExact'
<1> DEFINE s == index[id].side
           k == index[id].key
           price == PriceOf(s, k)
           old == tree[s][k]
           level == RemoveFirst(old, id)
           total == qtyMap[s][price] - order[id].quantity
           w == Quantities
           v == Quantities'
<1>1. id \in DOMAIN index
  BY DEF CancelOrder
<1>2. s \in Side /\ k \in DOMAIN tree[s] /\ id \in Range(old)
  <2>1. s \in Side
    BY <1>1 DEF IInv, TypeOK
  <2>2. QED
    BY <1>1, <2>1 DEF IInv, IndexMatchesLevels, Indexed
<1>3. /\ tree' = [tree EXCEPT ![s] = SetLevel(@, k, level)]
      /\ qtyMap' = [qtyMap EXCEPT ![s] = IF level = <<>> THEN Drop(@, order[id].price)
                                         ELSE Put(@, order[id].price, @[order[id].price] - order[id].quantity)]
      /\ order' = [order EXCEPT ![id].status = "cancelled"]
  BY DEF CancelOrder
<1> HIDE DEF s, k
<1>4. k \in Keys /\ old \in Seq(Id) /\ IsInjective(old) /\ order[id].price = price
      /\ order[id].quantity \in Int
  BY <1>2, LevelFacts, LevelOrders, QtyAssumption
<1>5. \A i \in Id : order'[i].quantity = order[i].quantity
  BY <1>3 DEF IInv, TypeOK
<1>6. w \in [Id -> Int] /\ v = w /\ w[id] = order[id].quantity
  <2>1. v = w
    BY <1>5 DEF Quantities
  <2>2. QED
    BY <2>1, QuantitiesType DEF IInv
<1>7. total = Total(v, level)
  <2>1. PICK p \in 1..Len(old) : old[p] = id
    BY <1>2, <1>4 DEF Range
  <2>2. /\ level \in Seq(Id) /\ Len(level) = Len(old) - 1
        /\ \A i \in 1..Len(level) : level[i] = IF i < p THEN old[i] ELSE old[i + 1]
    BY <1>4, <2>1, RemoveFirstFacts
  <2> HIDE DEF level, w, v, old
  <2>3. Total(w, level) = Total(w, old) - w[old[p]]
    BY <1>4, <1>6, <2>1, <2>2, TotalOfRest
  <2>4. qtyMap[s][price] = Total(w, old)
    BY <1>2 DEF AggregatesExact, w, old
  <2>5. QED
    BY <1>6, <2>1, <2>3, <2>4
<1>8. qtyMap' = [qtyMap EXCEPT ![s] = IF level = <<>> THEN Drop(@, price) ELSE Put(@, price, total)]
  <2>1. DOMAIN qtyMap = Side
    BY DEF IInv, TypeOK
  <2> HIDE DEF level, price
  <2>2. QED
    BY <1>2, <1>3, <1>4, <2>1
<1>9. \A r \in Side : \A j \in DOMAIN tree[r] : Total(v, tree[r][j]) = Total(w, tree[r][j])
  BY <1>6
<1> HIDE DEF level, total
<1>10. QED
  BY <1>2, <1>3, <1>4, <1>7, <1>8, <1>9, AggregateStep DEF IInv

\* The aggregates after the remainder of a limit order came to rest.
LEMMA ReturnLimitAggregates ==
  ASSUME IInv, IInv', AggregatesExact, ReturnLimit
  PROVE  AggregatesExact'
<1> DEFINE id == call.taker
           s == order[id].side
           price == order[id].price
           k == Key(s, price)
           old == LevelAt(s, k)
           level == Append(old, id)
           total == TotalAt(s, price) + call.remaining
           w == Quantities
           v == Quantities'
<1>1. /\ id \in Id \ DOMAIN index /\ s \in Side /\ price \in 1..MaxPrice
      /\ call.remaining \in 0..MaxQuantity
  <2>1. id \in Id \ DOMAIN index /\ order[id].price > 0
    BY DEF IInv, FrameOK, ReturnLimit
  <2>2. /\ order[id].side \in Side /\ order[id].price \in 0..MaxPrice
        /\ call.remaining \in 0..MaxQuantity
    BY <2>1 DEF IInv, TypeOK
  <2>3. QED
    BY <2>1, <2>2, PriceAssumption
<1>2. order' = [order EXCEPT ![id].quantity = call.remaining,
                             ![id].status = StatusAfter(call.remaining, call.quantity)]
  BY DEF ReturnLimit, Settle
<1>3. order'[id].quantity = call.remaining /\ \A i \in Id \ {id} : order'[i].quantity = order[i].quantity
  BY <1>1, <1>2 DEF IInv, TypeOK
<1>4. CASE call.remaining = 0
  <2>1. tree' = tree /\ qtyMap' = qtyMap
    BY <1>4 DEF ReturnLimit, Settle, book
  <2>2. QED
    BY <1>1, <1>3, <2>1, BookUntouched DEF IInv
<1>5. CASE call.remaining # 0
  <2>1. /\ tree' = [tree EXCEPT ![s] = Put(@, k, level)]
        /\ qtyMap' = [qtyMap EXCEPT ![s] = Put(@, price, total)]
    BY <1>5 DEF ReturnLimit, Settle, Rest, RestAt
  <2>2. k \in Keys /\ PriceOf(s, k) = price
    BY <1>1, PriceAssumption DEF Key, PriceOf, Keys, Side
  <2>3. w \in [Id -> Int] /\ v \in [Id -> Int] /\ v[id] = call.remaining
    BY <1>1, <1>3, QuantitiesType, QuantitiesTypeNext DEF IInv
  <2>4. old \in Seq(Id) /\ TotalAt(s, price) = Total(v, old)
    <3>1. CASE k \in DOMAIN tree[s]
      <4>1. old = tree[s][k] /\ TotalAt(s, price) = qtyMap[s][PriceOf(s, k)]
        BY <2>2, <3>1 DEF LevelAt, TotalAt
      <4>2. qtyMap[s][PriceOf(s, k)] = Total(w, tree[s][k])
        BY <1>1, <3>1 DEF AggregatesExact
      <4>3. id \notin Range(tree[s][k])
        BY <1>1, <3>1, LevelOrders
      <4>4. Total(v, tree[s][k]) = Total(w, tree[s][k])
        BY <1>1, <1>3, <3>1, <4>3, LevelUntouched DEF IInv
      <4>5. QED
        BY <1>1, <3>1, <4>1, <4>2, <4>4, LevelFacts
    <3>2. CASE k \notin DOMAIN tree[s]
      <4>1. old = <<>> /\ TotalAt(s, price) = 0
        BY <3>2 DEF LevelAt, TotalAt
      <4>2. QED
        BY <2>3, <4>1, TotalOfEmpty, EmptySeq
    <3>3. QED
      BY <3>1, <3>2
  <2> HIDE DEF s, price, k, old, w, v
  <2>5. level # <<>> /\ total = Total(v, level)
    <3>1. Total(v, level) = Total(v, old) + v[id]
      BY <1>1, <2>3, <2>4, TotalOfAppend
    <3>2. level # <<>>
      BY <1>1, <2>4
    <3>3. QED
      BY <2>3, <2>4, <3>1, <3>2
  <2> HIDE DEF level, total
  <2>6. DOMAIN tree = Side /\ DOMAIN qtyMap = Side
    BY DEF IInv, TypeOK
  <2>7. tree' = [tree EXCEPT ![s] = SetLevel(@, k, level)]
    BY <1>1, <2>1, <2>5, <2>6 DEF SetLevel
  <2>8. qtyMap' = [qtyMap EXCEPT ![s] = IF level = <<>> THEN Drop(@, PriceOf(s, k))
                                        ELSE Put(@, PriceOf(s, k), total)]
    BY <1>1, <2>1, <2>2, <2>5, <2>6
  <2>9. ASSUME NEW r \in Side, NEW j \in DOMAIN tree[r]
        PROVE  Total(Quantities', tree[r][j]) = Total(Quantities, tree[r][j])
    <3>1. id \notin Range(tree[r][j])
      BY <1>1, LevelOrders
    <3>2. QED
      BY <1>1, <1>3, <3>1, LevelUntouched DEF IInv
  <2>10. QED
    BY <1>1, <2>2, <2>5, <2>7, <2>8, <2>9, AggregateStep DEF IInv, v
<1>6. QED
  BY <1>4, <1>5

\* The frames between calls have taken nothing.
LEMMA NothingTaken ==
  ASSUME call'.fills = <<>>, call'.remaining = call'.quantity, call'.quantity \in Int
  PROVE  FillsAddUp' /\ FillsWalkTheBook' /\ BookNotBetter'
<1>1. FillQuantities \in [Fill -> Int]
  <2>1. \A f \in Fill : f.quantity \in Int
    BY QtyAssumption DEF Fill
  <2>2. QED
    BY <2>1 DEF FillQuantities
<1>2. Total(FillQuantities, <<>>) = 0
  BY <1>1, TotalOfEmpty
<1>3. DOMAIN call'.fills = {}
  OBVIOUS
<1>4. FillsWalkTheBook' /\ BookNotBetter'
  BY <1>3 DEF FillsWalkTheBook, BookNotBetter
<1>5. FillQuantities' = FillQuantities
  BY DEF FillQuantities, Fill, Side
<1>6. FillsAddUp'
  BY <1>2, <1>5 DEF FillsAddUp
<1>7. QED
  BY <1>4, <1>6

\* The fills of a call after one more iteration of its loop: they add up to what
\* it used, and the new one is no better than any before it.
LEMMA ConsumeFills ==
  ASSUME IInv, IInv', QInv, Consume
  PROVE  FillsAddUp' /\ FillsWalkTheBook' /\ BookNotBetter'
<1> DEFINE opp == Opposite(call.side)
           key == BestKey(opp)
           price == PriceOf(opp, key)
           maker == Head(tree[opp][key])
           traded == Min({call.remaining, order[maker].quantity})
           fill == [order_id |-> call.taker, price |-> price, quantity |-> traded, side |-> call.side]
           n == Len(call.fills)
<1>1. /\ opp \in Side /\ key \in DOMAIN tree[opp]
      /\ \A k \in DOMAIN tree[opp] : key <= k
      /\ WithinLimit(price)
      /\ call.remaining \in 1..MaxQuantity
      /\ traded \in 1..MaxQuantity
  BY ConsumeFacts
<1>2. /\ call' = [call EXCEPT !.remaining = @ - traded, !.fills = Append(@, fill)]
      /\ \E level : tree' = [tree EXCEPT ![opp] = SetLevel(@, key, level)]
  BY DEF Consume
<1> HIDE DEF opp, key, traded, maker
<1>3. call.fills \in Seq(Fill) /\ call'.fills \in Seq(Fill) /\ n \in Nat
  BY DEF IInv, TypeOK
<1>4. /\ call'.fills = Append(call.fills, fill) /\ call'.remaining = call.remaining - traded
      /\ call'.quantity = call.quantity /\ call'.side = call.side /\ call'.kind = call.kind
      /\ call'.limit = call.limit
  BY <1>2 DEF IInv, TypeOK
<1> HIDE DEF n
<1>5. /\ Len(call'.fills) = n + 1 /\ call'.fills[n + 1] = fill /\ DOMAIN call'.fills = 1..n + 1
      /\ \A i \in 1..n : call'.fills[i] = call.fills[i]
      /\ DOMAIN call.fills = 1..n
  <2> HIDE DEF fill
  <2>1. QED
    BY <1>3, <1>4 DEF n
<1>6. fill \in Fill
  <2>1. n + 1 \in 1..Len(call'.fills)
    BY <1>3, <1>5
  <2>2. QED
    BY <1>3, <1>5, <2>1
<1>7. fill.price = price /\ fill.quantity = traded
  OBVIOUS
<1> HIDE DEF fill, price
<1>8. FillsAddUp'
  <2>1. FillQuantities \in [Fill -> Int] /\ FillQuantities[fill] = traded
    <3>1. \A f \in Fill : f.quantity \in Int
      BY QtyAssumption DEF Fill
    <3>2. QED
      BY <1>6, <1>7, <3>1 DEF FillQuantities
  <2>2. FillQuantities' = FillQuantities
    BY DEF FillQuantities, Fill, Side
  <2>3. Total(FillQuantities, Append(call.fills, fill)) = Total(FillQuantities, call.fills) + traded
    BY <1>3, <1>6, <2>1, TotalOfAppend
  <2>4. call.quantity - call.remaining = Total(FillQuantities, call.fills)
    BY DEF QInv, FillsAddUp
  <2>5. call.quantity \in Int /\ call.remaining \in Int /\ traded \in Int
    BY <1>1, QtyAssumption DEF IInv, TypeOK
  <2>6. QED
    BY <1>4, <2>2, <2>3, <2>4, <2>5 DEF FillsAddUp
<1>9. \A p, q : NotBetter(p, q)' <=> NotBetter(p, q)
  BY <1>4 DEF NotBetter
<1>10. \A p : WithinLimit(p)' <=> WithinLimit(p)
  BY <1>4 DEF WithinLimit
<1>11. /\ \A i \in 1..n : WithinLimit(call.fills[i].price)
       /\ \A i \in 1..n : \A j \in 1..i : NotBetter(call.fills[i].price, call.fills[j].price)
       /\ \A i \in 1..n : \A k \in DOMAIN tree[opp] : NotBetter(PriceOf(opp, k), call.fills[i].price)
  BY <1>5 DEF QInv, FillsWalkTheBook, BookNotBetter, opp
<1>12. price \in Int /\ NotBetter(price, price)
  <2>1. price \in Int
    BY <1>1, LevelFacts, PriceAssumption DEF price
  <2>2. QED
    BY <2>1 DEF NotBetter
<1>13. \A i \in 1..n : NotBetter(price, call.fills[i].price)
  BY <1>1, <1>11 DEF price
<1>14. FillsWalkTheBook'
  <2> SUFFICES ASSUME NEW i \in 1..n + 1
               PROVE  /\ WithinLimit(call'.fills[i].price)
                      /\ \A j \in 1..i : NotBetter(call'.fills[i].price, call'.fills[j].price)
    BY <1>5, <1>9, <1>10 DEF FillsWalkTheBook
  <2>1. CASE i = n + 1
    <3>1. \A j \in 1..n + 1 : NotBetter(price, call'.fills[j].price)
      <4>1. ASSUME NEW j \in 1..n + 1
            PROVE  NotBetter(price, call'.fills[j].price)
        <5>1. CASE j = n + 1
          BY <1>5, <1>7, <1>12, <5>1
        <5>2. CASE j # n + 1
          <6>1. j \in 1..n
            BY <1>3, <5>2
          <6>2. QED
            BY <1>5, <1>13, <6>1
        <5>3. QED
          BY <5>1, <5>2
      <4>2. QED
        BY <4>1
    <3>2. QED
      BY <1>1, <1>5, <1>7, <2>1, <3>1
  <2>2. CASE i # n + 1
    <3>1. i \in 1..n /\ \A j \in 1..i : j \in 1..n
      BY <1>3, <2>2
    <3>2. call'.fills[i] = call.fills[i] /\ \A j \in 1..i : call'.fills[j] = call.fills[j]
      BY <1>5, <3>1
    <3>3. QED
      BY <1>11, <3>1, <3>2
  <2>3. QED
    BY <2>1, <2>2
<1>15. BookNotBetter'
  <2>1. DOMAIN tree'[opp] \subseteq DOMAIN tree[opp]
    <3>1. PICK level : tree' = [tree EXCEPT ![opp] = SetLevel(@, key, level)]
      BY <1>2
    <3>2. DOMAIN tree = Side
      BY DEF IInv, TypeOK
    <3> DEFINE u == [tree EXCEPT ![opp] = SetLevel(@, key, level)]
    <3>3. /\ level = <<>> => DOMAIN u[opp] = DOMAIN tree[opp] \ {key}
          /\ level # <<>> => DOMAIN u[opp] = DOMAIN tree[opp] \union {key}
      BY <1>1, <3>2, SetLevelFacts
    <3> HIDE DEF u
    <3>4. tree' = u
      BY <3>1 DEF u
    <3>5. QED
      BY <1>1, <3>3, <3>4
  <2>2. Opposite(call'.side) = opp
    BY <1>4 DEF opp
  <2>3. SUFFICES ASSUME NEW i \in 1..n + 1, NEW k \in DOMAIN tree[opp]
                 PROVE  NotBetter(PriceOf(opp, k), call'.fills[i].price)
    BY <1>5, <1>9, <2>1, <2>2 DEF BookNotBetter
  <2>4. CASE i = n + 1
    <3>1. key <= k /\ key \in Int /\ k \in Int
      BY <1>1, PriceAssumption DEF IInv, TypeOK, Keys
    <3>2. NotBetter(PriceOf(opp, k), price)
      BY <3>1 DEF NotBetter, PriceOf, price, opp, Opposite
    <3>3. QED
      BY <1>5, <1>7, <2>4, <3>2
  <2>5. CASE i # n + 1
    <3>1. i \in 1..n
      BY <1>3, <2>5
    <3>2. QED
      BY <1>5, <1>11, <3>1
  <2>6. QED
    BY <2>4, <2>5
<1>16. QED
  BY <1>8, <1>14, <1>15

\* An iteration of the loop leaves every status telling its order's history.
LEMMA ConsumeStatuses ==
  ASSUME IInv, QInv, Consume
  PROVE  OthersTellHistory' /\ FrameRemembers'
<1> DEFINE opp == Opposite(call.side)
           key == BestKey(opp)
           maker == Head(tree[opp][key])
           traded == Min({call.remaining, order[maker].quantity})
           left == order[maker].quantity - traded
<1>1. /\ maker \in DOMAIN index /\ maker \in Id /\ maker # call.taker
      /\ Running
      /\ traded \in 1..MaxQuantity /\ left \in 0..MaxQuantity
      /\ order[maker].quantity = left + traded
  BY ConsumeFacts
<1>2. /\ order' = [order EXCEPT ![maker].quantity = left,
                                ![maker].status = IF left = 0 THEN "filled" ELSE "partial"]
      /\ \E fills : call' = [call EXCEPT !.remaining = @ - traded, !.fills = fills]
      /\ index' = IF left = 0 THEN Drop(index, maker) ELSE index
      /\ executed' = [id \in Id |-> IF id \in {maker, call.taker} THEN executed[id] + traded
                                    ELSE executed[id]]
      /\ submitted' = submitted
  BY DEF Consume
<1> HIDE DEF traded, maker
<1>3. call'.kind = call.kind /\ call'.taker = call.taker /\ call'.quantity = call.quantity
  BY <1>2 DEF IInv, TypeOK
<1>4. DOMAIN index' = IF left = 0 THEN DOMAIN index \ {maker} ELSE DOMAIN index
  BY <1>2, DropFacts
<1>5. FrameRemembers'
  BY <1>2, <1>3 DEF QInv, FrameRemembers
<1>6. ASSUME NEW id \in Id, ~(call.kind = "limit" /\ call.taker = id)
      PROVE  HistoryTold(id)'
  <2>1. HistoryTold(id)
    BY <1>6 DEF QInv, OthersTellHistory
  <2>2. CASE id = maker
    <3>1. /\ order'[id].status = IF left = 0 THEN "filled" ELSE "partial"
          /\ executed'[id] = executed[id] + traded
      BY <1>1, <1>2, <2>2 DEF IInv, TypeOK
    <3>2. submitted[id] = executed[id] + order[id].quantity
      BY <1>1, <2>2 DEF IInv, OrdersConserved, Outstanding
    <3>3. executed[id] \in Nat
      BY QtyAssumption DEF IInv, TypeOK
    <3>4. /\ submitted'[id] = executed'[id] + left /\ submitted'[id] > 0 /\ executed'[id] > 0
          /\ left \in Nat /\ executed'[id] \in Nat
      <4> HIDE DEF left
      <4>1. left \in Nat /\ traded \in Nat \ {0}
        BY <1>1, QtyAssumption
      <4>2. QED
        BY <1>1, <1>2, <2>2, <3>1, <3>2, <3>3, <4>1
    <3>5. id \in DOMAIN index' <=> left # 0
      BY <1>1, <1>4, <2>2
    <3>6. /\ order'[id].status = "filled" <=> left = 0
          /\ order'[id].status = "partial" <=> left # 0
          /\ order'[id].status # "open"
      BY <3>1
    <3>7. executed'[id] = submitted'[id] <=> left = 0
      BY <3>4
    <3> HIDE DEF left
    <3>8. QED
      BY <3>4, <3>5, <3>6, <3>7 DEF HistoryTold
  <2>3. CASE id # maker
    <3>1. id # call.taker
      BY <1>1, <1>6, IdAssumption DEF IInv, FrameOK, Running, TypeOK
    <3>2. order'[id] = order[id] /\ executed'[id] = executed[id]
      BY <1>2, <2>3, <3>1 DEF IInv, TypeOK
    <3>3. id \in DOMAIN index' <=> id \in DOMAIN index
      BY <1>4, <2>3
    <3>4. QED
      BY <1>2, <2>1, <3>2, <3>3 DEF HistoryTold
  <2>4. QED
    BY <2>2, <2>3
<1>7. QED
  BY <1>3, <1>5, <1>6 DEF OthersTellHistory

\* The return of add_order gives its order the status that tells its history.
LEMMA ReturnLimitStatuses ==
  ASSUME IInv, QInv, ReturnLimit
  PROVE  OthersTellHistory' /\ FrameRemembers'
<1> DEFINE id == call.taker
           left == call.remaining
<1>1. /\ id \in Id \ DOMAIN index /\ call.kind = "limit" /\ submitted[id] = call.quantity
      /\ left \in Nat /\ call.quantity \in Nat /\ call.quantity > 0 /\ executed[id] \in Nat
      /\ submitted[id] = executed[id] + left
  <2>1. call.kind = "limit" /\ Running
    BY DEF ReturnLimit, Running
  <2>2. id \in Id \ DOMAIN index /\ call.quantity > 0
    BY <2>1 DEF IInv, FrameOK
  <2>3. submitted[id] = call.quantity
    BY <2>1 DEF QInv, FrameRemembers
  <2>4. left \in Nat /\ call.quantity \in Nat /\ executed[id] \in Nat
    BY <2>2, QtyAssumption DEF IInv, TypeOK
  <2>5. submitted[id] = executed[id] + left
    BY <2>1, <2>2 DEF IInv, OrdersConserved, Outstanding
  <2>6. QED
    BY <2>1, <2>2, <2>3, <2>4, <2>5
<1>2. /\ order' = [order EXCEPT ![id].quantity = left, ![id].status = StatusAfter(left, call.quantity)]
      /\ call' = IdleCall /\ submitted' = submitted /\ executed' = executed
  BY DEF ReturnLimit, Settle
<1>3. DOMAIN index' = IF left = 0 THEN DOMAIN index ELSE DOMAIN index \union {id}
  <2>1. CASE left = 0
    BY <2>1 DEF ReturnLimit, Settle, book
  <2>2. CASE left # 0
    <3>1. PICK entry : index' = Put(index, id, entry)
      BY <2>2 DEF ReturnLimit, Settle, Rest, RestAt
    <3>2. QED
      BY <2>2, <3>1, PutFacts
  <2>3. QED
    BY <2>1, <2>2
<1>4. ASSUME NEW i \in Id, i = id
      PROVE  HistoryTold(i)'
  <2>1. order'[i].status = StatusAfter(left, call.quantity)
    BY <1>1, <1>2, <1>4 DEF IInv, TypeOK
  <2>2. /\ order'[i].status = "filled" <=> left = 0
        /\ order'[i].status = "partial" <=> left # 0 /\ left < call.quantity
        /\ order'[i].status = "open" <=> left # 0 /\ ~(left < call.quantity)
    BY <2>1 DEF StatusAfter
  <2>3. i \in DOMAIN index' <=> left # 0
    BY <1>1, <1>3, <1>4
  <2>4. /\ left = 0 <=> submitted'[i] > 0 /\ executed'[i] = submitted'[i]
        /\ ~(left < call.quantity) => executed'[i] = 0
        /\ left < call.quantity => executed'[i] > 0
    BY <1>1, <1>2, <1>4
  <2> HIDE DEF left, id
  <2>5. QED
    BY <2>2, <2>3, <2>4 DEF HistoryTold
<1>5. ASSUME NEW i \in Id \ {id}
      PROVE  HistoryTold(i)'
  <2>1. HistoryTold(i)
    BY DEF QInv, OthersTellHistory
  <2>2. order'[i] = order[i] /\ (i \in DOMAIN index' <=> i \in DOMAIN index)
    BY <1>2, <1>3 DEF IInv, TypeOK
  <2>3. QED
    BY <1>2, <2>1, <2>2 DEF HistoryTold
<1>6. call'.kind # "limit"
  BY <1>2 DEF IdleCall
<1>7. \A i \in Id : HistoryTold(i)'
  BY <1>4, <1>5
<1>8. QED
  BY <1>6, <1>7 DEF OthersTellHistory, FrameRemembers

\* Every operation keeps the quantities adding up.
LEMMA NextQInv ==
  ASSUME IInv, IInv', QInv, [Next]_vars
  PROVE  QInv'
<1>0. FillQuantities' = FillQuantities /\ TypeOK'
  BY DEF FillQuantities, Fill, Side, IInv
<1>1. ASSUME NEW id \in Id, NEW side \in Side, NEW price \in 0..MaxPrice,
             NEW quantity \in 0..MaxQuantity, AddOrder(id, side, price, quantity)
      PROVE  QInv'
  <2>1. /\ ~Running /\ id \notin DOMAIN index
        /\ order' = [order EXCEPT ![id] = [side |-> side, price |-> price,
                                           quantity |-> quantity, status |-> "open"]]
        /\ call' = NewCall("limit", side, id, price, quantity)
        /\ submitted' = [submitted EXCEPT ![id] = quantity]
        /\ executed' = [executed EXCEPT ![id] = 0]
        /\ tree' = tree /\ qtyMap' = qtyMap /\ index' = index
    BY <1>1 DEF AddOrder, book
  <2>2. /\ call'.fills = <<>> /\ call'.remaining = quantity /\ call'.quantity = quantity
        /\ call'.kind = "limit" /\ call'.taker = id
    BY <2>1 DEF NewCall
  <2>3. FillsAddUp' /\ FillsWalkTheBook' /\ BookNotBetter'
    <3>1. quantity \in Int
      BY QtyAssumption
    <3>2. QED
      BY <2>2, <3>1, NothingTaken
  <2>4. AggregatesExact'
    <3>1. \A i \in Id \ {id} : order'[i].quantity = order[i].quantity
      BY <2>1 DEF IInv, TypeOK
    <3>2. QED
      BY <1>0, <2>1, <3>1, BookUntouched DEF QInv
  <2>5. OthersTellHistory'
    <3>1. ASSUME NEW i \in Id \ {id}
          PROVE  HistoryTold(i)'
      <4>1. HistoryTold(i)
        BY <2>1 DEF QInv, OthersTellHistory, Running
      <4>2. order'[i] = order[i] /\ submitted'[i] = submitted[i] /\ executed'[i] = executed[i]
        BY <2>1 DEF IInv, TypeOK
      <4>3. QED
        BY <2>1, <4>1, <4>2 DEF HistoryTold
    <3>2. QED
      BY <2>2, <3>1 DEF OthersTellHistory
  <2>6. FrameRemembers'
    BY <2>1, <2>2 DEF FrameRemembers, IInv, TypeOK
  <2>7. QED
    BY <2>3, <2>4, <2>5, <2>6 DEF QInv
<1>2. ASSUME call'.fills = <<>>, call'.remaining = call'.quantity, call'.quantity \in Int,
             call'.kind # "limit", call.kind # "limit",
             UNCHANGED <<order, tree, qtyMap, index, arrivals, submitted, executed>>
      PROVE  QInv'
  <2>1. FillsAddUp' /\ FillsWalkTheBook' /\ BookNotBetter'
    BY <1>2, NothingTaken
  <2>2. AggregatesExact'
    BY <1>2 DEF QInv, AggregatesExact, Quantities
  <2>3. OthersTellHistory' /\ FrameRemembers'
    BY <1>2 DEF QInv, OthersTellHistory, HistoryTold, FrameRemembers
  <2>4. QED
    BY <2>1, <2>2, <2>3 DEF QInv
<1>3. ASSUME NEW side \in Side, NEW quantity \in 0..MaxQuantity, MatchMarketOrder(side, quantity)
      PROVE  QInv'
  <2>1. /\ call' = NewCall("market", side, NoOrder, 0, quantity) /\ call.kind # "limit"
        /\ UNCHANGED <<order, tree, qtyMap, index, arrivals, submitted, executed>>
    BY <1>3 DEF MatchMarketOrder, book, history, Running
  <2>2. /\ call'.fills = <<>> /\ call'.remaining = call'.quantity /\ call'.quantity \in Int
        /\ call'.kind # "limit"
    BY <2>1, QtyAssumption DEF NewCall
  <2>3. QED
    BY <1>2, <2>1, <2>2
<1>4. CASE ReturnMarket
  <2>1. /\ call' = IdleCall /\ call.kind # "limit"
        /\ UNCHANGED <<order, tree, qtyMap, index, arrivals, submitted, executed>>
    BY <1>4 DEF ReturnMarket, book, history
  <2>2. /\ call'.fills = <<>> /\ call'.remaining = call'.quantity /\ call'.quantity \in Int
        /\ call'.kind # "limit"
    BY <2>1 DEF IdleCall
  <2>3. QED
    BY <1>2, <2>1, <2>2
<1>5. CASE Consume
  BY <1>5, ConsumeAggregates, ConsumeFills, ConsumeStatuses DEF QInv
<1>6. CASE ReturnLimit
  <2>1. call' = IdleCall
    BY <1>6 DEF ReturnLimit, Settle
  <2>2. FillsAddUp' /\ FillsWalkTheBook' /\ BookNotBetter'
    BY <2>1, NothingTaken DEF IdleCall
  <2>3. QED
    BY <1>6, <2>2, ReturnLimitAggregates, ReturnLimitStatuses DEF QInv
<1>7. ASSUME NEW id \in Id, CancelOrder(id)
      PROVE  QInv'
  <2>1. /\ ~Running /\ id \in DOMAIN index
        /\ order' = [order EXCEPT ![id].status = "cancelled"]
        /\ index' = Drop(index, id)
        /\ call' = call /\ submitted' = submitted /\ executed' = executed
    BY <1>7 DEF CancelOrder
  <2>2. call = IdleCall /\ call.kind # "limit"
    BY <2>1 DEF IInv, FrameOK, IdleCall
  <2>3. FillsAddUp' /\ FillsWalkTheBook' /\ BookNotBetter'
    BY <2>1, <2>2, NothingTaken DEF IdleCall
  <2>4. AggregatesExact'
    BY <1>7, CancelAggregates DEF QInv
  <2>5. HistoryTold(id)'
    <3>1. order'[id].status = "cancelled"
      BY <2>1 DEF IInv, TypeOK
    <3>2. id \notin DOMAIN index'
      BY <2>1, DropFacts
    <3>3. submitted[id] = executed[id] + order[id].quantity
      BY <2>2 DEF IInv, OrdersConserved, Outstanding
    <3>4. executed[id] # submitted[id]
      <4>1. order[id].quantity > 0
        BY <2>1 DEF IInv, IndexMatchesLevels
      <4>2. order[id].quantity \in Int /\ executed[id] \in Int
        BY QtyAssumption DEF IInv, TypeOK
      <4>3. QED
        BY <3>3, <4>1, <4>2
    <3>5. QED
      BY <2>1, <3>1, <3>2, <3>4 DEF HistoryTold
  <2>6. ASSUME NEW i \in Id \ {id}
        PROVE  HistoryTold(i)'
    <3>1. HistoryTold(i)
      BY <2>2 DEF QInv, OthersTellHistory
    <3>2. order'[i] = order[i]
      BY <2>1 DEF IInv, TypeOK
    <3>3. i \in DOMAIN index' <=> i \in DOMAIN index
      BY <2>1, DropFacts
    <3>4. QED
      BY <2>1, <3>1, <3>2, <3>3 DEF HistoryTold
  <2>7. OthersTellHistory' /\ FrameRemembers'
    BY <2>1, <2>2, <2>5, <2>6 DEF OthersTellHistory, FrameRemembers
  <2>8. QED
    BY <2>3, <2>4, <2>7 DEF QInv
<1>8. CASE UNCHANGED vars
  <2>1. UNCHANGED <<order, tree, qtyMap, index, call, arrivals, submitted, executed>>
    BY <1>8 DEF vars, book, history
  <2>2. AggregatesExact' /\ FillsAddUp'
    BY <1>0, <2>1 DEF QInv, AggregatesExact, Quantities, FillsAddUp
  <2>3. OthersTellHistory' /\ FrameRemembers'
    BY <2>1 DEF QInv, OthersTellHistory, HistoryTold, FrameRemembers
  <2>4. FillsWalkTheBook' /\ BookNotBetter'
    BY <2>1 DEF QInv, FillsWalkTheBook, BookNotBetter, NotBetter, WithinLimit
  <2>5. QED
    BY <2>2, <2>3, <2>4 DEF QInv
<1>9. QED
  BY <1>1, <1>3, <1>4, <1>5, <1>6, <1>7, <1>8 DEF Next

\* An empty book adds up.
LEMMA InitQInv == Init => QInv
<1> SUFFICES ASSUME Init
             PROVE  QInv
  OBVIOUS
<1>1. FillsAddUp
  <2>1. FillQuantities \in [Fill -> Int]
    <3>1. \A f \in Fill : f.quantity \in Int
      BY QtyAssumption DEF Fill
    <3>2. QED
      BY <3>1 DEF FillQuantities
  <2>2. Total(FillQuantities, <<>>) = 0
    BY <2>1, TotalOfEmpty
  <2>3. QED
    BY <2>2 DEF FillsAddUp, Init, IdleCall
<1>2. AggregatesExact
  BY DEF AggregatesExact, Init
<1>3. OthersTellHistory /\ FrameRemembers
  BY DEF OthersTellHistory, FrameRemembers, HistoryTold, Init, Unsent, IdleCall
<1>4. FillsWalkTheBook /\ BookNotBetter
  BY DEF FillsWalkTheBook, BookNotBetter, Init, IdleCall
<1>5. QED
  BY <1>1, <1>2, <1>3, <1>4 DEF QInv

\* The aggregate of every price is the sum of the quantities resting there, no
\* call creates or loses quantity, every status tells its order's history and
\* every call fills best price first: for any ids, prices, quantities and any
\* sequence of calls.
THEOREM QuantitiesCorrect == Spec => []QuantitiesAddUp
<1>1. IInv /\ IInv' /\ QInv /\ [Next]_vars => QInv'
  BY NextQInv
<1>2. IInv /\ QInv => QuantitiesAddUp
  <2> SUFFICES ASSUME IInv, QInv
               PROVE  QuantitiesAddUp
    OBVIOUS
  <2>1. Conservation
    BY DEF Conservation, IInv, QInv
  <2>2. StatusTellsHistory
    BY DEF StatusTellsHistory, QInv, OthersTellHistory, Running
  <2>3. QED
    BY <2>1, <2>2 DEF QuantitiesAddUp, QInv
<1>3. QED
  BY <1>1, <1>2, InitQInv, InductiveInvariant, PTL DEF Spec

=============================================================================
