------------------------------ MODULE OrderBook ------------------------------
(***************************************************************************)
(* The price-time priority book of src/src/exchange_engine/orderbook.py.   *)
(*                                                                         *)
(* A side of the book is a sorted map from price keys to FIFO deques, an   *)
(* aggregate quantity per price beside it, and one index of the resting    *)
(* orders over both sides.  The four are updated by hand on every path, so *)
(* what can go wrong is that they stop agreeing.                           *)
(*                                                                         *)
(* The book runs on one thread and no method awaits, so a call is never    *)
(* interleaved with another.  A call is still several steps here: one to   *)
(* start it (checks and locals), one per iteration of the matching loop,   *)
(* one to return (the code after the loop).  The loop's invariant is then  *)
(* an invariant of the module, which is what the proofs need.              *)
(***************************************************************************)
EXTENDS Lists, Sequences

CONSTANTS
  Id,          \* order ids a caller may use
  NoOrder,     \* the id a market order puts on its fills when it has none (-1)
  MaxPrice,    \* bound: limit prices are drawn from 0..MaxPrice
  MaxQuantity  \* bound: quantities are drawn from 0..MaxQuantity

ASSUME IdAssumption    == NoOrder \notin Id
ASSUME PriceAssumption == MaxPrice \in Nat \ {0}
ASSUME QtyAssumption   == MaxQuantity \in Nat \ {0}

VARIABLES
  order,     \* [Id -> Order]: the Order objects, shared with the caller
  tree,      \* [Side -> (key -> deque of ids)]: _bids and _asks
  qtyMap,    \* [Side -> (price -> quantity)]: _bid_qty and _ask_qty
  index,     \* id -> [key, side]: _orders
  call,      \* the frame of the running method, IdleCall between calls
  arrivals,  \* history: the resting orders, oldest first
  submitted, \* history: [Id -> quantity the order was submitted with]
  executed   \* history: [Id -> quantity the order has traded]

book    == <<tree, qtyMap, index>>
history == <<arrivals, submitted, executed>>
vars    == <<order, book, call, history>>

-----------------------------------------------------------------------------

Side           == {"bid", "ask"}
Opposite(side) == IF side = "bid" THEN "ask" ELSE "bid"

\* "none" is an order nobody has submitted yet.
Status == {"none", "open", "partial", "filled", "cancelled"}

Unsent == [side |-> "bid", price |-> 0, quantity |-> 0, status |-> "none"]

\* Sorted-map keys: bids are negated, so the smallest key is the best price.
Key(side, price)     == IF side = "bid" THEN -price ELSE price
PriceOf(side, key)   == IF side = "bid" THEN -key ELSE key

\* Mutant: peekitem with its default, the last item.
BestKeyLast(side)    == Max(DOMAIN tree[side])

\* peekitem(0) of a side.
BestKey(side)        == Min(DOMAIN tree[side])

\* The frame of _consume and of its caller.  `limit` matters for limit orders only.
IdleCall == [kind |-> "idle", side |-> "bid", taker |-> NoOrder, limit |-> 0,
             quantity |-> 0, remaining |-> 0, fills |-> <<>>]

Running == call.kind # "idle"

NewCall(kind, side, taker, limit, quantity) ==
  [kind |-> kind, side |-> side, taker |-> taker, limit |-> limit,
   quantity |-> quantity, remaining |-> quantity, fills |-> <<>>]

\* Mutant: an order priced exactly at the best opposite price does not trade.
WithinLimitStrict(price) ==
  \/ call.kind = "market"
  \/ call.side = "bid" /\ price < call.limit
  \/ call.side = "ask" /\ price > call.limit

\* A limit order trades at its limit or better, a market order at any price.
WithinLimit(price) ==
  \/ call.kind = "market"
  \/ call.side = "bid" /\ price <= call.limit
  \/ call.side = "ask" /\ price >= call.limit

\* The while condition of _consume and the break below it.
CanMatch ==
  LET opp == Opposite(call.side)
  IN  /\ call.remaining > 0
      /\ DOMAIN tree[opp] # {}
      /\ WithinLimit(PriceOf(opp, BestKey(opp)))

\* Partial maps: dict and SortedDict entries set and deleted.
Put(f, k, v) == [x \in DOMAIN f \union {k} |-> IF x = k THEN v ELSE f[x]]
Drop(f, k)   == Restrict(f, DOMAIN f \ {k})

\* Mutant: a level outlives its last order.
SetLevelKeepEmpty(levels, key, level) == Put(levels, key, level)

\* The levels of a side once `key` holds `level`: an empty level is deleted.
SetLevel(levels, key, level) ==
  IF level = <<>> THEN Drop(levels, key) ELSE Put(levels, key, level)

-----------------------------------------------------------------------------

Init ==
  /\ order     = [id \in Id |-> Unsent]
  /\ tree      = [s \in Side |-> <<>>]
  /\ qtyMap    = [s \in Side |-> <<>>]
  /\ index     = <<>>
  /\ call      = IdleCall
  /\ arrivals  = <<>>
  /\ submitted = [id \in Id |-> 0]
  /\ executed  = [id \in Id |-> 0]

\* Mutant: an id that is already resting is accepted.
AddOrderUnchecked(id, side, price, quantity) ==
  /\ ~Running
  /\ quantity > 0
  /\ price > 0
  /\ order' = [order EXCEPT ![id] = [side |-> side, price |-> price,
                                     quantity |-> quantity, status |-> "open"]]
  /\ call' = NewCall("limit", side, id, price, quantity)
  /\ submitted' = [submitted EXCEPT ![id] = quantity]
  /\ executed' = [executed EXCEPT ![id] = 0]
  /\ UNCHANGED <<book, arrivals>>

\* add_order up to the matching loop.  A call that fails a check raises and
\* changes nothing.  The id of a dead order may be used again.
AddOrder(id, side, price, quantity) ==
  /\ ~Running
  /\ quantity > 0
  /\ price > 0
  /\ id \notin DOMAIN index
  /\ order' = [order EXCEPT ![id] = [side |-> side, price |-> price,
                                     quantity |-> quantity, status |-> "open"]]
  /\ call' = NewCall("limit", side, id, price, quantity)
  /\ submitted' = [submitted EXCEPT ![id] = quantity]
  /\ executed' = [executed EXCEPT ![id] = 0]
  /\ UNCHANGED <<book, arrivals>>

\* match_market_order up to the matching loop.
MatchMarketOrder(side, quantity) ==
  /\ ~Running
  /\ quantity > 0
  /\ call' = NewCall("market", side, NoOrder, 0, quantity)
  /\ UNCHANGED <<order, book, history>>

\* One iteration of the inner loop of _consume: the oldest order of the best
\* opposite level trades, leaves the level when it is exhausted, and the level
\* leaves the tree when it is empty.
Consume ==
  /\ Running
  /\ CanMatch
  /\ LET opp     == Opposite(call.side)
         key     == BestKey(opp)
         price   == PriceOf(opp, key)
         level   == tree[opp][key]
         maker   == Head(level)
         traded  == Min({call.remaining, order[maker].quantity})
         left    == order[maker].quantity - traded
         levelNow == IF left = 0 THEN Tail(level) ELSE level
     IN  /\ order' = [order EXCEPT ![maker].quantity = left,
                                   ![maker].status = IF left = 0 THEN "filled" ELSE "partial"]
         /\ call' = [call EXCEPT !.remaining = @ - traded,
                                 !.fills = Append(@, [order_id |-> call.taker, price |-> price,
                                                      quantity |-> traded, side |-> call.side])]
         /\ index' = IF left = 0 THEN Drop(index, maker) ELSE index
         /\ tree' = [tree EXCEPT ![opp] = SetLevel(@, key, levelNow)]
         /\ qtyMap' = [qtyMap EXCEPT ![opp] =
                         IF levelNow = <<>> THEN Drop(@, price) ELSE Put(@, price, @[price] - traded)]
         /\ arrivals' = IF left = 0 THEN RemoveFirst(arrivals, maker) ELSE arrivals
         /\ executed' = [id \in Id |-> IF id \in {maker, call.taker} THEN executed[id] + traded
                                       ELSE executed[id]]
         /\ UNCHANGED submitted

\* Put an order in the level of its price, creating the level and its aggregate
\* if there is none.
RestAt(id, side, price, level, total) ==
  LET key == Key(side, price)
  IN  /\ tree' = [tree EXCEPT ![side] = Put(@, key, level)]
      /\ qtyMap' = [qtyMap EXCEPT ![side] = Put(@, price, total)]
      /\ index' = Put(index, id, [key |-> key, side |-> side])
      /\ arrivals' = Append(arrivals, id)

\* What a price has before: the level, and its aggregate when it has a level.
LevelAt(side, key) == IF key \in DOMAIN tree[side] THEN tree[side][key] ELSE <<>>
TotalAt(side, price) ==
  IF Key(side, price) \in DOMAIN tree[side] THEN qtyMap[side][price] ELSE 0

\* Mutant: the newest order of a level is put first.
RestAtFront(id, side, price, quantity) ==
  RestAt(id, side, price, <<id>> \o LevelAt(side, Key(side, price)),
         TotalAt(side, price) + quantity)

\* Mutant: the aggregate of a level that exists already starts again from zero.
RestResetTotal(id, side, price, quantity) ==
  RestAt(id, side, price, Append(LevelAt(side, Key(side, price)), id), quantity)

\* _rest: the order goes last in its level.
Rest(id, side, price, quantity) ==
  RestAt(id, side, price, Append(LevelAt(side, Key(side, price)), id),
         TotalAt(side, price) + quantity)

\* Mutant: an order that traded in part is marked open.
StatusNeverPartial(left, quantity) == IF left = 0 THEN "filled" ELSE "open"

\* The status of a limit order that keeps `left` of its quantity.
StatusAfter(left, quantity) ==
  IF left = 0 THEN "filled" ELSE IF left < quantity THEN "partial" ELSE "open"

\* The code of add_order after the loop: what is left rests.
Settle(left) ==
  LET id == call.taker
      o  == order[id]
  IN  /\ order' = [order EXCEPT ![id].quantity = left,
                                ![id].status = StatusAfter(left, call.quantity)]
      /\ IF left = 0
         THEN UNCHANGED <<book, arrivals>>
         ELSE Rest(id, o.side, o.price, left)
      /\ call' = IdleCall
      /\ UNCHANGED <<submitted, executed>>

\* Mutant: order.quantity is not set to what is left.
ReturnLimitForgets ==
  /\ call.kind = "limit"
  /\ ~CanMatch
  /\ Settle(call.quantity)

\* Mutant: a price beyond the limit continues the loop instead of leaving it.
ReturnLimitSpins ==
  /\ call.kind = "limit"
  /\ ~CanMatch
  /\ IF call.remaining > 0 /\ DOMAIN tree[Opposite(call.side)] # {}
     THEN UNCHANGED vars
     ELSE Settle(call.remaining)

ReturnLimit ==
  /\ call.kind = "limit"
  /\ ~CanMatch
  /\ Settle(call.remaining)

\* match_market_order after the loop: the remainder is dropped.
ReturnMarket ==
  /\ call.kind = "market"
  /\ ~CanMatch
  /\ call' = IdleCall
  /\ UNCHANGED <<order, book, history>>

\* cancel_order of a resting id; any other id returns False and changes nothing.
CancelOrder(id) ==
  /\ ~Running
  /\ id \in DOMAIN index
  /\ LET side  == index[id].side
         key   == index[id].key
         price == order[id].price
         level == RemoveFirst(tree[side][key], id)
     IN  /\ tree' = [tree EXCEPT ![side] = SetLevel(@, key, level)]
         /\ qtyMap' = [qtyMap EXCEPT ![side] = IF level = <<>> THEN Drop(@, price)
                                               ELSE Put(@, price, @[price] - order[id].quantity)]
  /\ index' = Drop(index, id)
  /\ order' = [order EXCEPT ![id].status = "cancelled"]
  /\ arrivals' = RemoveFirst(arrivals, id)
  /\ UNCHANGED <<call, submitted, executed>>

Next ==
  \/ \E id \in Id, side \in Side, price \in 0..MaxPrice, quantity \in 0..MaxQuantity :
       AddOrder(id, side, price, quantity)
  \/ \E side \in Side, quantity \in 0..MaxQuantity : MatchMarketOrder(side, quantity)
  \/ Consume
  \/ ReturnLimit
  \/ ReturnMarket
  \/ \E id \in Id : CancelOrder(id)

\* A call that has started runs to its return: it is straight-line Python code.
Fairness == WF_vars(Consume) /\ WF_vars(ReturnLimit) /\ WF_vars(ReturnMarket)

Spec     == Init /\ [][Next]_vars
FairSpec == Spec /\ Fairness

-----------------------------------------------------------------------------
(***************************************************************************)
(* Properties.                                                             *)
(***************************************************************************)

Keys == (-MaxPrice..MaxPrice) \ {0}

Fill == [order_id : Id \union {NoOrder}, price : 1..MaxPrice,
         quantity : 1..MaxQuantity, side : Side]

TypeOK ==
  /\ order \in [Id -> [side : Side, price : 0..MaxPrice, quantity : 0..MaxQuantity, status : Status]]
  /\ DOMAIN tree = Side
  /\ \A s \in Side :
       DOMAIN tree[s] \subseteq Keys /\ \A k \in DOMAIN tree[s] : tree[s][k] \in Seq(Id)
  /\ DOMAIN qtyMap = Side
  /\ \A s \in Side :
       DOMAIN qtyMap[s] \subseteq 1..MaxPrice /\ \A p \in DOMAIN qtyMap[s] : qtyMap[s][p] \in Int
  /\ DOMAIN index \subseteq Id
  /\ \A id \in DOMAIN index : index[id] \in [key : Keys, side : Side]
  /\ call \in [kind : {"idle", "limit", "market"}, side : Side, taker : Id \union {NoOrder},
               limit : 0..MaxPrice, quantity : 0..MaxQuantity, remaining : 0..MaxQuantity,
               fills : Seq(Fill)]
  /\ arrivals \in Seq(Id)
  /\ submitted \in [Id -> 0..MaxQuantity]
  /\ executed \in [Id -> 0..MaxQuantity]

\* Levels t and index x name the same orders: no level is empty, an order is in
\* one level and there once, and its index entry leads to that level.
Indexed(t, x) ==
  /\ \A s \in Side : \A k \in DOMAIN t[s] :
       /\ t[s][k] # <<>>
       /\ IsInjective(t[s][k])
       /\ \A id \in Range(t[s][k]) : id \in DOMAIN x /\ x[id] = [key |-> k, side |-> s]
  /\ \A id \in DOMAIN x :
       /\ x[id].key \in DOMAIN t[x[id].side]
       /\ id \in Range(t[x[id].side][x[id].key])

\* The price levels, the cancel index and the order objects describe the same
\* book: levels and index agree (best_bid and best_ask read the first order of
\* a level, cancel_order trusts the index), and every entry has the side and
\* price of its order, which has quantity left.
IndexMatchesLevels ==
  /\ Indexed(tree, index)
  /\ \A id \in DOMAIN index :
       /\ index[id].side = order[id].side
       /\ index[id].key = Key(order[id].side, order[id].price)
       /\ order[id].quantity > 0

\* What each order has left.
Quantities == [id \in Id |-> order[id].quantity]

\* The aggregate of a price, maintained by additions and subtractions on four
\* paths, is the sum of the quantities resting there, and exists exactly for
\* the prices that have a level (get_depth looks it up without a default).
AggregatesExact ==
  \A s \in Side :
    /\ DOMAIN qtyMap[s] = {PriceOf(s, k) : k \in DOMAIN tree[s]}
    /\ \A k \in DOMAIN tree[s] :
         qtyMap[s][PriceOf(s, k)] =
           Total(Quantities, tree[s][k])

\* No resting bid is priced at or above a resting ask, in no state of a call.
NotCrossed ==
  \A b \in DOMAIN tree["bid"], a \in DOMAIN tree["ask"] : PriceOf("bid", b) < PriceOf("ask", a)

\* What is still open of an order: in the frame while its own call runs.
Outstanding(id) ==
  IF call.kind = "limit" /\ call.taker = id THEN call.remaining ELSE order[id].quantity

OrdersConserved == \A id \in Id : submitted[id] = executed[id] + Outstanding(id)

FillQuantities == [f \in Fill |-> f.quantity]

\* A call has used what its fills say.
FillsAddUp == call.quantity - call.remaining = Total(FillQuantities, call.fills)

\* Quantity is neither created nor lost: what an order was submitted with is
\* what it has traded, as taker or as maker, plus what is still open or was
\* cancelled; and the fills of a call add up to what it consumed.
Conservation ==
  /\ OrdersConserved
  /\ FillsAddUp

HistoryTold(id) ==
  /\ order[id].status = "filled" <=> submitted[id] > 0 /\ executed[id] = submitted[id]
  /\ id \in DOMAIN index <=> order[id].status \in {"open", "partial"}
  /\ order[id].status = "open" => executed[id] = 0
  /\ order[id].status = "partial" => executed[id] > 0

\* An order's status tells its history between calls: filled orders traded all
\* they were submitted with, resting ones are open or partial as they traded
\* nothing or something, and no other status is in the book.
StatusTellsHistory == ~Running => \A id \in Id : HistoryTold(id)

\* For the taker, price p is no better than price q.
NotBetter(p, q) == IF call.side = "bid" THEN p >= q ELSE p <= q

\* The walk is best-first and respects the taker's limit: successive fills
\* never improve, and none is worse than the limit.
FillsWalkTheBook ==
  \A i \in DOMAIN call.fills :
    /\ WithinLimit(call.fills[i].price)
    /\ \A j \in 1..i : NotBetter(call.fills[i].price, call.fills[j].price)

\* What levels, fills, statuses and orders say of quantities adds up.
QuantitiesAddUp == AggregatesExact /\ Conservation /\ StatusTellsHistory /\ FillsWalkTheBook

\* m has priority over o: a better price, or the same price and an earlier arrival.
HasPriority(m, o) ==
  LET came(id) == CHOOSE i \in DOMAIN arrivals : arrivals[i] = id
  IN  \/ order[m].side = "bid" /\ order[m].price > order[o].price
      \/ order[m].side = "ask" /\ order[m].price < order[o].price
      \/ order[m].price = order[o].price /\ came(m) < came(o)

\* Price-time priority, said without the levels: a resting order trades only
\* when it has priority over every other resting order of its side.
PriceTimePriority ==
  [][\A m \in DOMAIN index :
       executed'[m] > executed[m] =>
         \A o \in DOMAIN index \ {m} : order[o].side = order[m].side => HasPriority(m, o)]_vars

\* The indexed book does what the linear-scan book does, step by step: same
\* fills, same order objects, same resting orders in the same order.
Ref == INSTANCE ReferenceBook WITH resting <- arrivals
ImplementsReference == Ref!Spec

\* Every call returns: each iteration of the loop exhausts a maker or the taker.
CallReturns == Running ~> ~Running

-----------------------------------------------------------------------------
(***************************************************************************)
(* The inductive invariant of the proofs.                                  *)
(***************************************************************************)

\* The frame of a running call: its order is not resting yet, and has the
\* side and limit of the frame.
FrameOK ==
  /\ ~Running => call = IdleCall
  /\ Running => call.quantity > 0 /\ call.remaining <= call.quantity
  /\ call.kind = "limit" =>
       /\ call.taker \in Id \ DOMAIN index
       /\ order[call.taker].side = call.side
       /\ order[call.taker].price = call.limit
       /\ call.limit > 0
  /\ call.kind = "market" => call.taker = NoOrder

\* Aggregates exist exactly for the prices that have a level.
PricesMatch ==
  \A s \in Side : DOMAIN qtyMap[s] = {PriceOf(s, k) : k \in DOMAIN tree[s]}

\* `arrivals` lists the indexed orders, and every level is in that order.
ArrivalsMatch ==
  /\ IsInjective(arrivals)
  /\ Range(arrivals) = DOMAIN index
  /\ \A s \in Side : \A k \in DOMAIN tree[s] : OrderedAs(tree[s][k], arrivals)

IInv ==
  /\ TypeOK
  /\ IndexMatchesLevels
  /\ PricesMatch
  /\ NotCrossed
  /\ OrdersConserved
  /\ FrameOK
  /\ ArrivalsMatch

\* A running limit call has its own order's status still to set; every other
\* order's tells its history.
OthersTellHistory == \A id \in Id : (call.kind = "limit" /\ call.taker = id) \/ HistoryTold(id)

\* The frame remembers what its order was submitted with.
FrameRemembers == call.kind = "limit" => submitted[call.taker] = call.quantity

\* What is left of the opposite side is no better than what was taken from it.
BookNotBetter ==
  \A i \in DOMAIN call.fills : \A k \in DOMAIN tree[Opposite(call.side)] :
    NotBetter(PriceOf(Opposite(call.side), k), call.fills[i].price)

\* What the quantities need beside IInv.
QInv ==
  /\ AggregatesExact
  /\ FillsAddUp
  /\ OthersTellHistory
  /\ FrameRemembers
  /\ FillsWalkTheBook
  /\ BookNotBetter

=============================================================================
