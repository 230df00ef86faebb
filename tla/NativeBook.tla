----------------------------- MODULE NativeBook -----------------------------
(***************************************************************************)
(* The native book: class OrderBook of src/native/include/ee/order_book.hpp, *)
(* its binding src/native/python/binding.cpp, and NativeOrderBook of       *)
(* src/src/exchange_engine/native_book.py on top.                          *)
(*                                                                         *)
(* There are two copies of every resting order: the node of the core, and  *)
(* the Order object of the caller, which the Python side finds in _orders  *)
(* and brings up to date from the fills that the core reports.  As in      *)
(* module OrderBook a call is one step to start it, one per fill, and one  *)
(* for everything after the matching loop, in C++ and in Python.           *)
(*                                                                         *)
(* Prices are ticks and quantities lots, so orders off the grid, which     *)
(* raise in _ticks or _lots before anything changes, do not occur.  A pool *)
(* hands out a free object; a node's status is never read and left out.    *)
(***************************************************************************)
EXTENDS SideLevels, Lists

CONSTANTS
  Id,          \* order ids a caller may use
  NoOrder,     \* the id a market order puts on its fills when it has none (-1)
  MaxPrice,    \* bound: limit prices are drawn from 0..MaxPrice
  MaxQuantity  \* bound: quantities are drawn from 0..MaxQuantity

ASSUME NativeAssumption ==
  NoOrder \notin Id /\ MaxPrice \in Nat \ {0} /\ MaxQuantity \in Nat \ {0}

VARIABLES
  \* Python
  order,    \* [Id -> Order]: the Order objects, shared with the caller
  orders,   \* _orders: ids of the orders the Python side holds as resting
  \* the core
  node,     \* ids_ and the node pool: id -> [side, price, qty]
  sides,    \* bids_ and asks_: [side -> SideLevels]
  level,    \* [side -> (price -> [total, list])]: the Level objects
  call,     \* the frame of the running call, IdleCall between calls
  arrivals  \* history: the resting orders, oldest first

core == <<node, sides, level>>
vars == <<order, orders, core, call, arrivals>>

-----------------------------------------------------------------------------

Side           == {"bid", "ask"}
Opposite(side) == IF side = "bid" THEN "ask" ELSE "bid"

Unsent == [side |-> "bid", price |-> 0, quantity |-> 0, status |-> "none"]

\* raw: the fills of the call as the binding lists them.
IdleCall == [kind |-> "idle", side |-> "bid", taker |-> NoOrder, limit |-> 0,
             quantity |-> 0, remaining |-> 0, raw |-> <<>>]

Running == call.kind # "idle"

NewCall(kind, side, taker, limit, quantity) ==
  [kind |-> kind, side |-> side, taker |-> taker, limit |-> limit,
   quantity |-> quantity, remaining |-> quantity, raw |-> <<>>]

WithinLimit(price) ==
  \/ call.kind = "market"
  \/ call.side = "bid" /\ price <= call.limit
  \/ call.side = "ask" /\ price >= call.limit

CanMatch ==
  LET best == sides[Opposite(call.side)].best
  IN  call.remaining > 0 /\ best # NoLevel /\ WithinLimit(best)

\* What the taker takes from a maker with qty.
Traded(qty) == Min({call.remaining, qty})

With(f, k, v)  == [x \in DOMAIN f \union {k} |-> IF x = k THEN v ELSE f[x]]
Without(f, k)  == Restrict(f, DOMAIN f \ {k})

\* A level that changed; without orders left it is dropped and erased from its side.
SetLevel(side, price, total, list) ==
  IF list = <<>>
  THEN /\ level' = [level EXCEPT ![side] = Without(@, price)]
       /\ sides' = [sides EXCEPT ![side] = Erase(@, price)]
  ELSE /\ level' = [level EXCEPT ![side] = With(@, price, [total |-> total, list |-> list])]
       /\ UNCHANGED sides

\* Mutant: an exhausted maker stays in _orders.
ApplyRawKeepsFilled(raw) ==
  [order |-> [id \in Id |->
      IF \E f \in Range(raw) : f.maker = id
      THEN LET f == CHOOSE f \in Range(raw) : f.maker = id
           IN  [order[id] EXCEPT !.quantity = f.left,
                                 !.status = IF f.left = 0 THEN "filled" ELSE "partial"]
      ELSE order[id]],
   orders |-> orders]

\* _fills: what the fills make of the Order objects and of _orders.  A call has
\* at most one fill of a maker.
ApplyRaw(raw) ==
  LET hit(id) == {f \in Range(raw) : f.maker = id /\ id \in orders}
  IN  [order |-> [id \in Id |->
         IF hit(id) = {} THEN order[id]
         ELSE LET f == CHOOSE f \in hit(id) : TRUE
              IN  [order[id] EXCEPT !.quantity = f.left,
                                    !.status = IF f.left = 0 THEN "filled" ELSE "partial"]],
       orders |-> {id \in orders : \A f \in hit(id) : f.left # 0}]

-----------------------------------------------------------------------------

Init ==
  /\ order = [id \in Id |-> Unsent] /\ orders = {}
  /\ node = <<>>
  /\ sides = [s \in Side |-> NewSide(s)]
  /\ level = [s \in Side |-> <<>>]
  /\ call = IdleCall
  /\ arrivals = <<>>

\* add_order up to the loop of consume: the checks of Python, then those of the core.
AddOrder(id, side, price, quantity) ==
  /\ ~Running
  /\ quantity > 0 /\ price > 0
  /\ id \notin orders /\ id \notin DOMAIN node
  /\ order' = [order EXCEPT ![id] = [side |-> side, price |-> price,
                                     quantity |-> quantity, status |-> "open"]]
  /\ call' = NewCall("limit", side, id, price, quantity)
  /\ UNCHANGED <<orders, core, arrivals>>

MatchMarketOrder(side, quantity) ==
  /\ ~Running
  /\ quantity > 0
  /\ call' = NewCall("market", side, NoOrder, 0, quantity)
  /\ UNCHANGED <<order, orders, core, arrivals>>

\* One fill of consume: the head of the best opposite level.
Consume ==
  /\ Running /\ CanMatch
  /\ LET opp    == Opposite(call.side)
         price  == sides[opp].best
         lvl    == level[opp][price]
         maker  == Head(lvl.list)
         traded == Traded(node[maker].qty)
         left   == node[maker].qty - traded
     IN  /\ node' = IF left = 0 THEN Without(node, maker)
                    ELSE [node EXCEPT ![maker].qty = left]
         /\ SetLevel(opp, price, lvl.total - traded,
                     IF left = 0 THEN Tail(lvl.list) ELSE lvl.list)
         /\ call' = [call EXCEPT !.remaining = @ - traded,
                                 !.raw = Append(@, [maker |-> maker, price |-> price,
                                                    quantity |-> traded, left |-> left])]
         /\ arrivals' = IF left = 0 THEN RemoveFirst(arrivals, maker) ELSE arrivals
  /\ UNCHANGED <<order, orders>>

\* rest: the order's node goes last in the level of its price, a new level if
\* the side has none there.
Rest(id, side, price, qty) ==
  LET new == Find(sides[side], price) = NoLevel
      lvl == IF new THEN [total |-> 0, list |-> <<>>] ELSE level[side][price]
  IN  /\ sides' = IF new THEN [sides EXCEPT ![side] = Insert(@, price)] ELSE sides
      /\ level' = [level EXCEPT ![side] = With(@, price, [total |-> lvl.total + qty,
                                                          list  |-> Append(lvl.list, id)])]
      /\ node' = With(node, id, [side |-> side, price |-> price, qty |-> qty])
      /\ arrivals' = Append(arrivals, id)

\* The rest of add_limit, the binding, and add_order after the core returns.
ReturnLimit ==
  /\ call.kind = "limit" /\ ~CanMatch
  /\ LET left  == call.remaining
         after == ApplyRaw(call.raw)
     IN  /\ order' = [after.order EXCEPT
                        ![call.taker].quantity = left,
                        ![call.taker].status = IF left = 0 THEN "filled"
                                               ELSE IF left < call.quantity THEN "partial"
                                               ELSE "open"]
         /\ IF left = 0
            THEN orders' = after.orders /\ UNCHANGED <<core, arrivals>>
            ELSE /\ orders' = after.orders \union {call.taker}
                 /\ Rest(call.taker, call.side, call.limit, left)
  /\ call' = IdleCall

ReturnMarket ==
  /\ call.kind = "market" /\ ~CanMatch
  /\ order' = ApplyRaw(call.raw).order /\ orders' = ApplyRaw(call.raw).orders
  /\ call' = IdleCall
  /\ UNCHANGED <<core, arrivals>>

\* Mutant: what was open stays in the total of the level.
CancelOrderKeepsTotal(id) ==
  /\ ~Running
  /\ id \in DOMAIN node
  /\ LET n   == node[id]
         lvl == level[n.side][n.price]
     IN  SetLevel(n.side, n.price, lvl.total, RemoveFirst(lvl.list, id))
  /\ node' = Without(node, id)
  /\ orders' = orders \ {id}
  /\ order' = [order EXCEPT ![id].status = "cancelled"]
  /\ arrivals' = RemoveFirst(arrivals, id)
  /\ UNCHANGED call

\* cancel of the core and cancel_order; any other id returns false.
CancelOrder(id) ==
  /\ ~Running
  /\ id \in DOMAIN node
  /\ LET n   == node[id]
         lvl == level[n.side][n.price]
     IN  SetLevel(n.side, n.price, lvl.total - n.qty, RemoveFirst(lvl.list, id))
  /\ node' = Without(node, id)
  /\ orders' = orders \ {id}
  /\ order' = IF id \in orders THEN [order EXCEPT ![id].status = "cancelled"] ELSE order
  /\ arrivals' = RemoveFirst(arrivals, id)
  /\ UNCHANGED call

Next ==
  \/ \E id \in Id, side \in Side, price \in 0..MaxPrice, quantity \in 0..MaxQuantity :
       AddOrder(id, side, price, quantity)
  \/ \E side \in Side, quantity \in 0..MaxQuantity : MatchMarketOrder(side, quantity)
  \/ Consume \/ ReturnLimit \/ ReturnMarket
  \/ \E id \in Id : CancelOrder(id)

Spec == Init /\ [][Next]_vars

-----------------------------------------------------------------------------
(* Properties.                                                             *)

\* The variables stay in their types.
TypeOK ==
  /\ order \in [Id -> [side : Side, price : 0..MaxPrice, quantity : 0..MaxQuantity,
                       status : {"none", "open", "partial", "filled", "cancelled"}]]
  /\ orders \subseteq Id
  /\ DOMAIN node \subseteq Id
  /\ \A id \in DOMAIN node :
       node[id] \in [side : Side, price : 1..MaxPrice, qty : 1..MaxQuantity]
  /\ DOMAIN sides = Side /\ \A s \in Side : sides[s].side = s
  /\ DOMAIN level = Side
  /\ \A s \in Side : \A p \in DOMAIN level[s] :
       level[s][p].total \in Nat /\ level[s][p].list \in Seq(Id)
  /\ call.kind \in {"idle", "limit", "market"} /\ call.remaining \in 0..call.quantity

\* Both sides of the book are well-formed: window, bitmap, far levels and best
\* agree, however the window moves as orders come and go (SideLevels).
SidesWellFormed == \A s \in Side : WellFormed(sides[s])

\* Levels, nodes and sides are one book: a level for every price of the side and
\* no other, wherever it is kept, and in it the nodes of that price, each once.
CoreCoherent ==
  /\ \A s \in Side :
       /\ DOMAIN level[s] = Prices(sides[s])
       /\ \A p \in DOMAIN level[s] :
            LET list == level[s][p].list
            IN  /\ list # <<>> /\ IsInjective(list)
                /\ Range(list) = {id \in DOMAIN node : node[id].side = s /\ node[id].price = p}
  /\ \A id \in DOMAIN node : node[id].price \in DOMAIN level[node[id].side]

\* What each order has left in the core.
Lots == [id \in Id |-> IF id \in DOMAIN node THEN node[id].qty ELSE 0]

\* The total depth shows for a level is what its orders have left, after partial
\* fills and cancellations too.
TotalsAdd ==
  \A s \in Side : \A p \in DOMAIN level[s] :
    level[s][p].total = Total(Lots, level[s][p].list)

\* Between calls the Python side holds exactly the orders of the core, and its
\* Order objects say of them what the nodes say.
CopiesAgree ==
  ~Running =>
    /\ orders = DOMAIN node
    /\ \A id \in orders :
         /\ order[id].side = node[id].side /\ order[id].price = node[id].price
         /\ order[id].quantity = node[id].qty
         /\ order[id].status \in {"open", "partial"}

\* depth shows the prices of a side, all of them and best first, wherever they
\* are kept.
DepthSorted ==
  \A s \in Side :
    LET shown == Visit(sides[s], Cardinality(DOMAIN level[s]) + 1)
    IN  /\ Range(shown) = DOMAIN level[s]
        /\ \A i, j \in DOMAIN shown : i < j => Better(sides[s], shown[i], shown[j])

\* Whoever asks, totals, depth or the Python objects, is told of the same orders.
ViewsAgree == TotalsAdd /\ CopiesAgree /\ DepthSorted

\* The native book does what the linear-scan book does, step by step.  While a
\* call runs the caller's objects are those it will have when the fills are applied.
Fills == [i \in DOMAIN call.raw |->
            [order_id |-> call.taker, price |-> call.raw[i].price,
             quantity |-> call.raw[i].quantity, side |-> call.side]]

OrderThen == ApplyRaw(call.raw).order
RefCall   == [kind |-> call.kind, side |-> call.side, taker |-> call.taker, limit |-> call.limit,
              quantity |-> call.quantity, remaining |-> call.remaining, fills |-> Fills]

Ref == INSTANCE ReferenceBook WITH order <- OrderThen, resting <- arrivals, call <- RefCall

ImplementsReference == Ref!Spec

=============================================================================
