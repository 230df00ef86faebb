---------------------------- MODULE ReferenceBook ----------------------------
(***************************************************************************)
(* The linear-scan book of src/src/exchange_engine/reference_engine.py:    *)
(* one list of resting orders, oldest first, and nothing derived from it.  *)
(* The repository's fuzzers compare the indexed books with this one; here  *)
(* it is the abstract specification that module OrderBook implements.      *)
(*                                                                         *)
(* Calls have the same steps as in OrderBook: start, loop, return.         *)
(***************************************************************************)
EXTENDS Lists, Sequences

CONSTANTS
  Id,          \* order ids a caller may use
  NoOrder,     \* the id a market order puts on its fills when it has none (-1)
  MaxPrice,    \* bound on limit prices
  MaxQuantity  \* bound on quantities

VARIABLES
  order,    \* [Id -> Order]: the Order objects, shared with the caller
  resting,  \* _resting: ids of the resting orders, oldest first
  call      \* the frame of the running method, IdleCall between calls

vars == <<order, resting, call>>

-----------------------------------------------------------------------------

Side           == {"bid", "ask"}
Opposite(side) == IF side = "bid" THEN "ask" ELSE "bid"

Unsent == [side |-> "bid", price |-> 0, quantity |-> 0, status |-> "none"]

\* Positions of `resting` that hold an order of this side.
Positions(side) == {i \in DOMAIN resting : order[resting[i]].side = side}

Better(side, p, q) == IF side = "bid" THEN p > q ELSE p < q

\* _best: the earliest order none of its side beats on price.
Best(side) ==
  LET price(i) == order[resting[i]].price
      top      == {i \in Positions(side) : \A j \in Positions(side) : ~Better(side, price(j), price(i))}
  IN  resting[Min(top)]

IdleCall == [kind |-> "idle", side |-> "bid", taker |-> NoOrder, limit |-> 0,
             quantity |-> 0, remaining |-> 0, fills |-> <<>>]

Running == call.kind # "idle"

NewCall(kind, side, taker, limit, quantity) ==
  [kind |-> kind, side |-> side, taker |-> taker, limit |-> limit,
   quantity |-> quantity, remaining |-> quantity, fills |-> <<>>]

WithinLimit(price) ==
  \/ call.kind = "market"
  \/ call.side = "bid" /\ price <= call.limit
  \/ call.side = "ask" /\ price >= call.limit

CanMatch ==
  LET opp == Opposite(call.side)
  IN  /\ call.remaining > 0
      /\ Positions(opp) # {}
      /\ WithinLimit(order[Best(opp)].price)

-----------------------------------------------------------------------------

Init ==
  /\ order = [id \in Id |-> Unsent]
  /\ resting = <<>>
  /\ call = IdleCall

AddOrder(id, side, price, quantity) ==
  /\ ~Running
  /\ quantity > 0
  /\ price > 0
  /\ ~Contains(resting, id)
  /\ call' = NewCall("limit", side, id, price, quantity)
  /\ order' = [order EXCEPT ![id] = [side |-> side, price |-> price,
                                     quantity |-> quantity, status |-> "open"]]
  /\ UNCHANGED resting

MatchMarketOrder(side, quantity) ==
  /\ ~Running
  /\ quantity > 0
  /\ call' = NewCall("market", side, NoOrder, 0, quantity)
  /\ UNCHANGED <<order, resting>>

\* One iteration of _consume.
Consume ==
  /\ Running
  /\ CanMatch
  /\ LET maker  == Best(Opposite(call.side))
         traded == Min({call.remaining, order[maker].quantity})
         left   == order[maker].quantity - traded
     IN  /\ order' = [order EXCEPT ![maker].quantity = left,
                                   ![maker].status = IF left = 0 THEN "filled" ELSE "partial"]
         /\ resting' = IF left = 0 THEN Others(resting, maker) ELSE resting
         /\ call' = [call EXCEPT !.remaining = @ - traded,
                                 !.fills = Append(@, [order_id |-> call.taker,
                                                      price |-> order[maker].price,
                                                      quantity |-> traded, side |-> call.side])]

\* add_order after the loop.
ReturnLimit ==
  /\ call.kind = "limit"
  /\ ~CanMatch
  /\ order' = [order EXCEPT ![call.taker].quantity = call.remaining,
                            ![call.taker].status = IF call.remaining = 0 THEN "filled"
                                                   ELSE IF call.remaining < call.quantity THEN "partial"
                                                   ELSE "open"]
  /\ resting' = IF call.remaining = 0 THEN resting ELSE Append(resting, call.taker)
  /\ call' = IdleCall

\* match_market_order after the loop.
ReturnMarket ==
  /\ call.kind = "market"
  /\ ~CanMatch
  /\ call' = IdleCall
  /\ UNCHANGED <<order, resting>>

CancelOrder(id) ==
  /\ ~Running
  /\ Contains(resting, id)
  /\ resting' = Others(resting, id)
  /\ order' = [order EXCEPT ![id].status = "cancelled"]
  /\ UNCHANGED call

Next ==
  \/ \E id \in Id, side \in Side, price \in 1..MaxPrice, quantity \in 1..MaxQuantity :
       AddOrder(id, side, price, quantity)
  \/ \E side \in Side, quantity \in 0..MaxQuantity : MatchMarketOrder(side, quantity)
  \/ Consume
  \/ ReturnLimit
  \/ ReturnMarket
  \/ \E id \in Id : CancelOrder(id)

Spec == Init /\ [][Next]_vars

=============================================================================
