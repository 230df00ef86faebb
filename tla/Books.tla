------------------------------- MODULE Books -------------------------------
(***************************************************************************)
(* Order books as values, for the programs that replay a stream of         *)
(* operations through several of them: OrderBook, ReferenceBook and the    *)
(* two broken ones of src/tests/test_differential.py.  (Modules OrderBook  *)
(* and ReferenceBook have the calls step by step; the native book is in    *)
(* module NativeBooks.)                                                    *)
(*                                                                         *)
(* Orders are the objects of the program: an id that is used again has one *)
(* for each time it was accepted.  `orders` are the accepted objects, a    *)
(* book refers to them by their positions, and 0 is no object.             *)
(***************************************************************************)
EXTENDS Integers, SequencesExt, FiniteSetsExt

CONSTANTS
  Prices,    \* prices of limit orders
  MaxLength  \* bound: operations of a stream, and so ids in it

Side           == {"bid", "ask"}
Opposite(side) == IF side = "bid" THEN "ask" ELSE "bid"
UnknownId      == 0
Ids            == 0..MaxLength

Beats(side, p, q)       == IF side = "bid" THEN p > q ELSE p < q
Within(side, limit, p)  == limit = 0 \/ ~Beats(side, p, limit)

IsIndexed(engine) == engine \in {"OrderBook", "TakerPriceBook"}

Empty ==
  [orders  |-> <<>>,
   level   |-> [s \in Side |-> [p \in Prices |-> <<>>]],
   total   |-> [s \in Side |-> [p \in Prices |-> 0]],
   index   |-> [id \in Ids |-> 0],
   resting |-> <<>>]

Levels(b, side)    == {p \in Prices : b.level[side][p] # <<>>}
BestLevel(b, side) == CHOOSE p \in Levels(b, side) : \A q \in Levels(b, side) : ~Beats(side, q, p)

\* The positions in `resting` of the orders of a side that none beats.
Ties(b, side) ==
  LET mine == {j \in DOMAIN b.resting : b.orders[b.resting[j]].side = side}
  IN  {j \in mine : \A m \in mine : ~Beats(side, b.orders[b.resting[m]].price, b.orders[b.resting[j]].price)}

\* The order that trades next, or 0.
Maker(engine, b, side) ==
  IF IsIndexed(engine) THEN IF Levels(b, side) = {} THEN 0 ELSE Head(b.level[side][BestLevel(b, side)])
  ELSE IF Ties(b, side) = {} THEN 0
  ELSE b.resting[IF engine = "NewestFirstBook" THEN Max(Ties(b, side)) ELSE Min(Ties(b, side))]

\* Mutant: the index keeps an order that was filled.
LeaveIndexed(b, k, level, quantity) ==
  LET o == b.orders[k]
  IN  [b EXCEPT !.level[o.side][o.price] = level,
                !.total[o.side][o.price] = IF level = <<>> THEN 0 ELSE @ - quantity]

\* Order k leaves the indexed book with `quantity` of its level's total.
Leave(b, k, level, quantity) ==
  LET o == b.orders[k]
  IN  [b EXCEPT !.level[o.side][o.price] = level,
                !.total[o.side][o.price] = IF level = <<>> THEN 0 ELSE @ - quantity,
                !.index[o.id] = 0]

Filled(b, k, traded) ==
  LET left == b.orders[k].quantity - traded
  IN  [b EXCEPT !.orders[k].quantity = left, !.orders[k].status = IF left = 0 THEN "filled" ELSE "partial"]

\* One turn of the matching loop.
Trade(engine, b, k, traded) ==
  LET o     == b.orders[k]
      after == Filled(b, k, traded)
  IN  IF ~IsIndexed(engine)
      THEN IF traded = o.quantity THEN [after EXCEPT !.resting = Remove(@, k)] ELSE after
      ELSE IF traded = o.quantity THEN Leave(after, k, Tail(b.level[o.side][o.price]), traded)
      ELSE [after EXCEPT !.total[o.side][o.price] = @ - traded]

\* The loop with t, the book and what is left of the taker and its fills so far; k
\* is the order that would trade next.
Turn(engine, t, k, traded) ==
  [book |-> Trade(engine, t.book, k, traded), left |-> t.left - traded,
   fills |-> Append(t.fills, <<t.book.orders[k].price, traded>>)]

RECURSIVE Matched(_, _, _, _), Consume(_, _, _, _, _)
Matched(engine, side, limit, t) == Consume(engine, side, limit, t, Maker(engine, t.book, Opposite(side)))
Consume(engine, side, limit, t, k) ==
  IF t.left = 0 \/ k = 0 \/ ~Within(side, limit, t.book.orders[k].price) THEN t
  ELSE Matched(engine, side, limit, Turn(engine, t, k, Min({t.left, t.book.orders[k].quantity})))

Rest(engine, b, k) ==
  LET o == b.orders[k]
  IN  IF IsIndexed(engine)
      THEN [b EXCEPT !.level[o.side][o.price] = Append(@, k), !.total[o.side][o.price] = @ + o.quantity,
                     !.index[o.id] = k]
      ELSE [b EXCEPT !.resting = Append(@, k)]

IsResting(engine, b, id) ==
  IF IsIndexed(engine) THEN b.index[id] # 0 ELSE \E k \in Range(b.resting) : b.orders[k].id = id

\* What a taker's order k leaves behind: the rest of it rests.
Settled(engine, t, k, quantity) ==
  LET kept == [t.book EXCEPT !.orders[k].quantity = t.left,
                             !.orders[k].status = IF t.left = 0 THEN "filled"
                                                  ELSE IF t.left < quantity THEN "partial" ELSE "open"]
  IN  IF t.left = 0 THEN kept ELSE Rest(engine, kept, k)

Printed(engine, fills, price) ==
  IF engine = "TakerPriceBook" THEN [j \in DOMAIN fills |-> <<price, fills[j][2]>>] ELSE fills

AddedAfter(engine, t, k, price, quantity) ==
  [book |-> Settled(engine, t, k, quantity), out |-> <<"fills", Printed(engine, t.fills, price)>>]

\* What apply_op returns: the book afterwards and the outcome.  An exception is an
\* outcome too, and its order is not among the accepted ones.
AddOrder(engine, b, id, side, price, quantity) ==
  IF IsResting(engine, b, id) THEN [book |-> b, out |-> <<"error">>]
  ELSE LET o == [id |-> id, side |-> side, price |-> price, quantity |-> quantity, status |-> "open"]
           t == [book |-> [b EXCEPT !.orders = Append(@, o)], left |-> quantity, fills |-> <<>>]
       IN  AddedAfter(engine, Matched(engine, side, price, t), Len(b.orders) + 1, price, quantity)

MatchMarketOrder(engine, b, side, quantity) ==
  LET answer(t) == [book |-> t.book, out |-> <<"fills", t.fills>>]
  IN  answer(Matched(engine, side, 0, [book |-> b, left |-> quantity, fills |-> <<>>]))

\* deque.remove drops the first order that is equal, in all its fields.
WithoutEqual(b, level, k) ==
  LET j == Min({m \in DOMAIN level : b.orders[level[m]] = b.orders[k]}) IN RemoveAt(level, j)

Cancelled(engine, b, k) ==
  LET o    == b.orders[k]
      gone == IF IsIndexed(engine) THEN Leave(b, k, WithoutEqual(b, b.level[o.side][o.price], k), o.quantity)
              ELSE [b EXCEPT !.resting = Remove(@, k)]
  IN  [book |-> [gone EXCEPT !.orders[k].status = "cancelled"], out |-> <<"cancelled", TRUE>>]

CancelOrder(engine, b, id) ==
  IF ~IsResting(engine, b, id) THEN [book |-> b, out |-> <<"cancelled", FALSE>>]
  ELSE Cancelled(engine, b, IF IsIndexed(engine) THEN b.index[id]
                            ELSE CHOOSE k \in Range(b.resting) : b.orders[k].id = id)

Apply(engine, b, op) ==
  CASE op[1] = "limit"  -> AddOrder(engine, b, op[2], op[3], op[4], op[5])
    [] op[1] = "market" -> MatchMarketOrder(engine, b, op[3], op[4])
    [] op[1] = "cancel" -> CancelOrder(engine, b, op[2])

\* len(book).
RestingOrders(engine, b) ==
  IF IsIndexed(engine) THEN Cardinality({id \in Ids : b.index[id] # 0}) ELSE Len(b.resting)

\* get_depth of a side: its levels, best first.  Both kinds of book sort their prices.
DepthLevels == 5

Totals(engine, b, side) ==
  IF IsIndexed(engine) THEN {<<p, b.total[side][p]>> : p \in Levels(b, side)}
  ELSE LET at(p) == {k \in Range(b.resting) : b.orders[k].side = side /\ b.orders[k].price = p}
       IN  {<<p, MapThenSumSet(LAMBDA k : b.orders[k].quantity, at(p))>> : p \in {q \in Prices : at(q) # {}}}

Depth(engine, b, side) ==
  LET rows == SetToSortSeq(Totals(engine, b, side), LAMBDA x, y : Beats(side, x[1], y[1]))
  IN  SubSeq(rows, 1, Min({Len(rows), DepthLevels}))

\* best_bid and best_ask, 0 for None.
BestPrice(b, maker) == IF maker = 0 THEN 0 ELSE b.orders[maker].price

Observe(engine, b) ==
  [depth   |-> [s \in Side |-> Depth(engine, b, s)],
   best    |-> [s \in Side |-> BestPrice(b, Maker(engine, b, s))],
   resting |-> RestingOrders(engine, b), orders |-> b.orders]
=============================================================================
