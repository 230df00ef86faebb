----------------------------- MODULE NativeBooks -----------------------------
(***************************************************************************)
(* The native book as a value, beside the Python books of module Books:    *)
(* class OrderBook of src/native/include/ee/order_book.hpp, called through *)
(* src/native/python/binding.cpp or from C++, and NativeOrderBook of       *)
(* src/src/exchange_engine/native_book.py, which keeps the Order objects   *)
(* of the resting orders beside it.  (Module NativeBook has the calls step *)
(* by step.)                                                               *)
(*                                                                         *)
(* Prices are in ticks.  The core counts lots of 1e-8, its callers units   *)
(* of 1e-6.                                                                *)
(***************************************************************************)
EXTENDS Books

CONSTANT Window  \* window_ticks

SL == INSTANCE SideLevels

-----------------------------------------------------------------------------
(* The core.                                                               *)

NoNode   == [side |-> "bid", price |-> 0, qty |-> 0]
NewLevel == [total |-> 0, list |-> <<>>]

\* ids_ with the nodes (NoNode for none), the sides and their levels.
NewCore ==
  [node  |-> [id \in Ids |-> NoNode],
   sides |-> [s \in Side |-> SL!NewSide(s)],
   level |-> [s \in Side |-> [p \in Prices |-> NewLevel]]]

InCore(core, id) == core.node[id] # NoNode

\* A level that changed; one without orders is dropped.
SetLevel(core, side, price, total, list) ==
  [core EXCEPT !.level[side][price] = [total |-> total, list |-> list],
               !.sides[side] = IF list = <<>> THEN SL!Erase(@, price) ELSE @]

\* One fill of consume: t is the core, what the taker has left and the fills so far.
Hit(side, t) ==
  LET price  == t.core.sides[side].best
      level  == t.core.level[side][price]
      maker  == Head(level.list)
      traded == Min({t.left, t.core.node[maker].qty})
      left   == t.core.node[maker].qty - traded
      nodes  == [t.core EXCEPT !.node[maker] = IF left = 0 THEN NoNode ELSE [@ EXCEPT !.qty = left]]
  IN  [core |-> SetLevel(nodes, side, price, level.total - traded, IF left = 0 THEN Tail(level.list) ELSE level.list),
       left |-> t.left - traded,
       raw  |-> Append(t.raw, [maker |-> maker, price |-> price, lots |-> traded, left |-> left])]

RECURSIVE ConsumeLevels(_, _, _)
ConsumeLevels(taker, limit, t) ==
  LET best == t.core.sides[Opposite(taker)].best
  IN  IF t.left = 0 \/ best = SL!NoLevel \/ ~Within(taker, limit, best) THEN t
      ELSE ConsumeLevels(taker, limit, Hit(Opposite(taker), t))

CoreMatch(core, side, limit, lots) == ConsumeLevels(side, limit, [core |-> core, left |-> lots, raw |-> <<>>])

CoreRest(core, id, side, price, lots) ==
  LET new   == SL!Find(core.sides[side], price) = SL!NoLevel
      level == IF new THEN NewLevel ELSE core.level[side][price]
  IN  [core EXCEPT !.sides[side] = IF new THEN SL!Insert(@, price) ELSE @,
                   !.level[side][price] = [total |-> level.total + lots, list |-> Append(level.list, id)],
                   !.node[id] = [side |-> side, price |-> price, qty |-> lots]]

\* What the call that left t has still to do: the rest of its order rests.
CoreSettled(t, id, side, price) ==
  IF t.left = 0 THEN t ELSE [t EXCEPT !.core = CoreRest(@, id, side, price, t.left)]

\* add_limit of an id that is not resting.
CoreAdd(core, id, side, price, lots) == CoreSettled(CoreMatch(core, side, price, lots), id, side, price)

CoreCancel(core, id) ==
  LET n     == core.node[id]
      level == core.level[n.side][n.price]
  IN  SetLevel([core EXCEPT !.node[id] = NoNode], n.side, n.price, level.total - n.qty, Remove(level.list, id))

CoreSize(core) == Cardinality({id \in Ids : InCore(core, id)})

\* depth: the levels as visit shows them, at most n.
CoreDepth(core, side, n) ==
  LET shown == SL!Visit(core.sides[side], n) IN [j \in DOMAIN shown |-> <<shown[j], core.level[side][shown[j]].total>>]

CoreAnswer(t) == [core |-> t.core, fills |-> Len(t.raw), found |-> FALSE]

\* An operation in lots, called from C++ or through the binding: the core afterwards,
\* the number of its fills, and whether a cancel found its order.  An id that rests is
\* refused: it is an AddError, and the binding raises.
CoreApply(core, op) ==
  CASE op[1] = "limit" /\ InCore(core, op[2]) -> [core |-> core, fills |-> 0, found |-> FALSE]
    [] op[1] = "limit" /\ ~InCore(core, op[2]) -> CoreAnswer(CoreAdd(core, op[2], op[3], op[4], op[5]))
    [] op[1] = "market" -> CoreAnswer(CoreMatch(core, op[3], 0, op[4]))
    [] op[1] = "cancel" ->
         [core |-> IF InCore(core, op[2]) THEN CoreCancel(core, op[2]) ELSE core, fills |-> 0, found |-> InCore(core, op[2])]

-----------------------------------------------------------------------------
(* NativeOrderBook.                                                        *)

\* _lots and _qty.
Lots(quantity) == 100 * quantity
Quantity(lots) == lots \div 100

\* The core, the accepted orders, and _orders: the positions of those that rest, 0 for
\* none.
EmptyNative == [core |-> NewCore, orders |-> <<>>, held |-> [id \in Ids |-> 0]]

\* Mutant: an order that was filled stays in _orders.
FillAppliedHeld(b, f) ==
  LET k == b.held[f.maker]
  IN  IF k = 0 THEN b
      ELSE [b EXCEPT !.orders[k].quantity = Quantity(f.left), !.orders[k].status = IF f.left = 0 THEN "filled" ELSE "partial"]

\* A fill as _fills makes it known to the order it hit.
FillApplied(b, f) ==
  LET k == b.held[f.maker]
  IN  IF k = 0 THEN b
      ELSE [b EXCEPT !.orders[k].quantity = Quantity(f.left),
                     !.orders[k].status = IF f.left = 0 THEN "filled" ELSE "partial",
                     !.held[f.maker] = IF f.left = 0 THEN 0 ELSE k]

\* The book after a call of the core that left t.
WithFills(b, t) == FoldLeft(FillApplied, [b EXCEPT !.core = t.core], t.raw)

FillsOf(t) == <<"fills", [j \in DOMAIN t.raw |-> <<t.raw[j].price, Quantity(t.raw[j].lots)>>]>>

NativeAdded(b, t, id, side, price, quantity) ==
  LET after == WithFills(b, t)
      o     == [id |-> id, side |-> side, price |-> price, quantity |-> Quantity(t.left),
                status |-> IF t.left = 0 THEN "filled" ELSE IF t.left < Lots(quantity) THEN "partial" ELSE "open"]
  IN  [after EXCEPT !.orders = Append(@, o), !.held[id] = IF t.left > 0 THEN Len(b.orders) + 1 ELSE @]

NativeAddOrder(b, id, side, price, quantity) ==
  LET answer(t) == [book |-> NativeAdded(b, t, id, side, price, quantity), out |-> FillsOf(t)]
  IN  IF b.held[id] # 0 \/ InCore(b.core, id) THEN [book |-> b, out |-> <<"error">>]
      ELSE answer(CoreAdd(b.core, id, side, price, Lots(quantity)))

NativeMatchMarketOrder(b, side, quantity) ==
  LET answer(t) == [book |-> WithFills(b, t), out |-> FillsOf(t)] IN answer(CoreMatch(b.core, side, 0, Lots(quantity)))

NativeCancelOrder(b, id) ==
  IF ~InCore(b.core, id) THEN [book |-> b, out |-> <<"cancelled", FALSE>>]
  ELSE [book |-> [b EXCEPT !.core = CoreCancel(@, id), !.held[id] = 0,
                           !.orders = [k \in DOMAIN @ |-> IF k = b.held[id] THEN [@[k] EXCEPT !.status = "cancelled"] ELSE @[k]]],
        out |-> <<"cancelled", TRUE>>]

NativeApply(b, op) ==
  CASE op[1] = "limit"  -> NativeAddOrder(b, op[2], op[3], op[4], op[5])
    [] op[1] = "market" -> NativeMatchMarketOrder(b, op[3], op[4])
    [] op[1] = "cancel" -> NativeCancelOrder(b, op[2])

NativeDepth(b, side) ==
  LET rows == CoreDepth(b.core, side, DepthLevels) IN [j \in DOMAIN rows |-> <<rows[j][1], Quantity(rows[j][2])>>]

NativeObserve(b) ==
  [depth   |-> [s \in Side |-> NativeDepth(b, s)],
   best    |-> [s \in Side |-> b.core.sides[s].best],
   resting |-> CoreSize(b.core), orders |-> b.orders]

-----------------------------------------------------------------------------
(* The book of any engine.                                                 *)

EmptyOf(engine)         == IF engine = "NativeOrderBook" THEN EmptyNative ELSE Empty
ApplyTo(engine, b, op)  == IF engine = "NativeOrderBook" THEN NativeApply(b, op) ELSE Apply(engine, b, op)
ObserveOf(engine, b)    == IF engine = "NativeOrderBook" THEN NativeObserve(b) ELSE Observe(engine, b)
SizeOf(engine, b)       == IF engine = "NativeOrderBook" THEN CoreSize(b.core) ELSE RestingOrders(engine, b)

\* Every operation of s applied in turn, to a new book.
Applied(engine, s) ==
  LET applied[k \in DOMAIN s] == ApplyTo(engine, IF k = 1 THEN EmptyOf(engine) ELSE applied[k - 1].book, s[k]) IN applied

\* The same for the bare core.
CoreApplied(s) ==
  LET applied[k \in DOMAIN s] == CoreApply(IF k = 1 THEN NewCore ELSE applied[k - 1].core, s[k]) IN applied
=============================================================================
