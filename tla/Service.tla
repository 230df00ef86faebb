------------------------------ MODULE Service ------------------------------
(***************************************************************************)
(* The order simulator behind the REST API, the serverless function and    *)
(* the command line: class MatchingEngine and its callers in               *)
(* src/src/exchange_engine/engine.py, and src/api/index.py.                *)
(*                                                                         *)
(* The engine owns a book (a ReferenceBook here, which OrderBook is shown  *)
(* to implement) and books the fills each order received.  A request is    *)
(* handled on the event loop without an await, so requests do not          *)
(* interleave; the steps in between are those of the book.                 *)
(*                                                                         *)
(* The read-only endpoints, the mark price and the feed task are left out. *)
(***************************************************************************)
EXTENDS ReferenceBook, FiniteSets, Python

CONSTANTS
  Word,      \* a word where a number should be
  Unknown,   \* a side or an order type that is neither of the two
  MaxMarket  \* bound: market orders

\* Order ids are counted up from 1; that of a market order is none of them.
ASSUME ServiceAssumption ==
  /\ Cardinality(Id) \in Nat /\ Id = 1..Cardinality(Id)
  /\ NoOrder \notin Id
  /\ MaxPrice \in Nat /\ MaxQuantity \in Nat

VARIABLES
  session,   \* what the engine serves: "api", "serverless", "cli", or "ended"
  cash, position, fills,  \* of the MatchingEngine
  answer,    \* what came of the last request
  asked,     \* history: [Side -> quantity of the limit orders the book took]
  sold       \* history: market orders the book took

serviceVars == <<order, resting, call, session, cash, position, fills, answer, asked, sold>>

-----------------------------------------------------------------------------
(* Requests.                                                               *)

\* A body of POST /order, or the tokens of a line.
OrderRequest == [side     : Side \union {Unknown},
                 kind     : {"limit", "market", Unknown},
                 price    : (0..MaxPrice) \union {None, Word},
                 quantity : (0..MaxQuantity) \union {None, Word}]

\* What a line can say: it has a limit order unless it says market.
Line == {r \in OrderRequest : r.kind # Unknown}

\* What submit_order and the book accept of what was parsed.
Accepted(r) ==
  /\ r.quantity > 0
  /\ r.kind = "limit" => r.price # None /\ r.price > 0

\* _order and post_order read every field; KeyError, ValueError and
\* InvalidOperation are all answered with 400.
Readable(r) ==
  /\ r.side # Unknown /\ r.kind # Unknown
  /\ r.quantity \notin {None, Word} /\ r.price # Word

\* parse_command raises ValueError: an unknown side, or not as many numbers as
\* the type of the order takes.
ParseError(r) ==
  \/ r.side = Unknown
  \/ /\ Word \notin {r.price, r.quantity}
     /\ \/ r.quantity = None
        \/ r.kind = "limit" /\ r.price = None
        \/ r.kind = "market" /\ r.price # None

-----------------------------------------------------------------------------
(* The engine.                                                             *)

\* The order of the next id; ids are counted up by the process.
NextOrder == CHOOSE id \in Id : order[id] = Unsent /\ \A o \in Id : o < id => order[o] # Unsent

IsSent(id) == order[id] # Unsent

\* submit_order up to the book's loop.
SubmitOrder(r) ==
  /\ answer' = "taken"
  /\ IF r.kind = "market"
     THEN /\ sold < MaxMarket /\ MatchMarketOrder(r.side, r.quantity)
          /\ sold' = sold + 1 /\ UNCHANGED asked
     ELSE /\ \E id \in Id : ~IsSent(id)
          /\ AddOrder(NextOrder, r.side, r.price, r.quantity)
          /\ asked' = [asked EXCEPT ![r.side] = @ + r.quantity]
          /\ UNCHANGED sold
  /\ UNCHANGED <<session, cash, position, fills>>

Refuse(as) ==
  /\ answer' = as
  /\ UNCHANGED <<order, resting, call, session, cash, position, fills, asked, sold>>

Fill == [order_id : Id \union {NoOrder}, price : Nat, quantity : Nat, side : Side]

Quantity(batch) == Total([f \in Fill |-> f.quantity], batch)

Paid(batch) == Total([f \in Fill |-> f.price * f.quantity], batch)

\* Mutant: what was sold is added to the position as well.
AccountForOneWay(batch) ==
  /\ cash' = IF call.side = "bid" THEN cash - Paid(batch) ELSE cash + Paid(batch)
  /\ position' = position + Quantity(batch)
  /\ fills' = fills \o batch

\* _account_for: the fills of a call all have its side.
AccountFor(batch) ==
  /\ cash' = IF call.side = "bid" THEN cash - Paid(batch) ELSE cash + Paid(batch)
  /\ position' = IF call.side = "bid" THEN position + Quantity(batch) ELSE position - Quantity(batch)
  /\ fills' = fills \o batch

\* The book returns, the engine books the fills, the caller gets them.
SubmitReturns ==
  /\ ReturnLimit \/ ReturnMarket
  /\ AccountFor(call.fills)
  /\ answer' = "fills"
  /\ UNCHANGED <<session, asked, sold>>

-----------------------------------------------------------------------------
(* The callers.                                                            *)

\* POST /order and /api/order.
PostOrder(r) ==
  /\ session \in {"api", "serverless"} /\ ~Running
  /\ IF Readable(r) /\ Accepted(r) THEN SubmitOrder(r) ELSE Refuse("rejected")

\* POST /api/reset of the serverless function: another engine.
Reset ==
  /\ session = "serverless" /\ ~Running
  /\ order' = [id \in Id |-> Unsent] /\ resting' = <<>>
  /\ cash' = 0 /\ position' = 0 /\ fills' = <<>>
  /\ answer' = "reset" /\ asked' = [s \in Side |-> 0] /\ sold' = 0
  /\ UNCHANGED <<call, session>>

\* A line of the CLI.  The try is around parse_command and for ValueError only:
\* what Decimal raises for a word, and what submit_order raises, ends run_cli.
EnterLine(r) ==
  /\ session = "cli" /\ ~Running
  /\ IF ParseError(r) THEN Refuse("parse error")
     ELSE IF Word \notin {r.price, r.quantity} /\ Accepted(r) THEN SubmitOrder(r)
     ELSE /\ session' = "ended"
          /\ answer' = IF Word \in {r.price, r.quantity} THEN "InvalidOperation" ELSE "ValueError"
          /\ UNCHANGED <<order, resting, call, cash, position, fills, asked, sold>>

\* quit, exit or the end of the input.
Quit ==
  /\ session = "cli" /\ ~Running
  /\ session' = "ended" /\ answer' = "bye"
  /\ UNCHANGED <<order, resting, call, cash, position, fills, asked, sold>>

ServiceInit ==
  /\ Init
  /\ session \in {"api", "serverless", "cli"}
  /\ cash = 0 /\ position = 0 /\ fills = <<>>
  /\ answer = "none"
  /\ asked = [s \in Side |-> 0] /\ sold = 0

ServiceNext ==
  \/ \E r \in OrderRequest : PostOrder(r)
  \/ \E r \in Line : EnterLine(r)
  \/ Reset \/ Quit
  \/ Consume /\ UNCHANGED <<session, cash, position, fills, answer, asked, sold>>
  \/ SubmitReturns

ServiceSpec == ServiceInit /\ [][ServiceNext]_serviceVars

-----------------------------------------------------------------------------
(* Properties.                                                             *)

\* What the orders of a side have left, those that were filled 0.
Unexecuted(side) == Total([id \in Id |-> IF order[id].side = side THEN order[id].quantity ELSE 0], [id \in Id |-> id])

\* What limit orders of a side have traded, as takers or as makers.
Executed(side) == asked[side] - Unexecuted(side)

\* What the fills of a batch come to that are of these orders and of one side.
Taken(side, ids, batch) ==
  Total([f \in Fill |-> IF f.side = side /\ f.order_id \in ids THEN f.quantity ELSE 0], batch)

\* The engine books the fills of the order that comes in and never those of the
\* orders it meets, which are its own too.  Between requests every trade is booked
\* exactly once all the same: what the bids of the engine traded, the market buys
\* included, is all of its fills, and so is what the asks traded; and the position
\* is what came in through bids that took less what went out through asks that took.
BookedOnce ==
  ~Running =>
    /\ \A side \in Side : Executed(side) + Taken(side, {NoOrder}, fills) = Quantity(fills)
    /\ LET all == Id \union {NoOrder} IN position = Taken("bid", all, fills) - Taken("ask", all, fills)

=============================================================================
