---------------------------- MODULE SnapshotGate ----------------------------
(***************************************************************************)
(* The book mirror and the snapshot rule that the recorder runs live and   *)
(* the archive builder runs again over the raw log: ProductBook of         *)
(* src/exchange_engine/feed.py and SnapshotGate of archive.py.             *)
(*                                                                         *)
(* A book is the quantity at every price level, 0 where there is no level. *)
(* An event is a "snapshot" or an "update" with the quantities of some     *)
(* levels.  lastEmit and lastTop are sets of at most one element, empty    *)
(* where the code has None.                                                *)
(***************************************************************************)
EXTENDS Integers, FiniteSets

CONSTANTS
  Price,     \* prices a level can have
  Quantity,  \* quantities, with 0 for no level
  Depth,     \* LEVELS: levels per side that make a snapshot
  Interval   \* MIN_SNAPSHOT_INTERVAL_NS

ASSUME GateAssumption ==
  Price \subseteq Int /\ 0 \in Quantity /\ Depth \in Nat \ {0} /\ Interval \in Nat

Level == {"bid", "offer"} \X Price
Book  == [Level -> Quantity]

EmptyBook == [l \in Level |-> 0]

BookAfterWithoutClear(book, event) ==
  [l \in Level |-> IF l \in DOMAIN event.updates THEN event.updates[l] ELSE book[l]]

\* set_level for every update of an event, after clear() for a snapshot.
BookAfter(book, event) ==
  [l \in Level |-> IF l \in DOMAIN event.updates THEN event.updates[l]
                   ELSE IF event.type = "snapshot" THEN 0 ELSE book[l]]

-----------------------------------------------------------------------------

Present(book) == {l \in Level : book[l] # 0}

\* l comes after m on its side.
Behind(l, m) == l[1] = m[1] /\ IF l[1] = "bid" THEN l[2] < m[2] ELSE l[2] > m[2]

\* The best Depth levels of each side with their quantities.
Top(book) ==
  LET best == {l \in Present(book) :
                 Cardinality({m \in Present(book) : Behind(l, m)}) < Depth}
  IN  [l \in best |-> book[l]]

Crossed(top) ==
  \E b, a \in DOMAIN top : b[1] = "bid" /\ a[1] = "offer" /\ b[2] >= a[2]

FreshGate ==
  [book |-> EmptyBook, ready |-> FALSE, lastEmit |-> {}, lastTop |-> {},
   count |-> 0, crossed |-> 0]

\* on_connect, and a connect line in the builder.
NotReady(gate) == [gate EXCEPT !.ready = FALSE]

\* Too soon after the last emission.
Quiet(gate, now) == \E t \in gate.lastEmit : now - t < Interval

ApplyEvent(gate, event, now) ==
  LET mirror == [gate EXCEPT !.book  = BookAfter(@, event),
                             !.ready = @ \/ event.type = "snapshot"]
      top    == Top(mirror.book)
  IN  IF ~mirror.ready \/ Quiet(gate, now) \/ top \in gate.lastTop THEN mirror
      ELSE IF Crossed(top) THEN [mirror EXCEPT !.crossed = @ + 1]
      ELSE [mirror EXCEPT !.lastTop = {top}, !.lastEmit = {now}, !.count = @ + 1]

=============================================================================
