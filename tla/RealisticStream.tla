-------------------------- MODULE RealisticStream --------------------------
(***************************************************************************)
(* The order stream that is derived from a recorded book: derive and       *)
(* _Generator of src/bench/realistic_stream.py.                            *)
(*                                                                         *)
(* The generator keeps a book in an engine of its own.  A trade becomes a  *)
(* market order; a snapshot is reconciled with the book by cancels and     *)
(* limit orders.  A level of the book is the queue of its orders' lots,    *)
(* oldest first.  Ids, times and the engine's inside are left out.         *)
(***************************************************************************)
EXTENDS Integers, SequencesExt, FiniteSetsExt

CONSTANTS
  MaxTicks, MaxLots,  \* bounds: prices 1..MaxTicks, lots of a level of a snapshot
  MaxTrade            \* bound: lots of a trade

Ticks == 1..MaxTicks
Side  == {"bid", "ask"}
Other(side) == IF side = "bid" THEN "ask" ELSE "bid"

\* A snapshot: {ticks: lots} of each side, never crossed.
Present(levels) == {p \in Ticks : levels[p] > 0}
Snapshot ==
  {t \in [Side -> [Ticks -> 0..MaxLots]] :
     \A b \in Present(t["bid"]), a \in Present(t["ask"]) : b < a}

VARIABLES
  book,    \* [Side -> [Ticks -> queue of lots]]
  target,  \* the snapshot just reconciled, or <<>>
  met      \* the levels that its limit orders matched

vars == <<book, target, met>>

-----------------------------------------------------------------------------
(* The engine: orders match lot by lot from the best price on.             *)

Sum(queue) == LET first[k \in 0..Len(queue)] == IF k = 0 THEN 0 ELSE first[k - 1] + queue[k] IN first[Len(queue)]

Lots(b, side, p) == Sum(b[side][p])
Resting(b, side) == {p \in Ticks : b[side][p] # <<>>}
Best(b, side)    == IF side = "bid" THEN Max(Resting(b, side)) ELSE Min(Resting(b, side))

\* A lot taken from the front of the best queue.
TakeLot(b, side) ==
  LET p == Best(b, side)
  IN  [b EXCEPT ![side][p] = IF Head(@) = 1 THEN Tail(@) ELSE <<Head(@) - 1>> \o Tail(@)]

\* The lots an order finds at its price or better, up to its own.
Matched(b, side, within, lots) ==
  Min({lots, MapThenSumSet(LAMBDA p : Lots(b, side, p), {p \in Resting(b, side) : within[p]})})

Times(n) == [i \in 1..n |-> i]

Take(b, side, n) == FoldLeft(LAMBDA c, i : TakeLot(c, side), b, Times(n))

\* limit: s is the book and the levels that were met.
Limit(s, side, p, lots) ==
  LET within == [q \in Ticks |-> IF side = "bid" THEN q <= p ELSE q >= p]
      n      == Matched(s.book, Other(side), within, lots)
      after  == Take(s.book, Other(side), n)
      levels == {q \in Ticks : after[Other(side)][q] # s.book[Other(side)][q]}
  IN  [book |-> IF n = lots THEN after ELSE [after EXCEPT ![side][p] = Append(@, lots - n)],
       met |-> s.met \cup {<<Other(side), q>> : q \in levels}]

-----------------------------------------------------------------------------
(* reconcile.                                                              *)

Lo(want) == Min(Present(want))
Hi(want) == Max(Present(want))

\* The prices of a side between the best one and the snapshot's last level.
InRange(want, side) ==
  IF Present(want) = {} THEN {}
  ELSE {p \in Ticks : IF side = "bid" THEN p >= Lo(want) ELSE p <= Hi(want)}

\* The orders that are cancelled at a level that has to lose some lots: from the
\* newest on, until enough are gone.
Kept(queue, lose) ==
  LET keep == Max({n \in 0..Len(queue) : Sum(SubSeq(queue, n + 1, Len(queue))) >= lose})
  IN  SubSeq(queue, 1, keep)

\* The queue of a level of the range after the removals.
Removed(b, want, side, p) ==
  IF p \in InRange(want, side) /\ want[p] < Lots(b, side, p) THEN Kept(b[side][p], Lots(b, side, p) - want[p])
  ELSE b[side][p]

\* The lots to add afterwards: what a level lacks, or what was cancelled too much.
Missing(b, want, side, p) ==
  IF p \in InRange(want, side) THEN want[p] - Sum(Removed(b, want, side, p)) ELSE 0

Removals(b, t, sides) ==
  [s \in Side |-> IF s \in sides THEN [p \in Ticks |-> Removed(b, t[s], s, p)] ELSE b[s]]

\* The limit orders of a side, the lowest price first; b is the book before.
Additions(s, b, t, side) ==
  FoldLeft(LAMBDA r, p : Limit(r, side, p, Missing(b, t[side], side, p)), s,
           SetToSortSeq({p \in Ticks : Missing(b, t[side], side, p) > 0}, <))

\* Mutant: each side is finished before the next one is looked at.
ReconcileBySide(b, t) ==
  LET bids == Additions([book |-> Removals(b, t, {"bid"}), met |-> {}], b, t, "bid")
  IN  Additions([bids EXCEPT !.book = Removals(@, t, {"ask"})], bids.book, t, "ask")

\* All removals before any addition.
Reconcile(b, t) ==
  Additions(Additions([book |-> Removals(b, t, Side), met |-> {}], b, t, "bid"), b, t, "ask")

-----------------------------------------------------------------------------

Init == /\ book = [s \in Side |-> [p \in Ticks |-> <<>>]]
        /\ target = <<>> /\ met = {}

\* derive: the next event, a snapshot or a trade.
TakeSnapshot ==
  /\ target = <<>>
  /\ \E t \in Snapshot :
       /\ LET s == Reconcile(book, t) IN book' = s.book /\ met' = s.met
       /\ target' = t

\* A trade: a market order against the maker's side.
Trade ==
  /\ target = <<>>
  /\ \E side \in Side, lots \in 1..MaxTrade :
       book' = Take(book, side, Matched(book, side, [p \in Ticks |-> TRUE], lots))
  /\ UNCHANGED <<target, met>>

\* The loop turns to the event after a snapshot.
NextEvent == target # <<>> /\ target' = <<>> /\ met' = {} /\ UNCHANGED book

Next == TakeSnapshot \/ Trade \/ NextEvent

Spec == Init /\ [][Next]_vars

-----------------------------------------------------------------------------
(* Properties.                                                             *)

\* After a snapshot the generator's book is the recorded one as far as the snapshot
\* goes, whatever trades and stale levels came before, and no order that was added met
\* a level the snapshot covers.  A snapshot without one of its sides leaves that side
\* as it is, and then an added order may meet it.
FollowsTheRecording ==
  target # <<>> =>
    /\ \A level \in met : level[2] \notin InRange(target[level[1]], level[1])
    /\ Present(target["bid"]) # {} /\ Present(target["ask"]) # {} =>
         \A s \in Side : \A p \in InRange(target[s], s) : Lots(book, s, p) = target[s][p]
=============================================================================
