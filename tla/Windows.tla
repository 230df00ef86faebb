------------------------------ MODULE Windows ------------------------------
(***************************************************************************)
(* The rolling windows of the metrics and of the order flow study: their   *)
(* NumPy references in src/bench/ref_scans.py and src/bench/ref_ofi.py.    *)
(*                                                                         *)
(* Rows of several products are received mixed; sorted by product, they    *)
(* are scanned once, and the sum over a window is the difference of two    *)
(* prefixes.  A row's value is a power of two, so that a sum tells which   *)
(* rows are in it.  Floating point, the stencil's arithmetic, the          *)
(* regression and the choice of the points to draw are left out; of a mid  *)
(* it is kept whether there is one.  Positions count from 0, as in the     *)
(* code.                                                                   *)
(***************************************************************************)
EXTENDS Integers, Sequences, SequencesExt, FiniteSetsExt

CONSTANTS
  None,
  Products,  \* number of products, from 0 on
  MaxRows,   \* bound on the number of rows
  MaxTime,   \* bound on receive times
  Trades,    \* trades of a trade window
  WindowNs,  \* length of a time window
  HorizonNs  \* horizon of the study

ProductId == 0 .. Products - 1

VARIABLES
  rows,   \* Seq([product, ts]) in receive order
  noMid,  \* the row whose book has a side missing, or 0
  result  \* what was computed, or None

vars == <<rows, noMid, result>>

-----------------------------------------------------------------------------
(* Segments.                                                               *)

Most(a, b) == IF a > b THEN a ELSE b

Size == Len(rows)

\* Stable sort by product.
Sorted ==
  SortSeq([k \in 1 .. Size |-> k],
          LAMBDA a, b : rows[a].product < rows[b].product \/ (rows[a].product = rows[b].product /\ a < b))

Order(pos)   == Sorted[pos + 1]
Count(p)     == Cardinality({k \in 1 .. Size : rows[k].product = p})
SegEnd(p)    == MapThenSumSet(Count, 0 .. p)
SegStart(p)  == SegEnd(p) - Count(p)
Ts(pos)      == rows[Order(pos)].ts
Product(pos) == rows[Order(pos)].product
Value(row)   == 2 ^ (row - 1)

\* cumsum over all of them: one scan serves every product.
Prefix(pos) == MapThenSumSet(LAMBDA q : Value(Order(q)), 0 .. pos)
Before(pos) == IF pos >= 0 THEN Prefix(pos) ELSE 0

\* from + searchsorted(ts[from:to], t, side="right").
SearchRight(from, to, t) == from + Cardinality({q \in from .. to - 1 : Ts(q) <= t})

-----------------------------------------------------------------------------
(* Windows.                                                                *)

\* Mutant: a window is not cut off where its product begins.
NotCutOff(pos) == pos - Trades

LastExcluded(pos) == Most(pos - Trades, SegStart(Product(pos)) - 1)

\* vwap_trades_numpy: the last trades of the same product.
VwapTrades(pos) == Prefix(pos) - Before(LastExcluded(pos))

\* vwap_time_numpy: the product's trades in (t - W, t], NaN when there are none.
VwapTime(p, t) ==
  LET hi == SearchRight(SegStart(p), SegEnd(p), t) - 1
      lo == SearchRight(SegStart(p), SegEnd(p), t - WindowNs)
  IN  IF hi >= lo THEN Prefix(hi) - Before(lo - 1) ELSE None

\* window_mean_numpy: <<sum, number>> of the product's rows in (t - W, t], up to this one.
WindowMean(pos) ==
  LET p  == Product(pos)
      lo == SearchRight(SegStart(p), SegEnd(p), Ts(pos) - WindowNs)
  IN  <<Prefix(pos) - Before(lo - 1), pos - lo + 1>>

-----------------------------------------------------------------------------
(* The order flow study.                                                   *)

\* Mutant: the first row of a product is taken with the last one of another.
AnyNeighbours(pos) == pos >= 1

SameProduct(pos) == pos >= 1 /\ Product(pos) = Product(pos - 1)

\* ofi_numpy: the two rows that the flow of a row is computed from, None for no flow.
Ofi(pos) == IF SameProduct(pos) THEN <<Order(pos - 1), Order(pos)>> ELSE None

HasMid(pos) == Order(pos) # noMid

Keep(pos, hi, last) == Ts(pos) + HorizonNs <= Ts(last) /\ HasMid(pos) /\ HasMid(hi)

\* horizon_xy over a product's segment: the sum x is over and the row y looks ahead to, for
\* the rows that are kept.
HorizonXY(pos) ==
  LET p    == Product(pos)
      lo   == SearchRight(SegStart(p), SegEnd(p), Ts(pos) - HorizonNs)
      hi   == SearchRight(SegStart(p), SegEnd(p), Ts(pos) + HorizonNs) - 1
  IN  IF Keep(pos, hi, SegEnd(p) - 1) THEN [x |-> Prefix(pos) - Before(lo - 1), ahead |-> Order(hi)] ELSE None

-----------------------------------------------------------------------------

\* By row, and by product and time.
ByRow(Op(_)) == [row \in 1 .. Size |-> Op(CHOOSE pos \in 0 .. Size - 1 : Order(pos) = row)]

Compute ==
  /\ result = None
  /\ result' = [trades  |-> ByRow(VwapTrades), mean |-> ByRow(WindowMean),
                time    |-> [p \in ProductId |-> [t \in 0 .. MaxTime |-> VwapTime(p, t)]],
                ofi     |-> ByRow(Ofi), horizon |-> ByRow(HorizonXY)]
  /\ UNCHANGED <<rows, noMid>>

\* A product's rows are in the order of their times.
Init ==
  /\ rows \in UNION {[1 .. m -> [product : ProductId, ts : 0 .. MaxTime]] : m \in 1 .. MaxRows}
  /\ \A j, k \in DOMAIN rows : j < k /\ rows[j].product = rows[k].product => rows[j].ts <= rows[k].ts
  /\ noMid \in 0 .. Size /\ result = None

Next == Compute

Spec == Init /\ [][Next]_vars

-----------------------------------------------------------------------------
(* Properties.                                                             *)

\* The rows of the product of a row that were received up to it.
Own(row) == {k \in 1 .. row : rows[k].product = rows[row].product}

SumOf(set) == MapThenSumSet(Value, set)

\* Each window holds what its name says, of its own product and nothing of the
\* products that share the scan with it: the last trades; the trades received in
\* (t - W, t]; the snapshots in (t - W, t], up to the one it belongs to.
WindowsHoldTheirOwn ==
  result # None =>
    /\ \A row \in 1 .. Size :
         /\ result.trades[row] = SumOf({k \in Own(row) : Cardinality({j \in Own(row) : j >= k}) <= Trades})
         /\ LET inside == {k \in Own(row) : rows[k].ts > rows[row].ts - WindowNs}
            IN  result.mean[row] = <<SumOf(inside), Cardinality(inside)>>
    /\ \A p \in ProductId, t \in 0 .. MaxTime :
         LET inside == {k \in 1 .. Size : rows[k].product = p /\ t - WindowNs < rows[k].ts /\ rows[k].ts <= t}
         IN  result.time[p][t] = IF inside = {} THEN None ELSE SumOf(inside)

\* The study predicts from the past and is scored on what it could not have seen: a
\* row's flow is that from the product's row before it; x is over the horizon up to
\* the row; y is at the last row of the product within the horizon ahead, and only
\* if the recording reaches that far and both mids are there.
StudyLooksNoFurther ==
  result # None => \A row \in 1 .. Size :
    LET own    == {k \in 1 .. Size : rows[k].product = rows[row].product}
        past   == {k \in own : k < row}
        ahead  == Max({k \in own : rows[k].ts <= rows[row].ts + HorizonNs})
        within == \E k \in own : rows[k].ts >= rows[row].ts + HorizonNs
        study  == result.horizon[row]
    IN  /\ result.ofi[row] = IF past = {} THEN None ELSE <<Max(past), row>>
        /\ study # None <=> within /\ noMid \notin {row, ahead}
        /\ study # None =>
             /\ study.ahead = ahead
             /\ study.x = SumOf({k \in Own(row) : rows[k].ts > rows[row].ts - HorizonNs})

\* Nothing of another product, and nothing of the future, gets into a row's numbers.
NothingForeign == WindowsHoldTheirOwn /\ StudyLooksNoFurther
=============================================================================
