------------------------------ MODULE Slippage ------------------------------
(***************************************************************************)
(* The execution-cost kernels: slippage_naive and slippage_warp of         *)
(* src/cuda/slippage.cu, and the references they are checked against in    *)
(* src/bench/ref_slippage.py.                                              *)
(*                                                                         *)
(* A snapshot side is a sequence of levels, best first, with padding where *)
(* there is none; a target is a notional.  The warp of a snapshot has      *)
(* WarpSize lanes: a lane loads its own level and the one a warp further,  *)
(* the sums are made by shuffles, which all lanes take part in, and        *)
(* published in shared memory; then every lane searches its two targets in *)
(* it while the others are where they like, up to the next __syncwarp.     *)
(* Sums are exact here and float64 in the code.  An average price is kept  *)
(* as the quantity it divides by: a sum of sizes, and a rest of notional   *)
(* over the price it is filled at.                                         *)
(***************************************************************************)
EXTENDS Integers, FiniteSetsExt

CONSTANTS
  None,
  WarpSize,  \* 32
  Levels,    \* SLIPPAGE_LEVELS: more than WarpSize, less than twice that
  Price,     \* [1..Levels -> price]: of a level that is there
  LevelSize, \* sizes of a level, 0 for one that was too small for a float32
  Target     \* [1..2 * WarpSize -> notional]

ASSUME SlippageAssumption ==
  /\ WarpSize \in Nat \ {0} /\ Levels \in WarpSize..2 * WarpSize
  /\ Price \in [1..Levels -> Nat] /\ LevelSize \subseteq Nat
  /\ Target \in [1..2 * WarpSize -> Nat]

WarpLane == 0..WarpSize - 1
Side == {"buy", "sell"}

\* Levels that are there and then padding.
Books == UNION {{[l \in 1..Levels |-> IF l <= n THEN [px |-> Price[l], sz |-> size[l]] ELSE [px |-> 0, sz |-> 0]] :
                   size \in [1..n -> LevelSize]} : n \in 0..Levels}

VARIABLES
  snapshot, \* [Side -> levels]: a buy walks the asks
  side,     \* the side the warp is at
  laneAt,   \* [WarpLane -> "scan", "publish", "meet", "search" or "done"]
  mine,     \* [WarpLane -> what the scan left in its registers]
  shared,   \* [1..Levels -> sums and price]
  search,   \* [WarpLane -> [rep, lo, hi]]
  stored    \* [Side \X (1..2 * WarpSize) -> result, or None]

slippageVars == <<snapshot, side, laneAt, mine, shared, search, stored>>

-----------------------------------------------------------------------------
(* The walk.                                                               *)

Valid(level) == level.sz > 0 /\ level.px > 0

\* What is stored of an order: slip_bps and avg_offset are NaN when known is FALSE.
MidOk == \A s \in Side : snapshot[s][1].px > 0
Result(used, full, notional, size, rest, px) ==
  [used |-> used, full |-> full, notional |-> notional,
   quantity |-> IF full THEN <<size, rest, px>> ELSE <<size, 0, 0>>,
   known |-> MidOk /\ (size > 0 \/ (full /\ rest > 0))]

\* A level more: w.n and w.q are what the levels passed so far sum up to.
Walked(w, level, target) ==
  IF w.stop THEN w
  ELSE IF ~Valid(level) THEN [w EXCEPT !.stop = TRUE]
  ELSE IF w.n + level.px * level.sz >= target
  THEN [w EXCEPT !.used = @ + 1, !.full = TRUE, !.stop = TRUE, !.rest = target - w.n, !.px = level.px]
  ELSE [w EXCEPT !.used = @ + 1, !.n = @ + level.px * level.sz, !.q = @ + level.sz]

Unfilled == [n |-> 0, q |-> 0, used |-> 0, full |-> FALSE, stop |-> FALSE, rest |-> 0, px |-> 0]

WalkEnd(levels, target) ==
  LET w[l \in 0..Levels] == IF l = 0 THEN Unfilled ELSE Walked(w[l - 1], levels[l], target)
  IN  w[Levels]

\* slippage_naive and walk_book_decimal: level by level.
Walk(levels, target) ==
  LET end == WalkEnd(levels, target)
  IN  Result(end.used, end.full, IF end.full THEN target ELSE end.n, end.q, end.rest, end.px)

\* Mutant: the valid levels are counted.
CountValid(levels) == Cardinality({l \in 1..Levels : Valid(levels[l])})

\* _leading_valid, and m of the warp.
LeadingValid(levels) == Max({m \in 0..Levels : \A l \in 1..m : Valid(levels[l])})

\* A level is passed when the sum up to it is below the target: ties fill.
Below(sum, target) == sum < target

\* The order that passes j of the m valid levels, given the sums and prices.
Resolved(sums, m, j, target) ==
  LET before(l) == IF l > 0 THEN sums[l] ELSE [n |-> 0, q |-> 0, px |-> 0]
  IN  IF j < m THEN Result(j + 1, TRUE, target, before(j).q, target - before(j).n, sums[j + 1].px)
      ELSE Result(m, FALSE, before(m).n, before(m).q, 0, 0)

\* What counts of a level, the m valid ones given; and the sums of that, from no level on.
Notional(levels, m) == [l \in 1..Levels |-> IF l <= m THEN levels[l].px * levels[l].sz ELSE 0]
Quantity(levels, m) == [l \in 1..Levels |-> IF l <= m THEN levels[l].sz ELSE 0]
Cumsum(value) == LET c[l \in 0..Levels] == IF l = 0 THEN 0 ELSE c[l - 1] + value[l] IN c

\* _side_numpy: cumulative sums, masked, and how many of them are below the target.
SideNumpy(levels, target) ==
  LET m    == LeadingValid(levels)
      sumN == Cumsum(Notional(levels, m))
      sumQ == Cumsum(Quantity(levels, m))
      sums == [l \in 1..Levels |-> [n |-> sumN[l], q |-> sumQ[l], px |-> levels[l].px]]
  IN  Resolved(sums, m, Cardinality({l \in 1..m : Below(sums[l].n, target)}), target)

-----------------------------------------------------------------------------
(* The warp.                                                               *)

Loaded(levels, l) == IF l <= Levels THEN levels[l] ELSE [px |-> 0, sz |-> 0]

\* Offsets of __shfl_up_sync, doubled while there are as many lanes.
Offset == LET off[k \in 0..WarpSize] == IF k = 0 THEN 1 ELSE 2 * off[k - 1] IN off

Shuffles == Min({k \in 0..WarpSize : Offset[k] >= WarpSize})

ShuffledBy(off, v) == [l \in WarpLane |-> IF l >= off THEN v[l] + v[l - off] ELSE v[l]]

\* The inclusive sum of a value of every lane.
ShuffleUp(value) ==
  LET v[k \in 0..Shuffles] == IF k = 0 THEN value ELSE ShuffledBy(Offset[k - 1], v[k - 1]) IN v[Shuffles]

Inclusive(lower, upper) ==
  LET total == ShuffleUp(lower)[WarpSize - 1]
  IN  <<ShuffleUp(lower), [l \in WarpLane |-> ShuffleUp(upper)[l] + total]>>

\* The values of a lane's two levels, beyond the last level nothing.
Lower(value) == [l \in WarpLane |-> value[l + 1]]
Upper(value) == [l \in WarpLane |-> IF l + 1 + WarpSize <= Levels THEN value[l + 1 + WarpSize] ELSE 0]

\* Load, ballots and shuffles: no lane gets beyond before the last one has come.
Scan ==
  /\ \A l \in WarpLane : laneAt[l] = "scan"
  /\ LET levels == snapshot[side]
         m      == LeadingValid(levels)
         sumN   == Inclusive(Lower(Notional(levels, m)), Upper(Notional(levels, m)))
         sumQ   == Inclusive(Lower(Quantity(levels, m)), Upper(Quantity(levels, m)))
     IN  mine' = [l \in WarpLane |->
                    [m |-> m, lower |-> [n |-> sumN[1][l], q |-> sumQ[1][l], px |-> levels[l + 1].px],
                     upper |-> [n |-> sumN[2][l], q |-> sumQ[2][l], px |-> Loaded(levels, l + 1 + WarpSize).px]]]
  /\ laneAt' = [l \in WarpLane |-> "publish"]
  /\ UNCHANGED <<snapshot, side, shared, search, stored>>

WholeRange(m) == [rep |-> 0, lo |-> 0, hi |-> m]

\* Mutant: a lane that has published goes on.
PublishAndGo(l) ==
  /\ laneAt[l] = "publish"
  /\ shared' = [i \in 1..Levels |-> IF i = l + 1 THEN mine[l].lower
                                    ELSE IF i = l + 1 + WarpSize THEN mine[l].upper ELSE shared[i]]
  /\ laneAt' = [laneAt EXCEPT ![l] = "search"]
  /\ search' = [search EXCEPT ![l] = WholeRange(mine[l].m)]
  /\ UNCHANGED <<snapshot, side, mine, stored>>

\* A lane writes its sums to shared memory and waits.
Publish(l) ==
  /\ laneAt[l] = "publish"
  /\ shared' = [i \in 1..Levels |-> IF i = l + 1 THEN mine[l].lower
                                    ELSE IF i = l + 1 + WarpSize THEN mine[l].upper ELSE shared[i]]
  /\ laneAt' = [laneAt EXCEPT ![l] = "meet"]
  /\ search' = [search EXCEPT ![l] = WholeRange(mine[l].m)]
  /\ UNCHANGED <<snapshot, side, mine, stored>>

\* __syncwarp.
Meet ==
  /\ \A l \in WarpLane : laneAt[l] = "meet"
  /\ laneAt' = [l \in WarpLane |-> "search"]
  /\ UNCHANGED <<snapshot, side, mine, shared, search, stored>>

\* A step of a lane's binary search.
Halve(l) ==
  /\ laneAt[l] = "search" /\ search[l].lo < search[l].hi
  /\ LET k   == l + 1 + search[l].rep * WarpSize
         mid == (search[l].lo + search[l].hi) \div 2
     IN  search' = [search EXCEPT ![l] =
                      IF Below(shared[mid + 1].n, Target[k]) THEN [@ EXCEPT !.lo = mid + 1]
                      ELSE [@ EXCEPT !.hi = mid]]
  /\ UNCHANGED <<snapshot, side, laneAt, mine, shared, stored>>

\* The search has ended: the order is stored, and the lane goes on with its second
\* target, the other side, or leaves.
StoreOrder(l) ==
  /\ laneAt[l] = "search" /\ search[l].lo >= search[l].hi
  /\ LET k == l + 1 + search[l].rep * WarpSize
     IN  stored' = [stored EXCEPT ![<<side, k>>] = Resolved(shared, mine[l].m, search[l].lo, Target[k])]
  /\ IF search[l].rep = 0
     THEN search' = [search EXCEPT ![l] = [WholeRange(mine[l].m) EXCEPT !.rep = 1]] /\ UNCHANGED laneAt
     ELSE laneAt' = [laneAt EXCEPT ![l] = "done"] /\ UNCHANGED search
  /\ UNCHANGED <<snapshot, side, mine, shared>>

\* The loop over the sides: the lanes meet in the next scan.
NextSide ==
  /\ side = "buy" /\ \A l \in WarpLane : laneAt[l] = "done"
  /\ side' = "sell" /\ laneAt' = [l \in WarpLane |-> "scan"]
  /\ UNCHANGED <<snapshot, mine, shared, search, stored>>

SlippageInit ==
  /\ snapshot \in [Side -> Books]
  /\ side = "buy" /\ laneAt = [l \in WarpLane |-> "scan"]
  /\ mine = [l \in WarpLane |-> None]
  /\ shared = [i \in 1..Levels |-> [n |-> 0, q |-> 0, px |-> 0]]  \* for what a block before left there
  /\ search = [l \in WarpLane |-> WholeRange(0)]
  /\ stored = [o \in Side \X (1..2 * WarpSize) |-> None]

SlippageNext == Scan \/ Meet \/ NextSide \/ \E l \in WarpLane : Publish(l) \/ Halve(l) \/ StoreOrder(l)

SlippageSpec == SlippageInit /\ [][SlippageNext]_slippageVars

-----------------------------------------------------------------------------
(* Properties.                                                             *)

\* Every result the warp stores, whichever way its lanes went, is that of the walk
\* level by level: the levels touched, the notional and the quantity, and whether
\* there is a price at all; for ties, for levels in the second half of the lanes, and
\* for padding or a level without size in the middle of a side.
WarpWalksTheBook ==
  \A o \in DOMAIN stored : stored[o] # None => stored[o] = Walk(snapshot[o[1]], Target[o[2]])

\* The vectorised reference agrees with the walk too, on every book.
NumpyWalksTheBook ==
  laneAt = [l \in WarpLane |-> "scan"] /\ side = "buy" =>
    \A s \in Side, k \in 1..2 * WarpSize : SideNumpy(snapshot[s], Target[k]) = Walk(snapshot[s], Target[k])

\* Three ways to compute a cost, one answer.
AllWalkTheBook == WarpWalksTheBook /\ NumpyWalksTheBook
=============================================================================
