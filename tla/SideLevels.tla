----------------------------- MODULE SideLevels -----------------------------
(***************************************************************************)
(* The price levels of one side of the native book: class SideLevels of    *)
(* src/native/include/ee/order_book.hpp.  Levels near each other are slots *)
(* of a window of prices with a bitmap of the slots taken; levels outside  *)
(* the window are in an ordered vector, far; the best level is kept beside *)
(* them.  An empty window moves to where the levels are.                   *)
(*                                                                         *)
(* A side is a record and the methods are operators on it.  A level is     *)
(* named by its price.  Searches of the bitmap are module Bitmap's.        *)
(***************************************************************************)
EXTENDS Integers, Sequences, FiniteSetsExt

CONSTANT Window  \* window_ticks: prices the window spans

ASSUME WindowAssumption == Window \in Nat \ {0}

NoLevel == 0  \* nullptr; prices are positive
Slot    == 0..(Window - 1)

-----------------------------------------------------------------------------

NewSide(side) ==
  [side |-> side, base |-> 0, slots |-> [i \in Slot |-> NoLevel], bits |-> {},
   count |-> 0, far |-> {}, best |-> NoLevel]

Better(sl, p, q) == IF sl.side = "bid" THEN p > q ELSE p < q

InWindow(sl, p) == p >= sl.base /\ p - sl.base < Window

\* What the bitmap answers, -1 for none.
PrevBit(sl, i) == Max({b \in sl.bits : b <= i} \union {-1})
NextBit(sl, i) == LET up == {b \in sl.bits : b >= i} IN IF up = {} THEN -1 ELSE Min(up)

FirstIndex(sl) == IF sl.side = "bid" THEN PrevBit(sl, Window - 1) ELSE NextBit(sl, 0)

\* Mutant: the search starts at the slot itself.
NextIndexSame(sl, i) ==
  IF sl.side = "bid" THEN PrevBit(sl, i) ELSE NextBit(sl, i)

NextIndex(sl, i) ==
  IF sl.side = "bid" THEN IF i = 0 THEN -1 ELSE PrevBit(sl, i - 1)
  ELSE IF i + 1 >= Window THEN -1 ELSE NextBit(sl, i + 1)

\* The first element of the ordered vector that is not below p, as a set.
LowerBound(sl, p) == LET up == {q \in sl.far : q >= p} IN {q \in up : \A r \in up : q <= r}

\* Mutant: only the window is looked at.
FindInWindow(sl, p) == IF InWindow(sl, p) THEN sl.slots[p - sl.base] ELSE NoLevel

\* The level at price p, NoLevel if there is none.
Find(sl, p) ==
  IF InWindow(sl, p) THEN sl.slots[p - sl.base]
  ELSE IF p \in LowerBound(sl, p) THEN p ELSE NoLevel

\* The window is centred on p and takes over the far levels it spans.
Recentre(sl, p) ==
  LET base  == p - Window \div 2
      moved == {q \in sl.far : base <= q /\ q < base + Window}
  IN  [sl EXCEPT !.base  = base,
                 !.slots = [i \in Slot |-> IF base + i \in moved THEN base + i ELSE @[i]],
                 !.bits  = @ \union {q - base : q \in moved},
                 !.count = @ + Cardinality(moved),
                 !.far   = @ \ moved]

\* The new level at p put in, the best level not looked at yet.
Place(sl, p) ==
  IF InWindow(sl, p)
  THEN [sl EXCEPT !.slots[p - sl.base] = p, !.bits = @ \union {p - sl.base},
                  !.count = @ + 1]
  ELSE [sl EXCEPT !.far = @ \union {p}]

Insert(sl, p) ==
  LET at     == IF ~InWindow(sl, p) /\ sl.count = 0 THEN Recentre(sl, p) ELSE sl
      placed == Place(at, p)
  IN  IF sl.best = NoLevel \/ Better(sl, p, sl.best) THEN [placed EXCEPT !.best = p]
      ELSE placed

\* The best level of far, NoLevel if there is none.
FarBest(sl) ==
  IF sl.far = {} THEN NoLevel ELSE IF sl.side = "bid" THEN Max(sl.far) ELSE Min(sl.far)

\* Mutant: levels outside the window are forgotten while the window has one.
ScanBestWindowFirst(sl, gone) ==
  IF sl.count = 0 THEN FarBest(sl) ELSE sl.slots[FirstIndex(sl)]

\* The best level after the one at `gone` was removed; the window is searched
\* from there on.
ScanBest(sl, gone) ==
  LET onward == IF sl.side = "bid" THEN PrevBit(sl, gone - sl.base)
                ELSE NextBit(sl, gone - sl.base)
      i      == IF InWindow(sl, gone) /\ onward >= 0 THEN onward ELSE FirstIndex(sl)
      near   == IF sl.count = 0 \/ i < 0 THEN NoLevel ELSE sl.slots[i]
  IN  IF near = NoLevel THEN FarBest(sl)
      ELSE IF FarBest(sl) = NoLevel \/ Better(sl, near, FarBest(sl)) THEN near
      ELSE FarBest(sl)

\* The level at p taken out, the best level not looked at yet.
TakeOut(sl, p) ==
  IF InWindow(sl, p)
  THEN [sl EXCEPT !.slots[p - sl.base] = NoLevel, !.bits = @ \ {p - sl.base},
                  !.count = @ - 1]
  ELSE [sl EXCEPT !.far = @ \ LowerBound(sl, p)]

\* Mutant: the window stays where it is when its last level goes.
EraseStays(sl, p) ==
  LET out == TakeOut(sl, p)
  IN  IF sl.best = p THEN [out EXCEPT !.best = ScanBest(out, p)] ELSE out

Erase(sl, p) ==
  LET out    == TakeOut(sl, p)
      kept   == IF sl.best = p THEN [out EXCEPT !.best = ScanBest(out, p)] ELSE out
  IN  IF kept.count = 0 /\ kept.far # {} THEN Recentre(kept, kept.best) ELSE kept

\* visit: the levels shown so far, the next slot of the window and the far levels
\* not shown yet.
VisitStart(sl) ==
  [shown |-> <<>>, next |-> IF sl.count = 0 THEN -1 ELSE FirstIndex(sl), far |-> sl.far]

\* A round of the merge of window and far: the better one of the next two is shown.
VisitOne(sl, v) ==
  LET rest == FarBest([sl EXCEPT !.far = v.far])
      near == IF v.next >= 0 THEN sl.slots[v.next] ELSE NoLevel
  IN  IF v.next < 0 /\ v.far = {} THEN v
      ELSE IF near # NoLevel /\ (rest = NoLevel \/ Better(sl, near, rest))
      THEN [v EXCEPT !.shown = Append(@, near), !.next = NextIndex(sl, @)]
      ELSE [v EXCEPT !.shown = Append(@, rest), !.far = @ \ {rest}]

\* The prices visit shows for n levels.
Visit(sl, n) ==
  LET after[k \in 0..n] == IF k = 0 THEN VisitStart(sl) ELSE VisitOne(sl, after[k - 1])
  IN  after[n].shown

-----------------------------------------------------------------------------

\* The prices that have a level.
Prices(sl) == sl.far \union {sl.base + i : i \in sl.bits}

IsBest(sl, p) == p \in Prices(sl) /\ \A q \in Prices(sl) \ {p} : Better(sl, p, q)

\* Levels have prices; slots, bitmap and counter agree; no price is both in the
\* window and outside.
Consistent(sl) ==
  /\ sl.bits \subseteq Slot /\ Prices(sl) \subseteq Nat \ {0}
  /\ \A i \in Slot : sl.slots[i] = IF i \in sl.bits THEN sl.base + i ELSE NoLevel
  /\ sl.count = Cardinality(sl.bits)
  /\ \A p \in sl.far : ~InWindow(sl, p)

BestIsBest(sl) ==
  IF Prices(sl) = {} THEN sl.best = NoLevel ELSE IsBest(sl, sl.best)

\* The invariant of the class: nothing is outside while the window is empty.
WellFormed(sl) ==
  Consistent(sl) /\ BestIsBest(sl) /\ (sl.count = 0 => sl.far = {})

=============================================================================
