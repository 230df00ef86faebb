------------------------------ MODULE Timeline ------------------------------
(***************************************************************************)
(* The overlap a trace of the three-stream pipeline is reported with:      *)
(* read_trace's window, merge_intervals, busy_ns, overlap_fraction and     *)
(* trace_stats of src/bench/timeline_svg.py.                               *)
(*                                                                         *)
(* An operation is its interval <<start, end>>; a lane has a sequence of   *)
(* them, which may touch or overlap.  The database, the names and sizes of *)
(* operations and the drawing are left out.                                *)
(***************************************************************************)
EXTENDS Integers, Sequences, SequencesExt, FiniteSetsExt

CONSTANTS
  None,
  Lane,    \* copy in, compute and copy out
  MaxTime, \* bound on times
  MaxOps   \* bound on the operations of a lane

Interval == {iv \in (0 .. MaxTime) \X (0 .. MaxTime) : iv[1] <= iv[2]}

VARIABLES
  trace,   \* [Lane -> Seq(Interval)]
  window,  \* the NVTX range the trace is restricted to, or None
  stats    \* trace_stats, or None

vars == <<trace, window, stats>>

-----------------------------------------------------------------------------

Least(a, b) == IF a < b THEN a ELSE b
Most(a, b)  == IF a > b THEN a ELSE b

\* Mutant: operations that reach into the window are kept whole.
KeptWhole(op, w) == op

Clipped(op, w) == <<Most(op[1], w[1]), Least(op[2], w[2])>>

\* read_trace: the operations that overlap the window, clipped to it.
Kept(ops, w) ==
  IF w = None THEN ops
  ELSE LET inside == SelectSeq(ops, LAMBDA op : op[2] > w[1] /\ op[1] < w[2])
       IN  [k \in DOMAIN inside |-> Clipped(inside[k], w)]

\* t0 and t1: the extent of the operations; of the window, when there are none.
Extent(lanes, w) ==
  LET ops == UNION {Range(lanes[l]) : l \in Lane}
  IN  IF ops # {} THEN <<Min({op[1] : op \in ops}), Max({op[2] : op \in ops})>>
      ELSE IF w # None THEN w ELSE <<0, 0>>

Earlier(a, b) == a[1] < b[1] \/ (a[1] = b[1] /\ a[2] < b[2])

\* The intervals that are not empty, in order.
InOrder(intervals) == SortSeq(SelectSeq(intervals, LAMBDA iv : iv[2] > iv[1]), Earlier)

\* Union of intervals as a sorted list of disjoint intervals.
MergeIntervals(intervals) ==
  FoldLeft(LAMBDA out, iv :
             IF out # <<>> /\ iv[1] <= Last(out)[2]
             THEN [out EXCEPT ![Len(out)] = <<@[1], Most(@[2], iv[2])>>]
             ELSE Append(out, iv),
           <<>>, InOrder(intervals))

Length(intervals) == FoldLeft(LAMBDA sum, iv : sum + (iv[2] - iv[1]), 0, intervals)

BusyNs(intervals) == Length(MergeIntervals(intervals))

\* The endpoints of a lane's merged intervals: <<time, +1 or -1>>.
Endpoints(merged) == FoldLeft(LAMBDA out, iv : out \o <<<<iv[1], 1>>, <<iv[2], -1>>>>, <<>>, merged)

\* The sweep over all endpoints, ends before starts: the time with two lanes active.
Overlap(lanes, span) ==
  LET events == SortSeq(FoldLeft(LAMBDA out, l : out \o Endpoints(MergeIntervals(lanes[l])), <<>>,
                                 SetToSeq(Lane)), Earlier)
      step(s, ev) ==
        [active |-> s.active + ev[2], last |-> ev[1],
         overlap |-> s.overlap + IF s.active >= 2 THEN Most(0, Least(ev[1], span[2]) - Most(s.last, span[1])) ELSE 0]
  IN  FoldLeft(step, [active |-> 0, last |-> 0, overlap |-> 0], events).overlap

\* trace_stats, with the fraction as its two parts.
TraceStats ==
  /\ stats = None
  /\ LET lanes == [l \in Lane |-> Kept(trace[l], window)]
         span  == Extent(lanes, window)
     IN  stats' = [overlap |-> Overlap(lanes, span), total |-> span[2] - span[1],
                   busy |-> [l \in Lane |-> BusyNs(lanes[l])]]
  /\ UNCHANGED <<trace, window>>

\* The operations are read ORDER BY start.
Traces == {ops \in UNION {[1 .. m -> Interval] : m \in 0 .. MaxOps} :
             \A j, k \in DOMAIN ops : j < k => ops[j][1] <= ops[k][1]}

Init == trace \in [Lane -> Traces] /\ window \in {None} \cup {iv \in Interval : iv[1] < iv[2]} /\ stats = None

Next == TraceStats

Spec == Init /\ [][Next]_vars

-----------------------------------------------------------------------------
(* Properties.                                                             *)

\* The lanes that are busy in the unit of time that begins at t.
Busy(t) == {l \in Lane : \E k \in DOMAIN trace[l] : trace[l][k][1] <= t /\ t < trace[l][k][2]}

Inside(t) == window = None \/ (window[1] <= t /\ t < window[2])

\* The overlap is the time in which at least two different lanes are busy inside
\* the window, however many operations of one lane touch or overlap, and a lane's
\* busy time is what its operations cover, each moment counted once.
OverlapIsSharedTime ==
  stats # None =>
    /\ stats.overlap = Cardinality({t \in 0 .. MaxTime : Inside(t) /\ Cardinality(Busy(t)) >= 2})
    /\ \A l \in Lane : stats.busy[l] = Cardinality({t \in 0 .. MaxTime : Inside(t) /\ l \in Busy(t)})
=============================================================================
