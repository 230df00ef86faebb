----------------------------- MODULE TimedBlock -----------------------------
(***************************************************************************)
(* Bench.block of src/bench/common.py with run_interleaved, GpuMonitor,    *)
(* gpu_state and summarize: the variants of a block are run in turns, with *)
(* nvidia-smi in the background, and the SM clock is looked at before and  *)
(* after.                                                                  *)
(*                                                                         *)
(* One card; its clock changes while it works.  A variant may raise, and   *)
(* nvidia-smi may fail.  What is measured is left out but for the clock it *)
(* was measured at; so are the other readings and the raw files.           *)
(***************************************************************************)
EXTENDS Python, Naturals, Sequences, FiniteSets

CONSTANTS
  Variant,    \* the variants, as a sequence
  Clock,      \* SM clocks of the card, in MHz or any other unit
  Warmup,     \* rounds that are thrown away
  Iterations, \* rounds that are timed
  Monitored   \* what monitor may be: a set of BOOLEANs

\* The variants are distinct, and something is timed.
ASSUME BlockAssumption ==
  /\ Variant \in Seq({Variant[k] : k \in DOMAIN Variant}) /\ Len(Variant) >= 1
  /\ \A j, k \in DOMAIN Variant : Variant[j] = Variant[k] => j = k
  /\ Clock \subseteq Nat /\ None \notin Clock
  /\ Warmup \in Nat /\ Iterations \in Nat \ {0} /\ Monitored \subseteq BOOLEAN

VARIABLES
  clock,    \* of the card
  stage,    \* "warmup", "timed", "saved" or "raised"
  round, turn, \* of the calls: how many rounds are over, and calls of this one
  monitor,  \* nvidia-smi in the background: "none", "running", "failed" or "stopped"
  readBefore, \* [warmup, timed]: the clock before the warm-up and after it, None if not read
  samples,  \* [variant -> Seq of the clocks it was timed at]
  stamps,   \* Seq of [iteration, variant]
  summary   \* [drop: BOOLEAN or None if clocks are missing], or None

blockVars == <<clock, stage, round, turn, monitor, readBefore, samples, stamps, summary>>

-----------------------------------------------------------------------------

Variants == {Variant[k] : k \in DOMAIN Variant}

\* gpu_state: an error is a reading without a clock.
Readings == {clock, None}

\* Mutant: the variants always run in the order they are given in.
SameOrder(i) == Variant

\* The order of iteration i, from 0.
Order(i) == LET k == i % Len(Variant) IN SubSeq(Variant, k + 1, Len(Variant)) \o SubSeq(Variant, 1, k)

\* Mutant: an exception leaves the monitor to itself.
LeaveMonitor == monitor

\* GpuMonitor.stop.
Stopped == IF monitor = "running" THEN "stopped" ELSE monitor

\* A call to a variant: the card works, and its clock may change.
Called == clock' \in Clock

Counted == IF turn + 1 < Len(Variant) THEN turn' = turn + 1 /\ UNCHANGED round ELSE turn' = 0 /\ round' = round + 1

WarmupCall ==
  /\ stage = "warmup" /\ round < Warmup
  /\ Called /\ Counted
  /\ UNCHANGED <<stage, monitor, readBefore, samples, stamps, summary>>

\* after_warmup.
AfterWarmup ==
  /\ stage = "warmup" /\ round = Warmup
  /\ \E reading \in Readings : readBefore' = [readBefore EXCEPT !.timed = reading]
  /\ stage' = "timed" /\ round' = 0
  /\ UNCHANGED <<clock, turn, monitor, samples, stamps, summary>>

TimedCall ==
  /\ stage = "timed" /\ round < Iterations
  /\ Called /\ Counted
  /\ LET variant == Order(round)[turn + 1] IN
       /\ samples' = [samples EXCEPT ![variant] = Append(@, clock')]
       /\ stamps' = IF monitor = "none" THEN stamps ELSE Append(stamps, [iteration |-> round, variant |-> variant])
  /\ UNCHANGED <<stage, monitor, readBefore, summary>>

\* A variant raises: the block does, after its finally clause.
Raise ==
  /\ (stage = "warmup" /\ round < Warmup) \/ (stage = "timed" /\ round < Iterations)
  /\ Called
  /\ stage' = "raised" /\ monitor' = Stopped
  /\ UNCHANGED <<round, turn, readBefore, samples, stamps, summary>>

\* Mutant: the clock before the warm-up is the one that counts.
IdleClock == readBefore.warmup

\* The clock a drop is measured from.
ClockBefore == readBefore.timed

\* summarize: a drop of more than 10% is flagged, and a clock that was not read is told.
Drop(from, to) == IF None \in {from, to} THEN None ELSE (from > to /\ (from - to) * 10 > from)

\* The last reading, the finally clause and the summaries.
SaveBlock ==
  /\ stage = "timed" /\ round = Iterations
  /\ \E reading \in Readings : summary' = [drop |-> Drop(ClockBefore, reading)]
  /\ stage' = "saved" /\ monitor' = Stopped
  /\ UNCHANGED <<clock, round, turn, readBefore, samples, stamps>>

\* Up to the warm-up; the monitor's program may not be there.
BlockInit ==
  /\ clock \in Clock
  /\ \E on \in Monitored : monitor \in IF on THEN {"running", "failed"} ELSE {"none"}
  /\ \E reading \in Readings : readBefore = [warmup |-> reading, timed |-> None]
  /\ stage = "warmup" /\ round = 0 /\ turn = 0
  /\ samples = [v \in Variants |-> <<>>] /\ stamps = <<>> /\ summary = None

BlockNext == WarmupCall \/ AfterWarmup \/ TimedCall \/ Raise \/ SaveBlock

BlockSpec == BlockInit /\ [][BlockNext]_blockVars

-----------------------------------------------------------------------------
(* Properties.                                                             *)

\* However a block ends, its nvidia-smi does not go on polling under the blocks
\* after it, and one that was saved has a sample of every variant for every
\* iteration.
NoPollerLeft ==
  /\ stage \in {"saved", "raised"} => monitor # "running"
  /\ stage = "saved" => \A v \in Variants : Len(samples[v]) = Iterations

\* When the clocks were read while the card was working, a drop of more than 10%
\* from the end of the warm-up to the last call timed is flagged, "so an idle card at the start
\* of a block cannot hide a drop".
NoHiddenDrop ==
  stage = "saved" /\ summary.drop # None /\ readBefore.timed # None =>
    LET last == Order(Iterations - 1)[Len(Variant)]
        end  == samples[last][Iterations]
    IN  summary.drop <=> readBefore.timed > end /\ (readBefore.timed - end) * 10 > readBefore.timed

\* The turns are fair: when as many rounds were timed as there are variants, or a
\* multiple of them, each variant was called in each place equally often, so what
\* the call before it leaves behind (clocks, caches) falls on all of them alike.
TurnsAreFair ==
  stage = "saved" /\ stamps # <<>> =>
    LET calls(v, place) == {i \in 0 .. Iterations - 1 : stamps[i * Len(Variant) + place].variant = v}
    IN  \A v, w \in Variants, place \in 1 .. Len(Variant) :
          Cardinality(calls(v, place)) <= Cardinality(calls(w, place)) + 1

\* What a block reports can be compared: between variants, and with other blocks.
BlockIsSound == NoPollerLeft /\ NoHiddenDrop /\ TurnsAreFair
=============================================================================
