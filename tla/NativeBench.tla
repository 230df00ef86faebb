---------------------------- MODULE NativeBench ----------------------------
(***************************************************************************)
(* scripts/benchmark_native.py: one stream of orders, and one derived from *)
(* a recording, are timed in four ways that should do the same: the C++    *)
(* harness, the binding, the book over the binding and OrderBook.  The     *)
(* arrays go to files of their own, the figures to metrics.json, and a run *)
(* may raise or be killed at any step.  What a file holds is the number of *)
(* the run that wrote it.                                                  *)
(*                                                                         *)
(* The harness and the binding make the same calls of a core each, with    *)
(* the integers of the file and of to_ints; the book over the binding has  *)
(* orders of its own beside its core (module NativeBooks).                 *)
(***************************************************************************)
EXTENDS NativeBooks

CONSTANTS
  None,          \* no file
  Quantities,    \* sizes of orders, in units of 1e-6
  SyntheticOps,  \* bound: orders of the synthetic stream
  RealisticOps,  \* bound: operations of the derived one
  Runs           \* bound: runs into one results directory

VARIABLES
  run,      \* the number of the run under way or last
  at,       \* its next step, "idle" when there is none
  todo,     \* streams still to measure
  stream,   \* the stream being measured
  section,  \* what was measured: [measured, consistent, divergences]
  files,    \* [stream, harness, raw: stream -> run or None, metrics, torn]
  exit      \* "no", "ok" (0), "failed" (1), "raised" or "killed"

vars == <<run, at, todo, stream, section, files, exit>>

-----------------------------------------------------------------------------
(* The streams and the four ways to replay them.                           *)

Labels == {"synthetic", "realistic"}

Adds(orders) == [k \in DOMAIN orders |-> <<"limit", k, orders[k].side, orders[k].price, orders[k].quantity>>]

\* The ids that had something left when they were added.
Rested(orders) ==
  LET applied == Applied("OrderBook", Adds(orders))
  IN  SelectSeq([k \in DOMAIN orders |-> k], LAMBDA k : applied[k].book.orders[k].quantity > 0)

Shuffles(s) == {t \in [DOMAIN s -> Range(s)] : IsInjective(t)}

NoStream == [adds |-> <<>>, rest |-> <<>>]

\* What derive may yield after k operations, in ticks and lots.
Derived(k) ==
  {<<"limit", k + 1, s, p, q>> : s \in Side, p \in Prices, q \in Quantities}
  \cup {<<"market", k + 1, s, q>> : s \in Side, q \in Quantities} \cup {<<"cancel", id>> : id \in 1..k}

\* to_ints and write_stream, write_ops: what the core is given.
ToInts(s) ==
  [k \in DOMAIN s |->
     CASE s[k][1] = "limit"  -> <<"limit", s[k][2], s[k][3], s[k][4], Lots(s[k][5])>>
       [] s[k][1] = "market" -> <<"market", s[k][2], s[k][3], Lots(s[k][4])>>
       [] s[k][1] = "cancel" -> s[k]]

\* What a way counts: the fills, the orders resting before the cancels of the
\* synthetic stream or at the end of the derived one, the cancels that found one.
Counted(engine, adds, rest) ==
  LET counts(applied) ==
        <<MapThenSumSet(LAMBDA k : Len(applied[k].out[2]), {k \in DOMAIN applied : applied[k].out[1] = "fills"}),
          SizeOf(engine, applied[Len(adds)].book),
          Cardinality({k \in DOMAIN applied : applied[k].out = <<"cancelled", TRUE>>})>>
  IN  counts(Applied(engine, adds \o rest))

CoreCounted(adds, rest) ==
  LET counts(applied) ==
        <<MapThenSumSet(LAMBDA k : applied[k].fills, DOMAIN applied), CoreSize(applied[Len(adds)].core),
          Cardinality({k \in DOMAIN applied : applied[k].found})>>
  IN  counts(CoreApplied(adds \o rest))

\* Mutant: the stream file ends before the cancels.
CountsAll(s) ==
  {CoreCounted(ToInts(s.adds), <<>>), Counted("NativeOrderBook", s.adds, s.rest), Counted("OrderBook", s.adds, s.rest)}

\* The counts of native and binding, of binding_decimal and of python_engine.
Counts(s) ==
  {CoreCounted(ToInts(s.adds), ToInts(s.rest)), Counted("NativeOrderBook", s.adds, s.rest), Counted("OrderBook", s.adds, s.rest)}

-----------------------------------------------------------------------------
(* A run.                                                                  *)

NoSection == [measured |-> {}, consistent |-> TRUE, divergences |-> 0]

Init ==
  /\ run = 0 /\ at = "idle" /\ todo = <<>> /\ stream = NoStream /\ section = NoSection /\ exit = "no"
  /\ files = [stream |-> [l \in Labels |-> None], harness |-> [l \in Labels |-> None],
              raw |-> [l \in Labels |-> None], metrics |-> None, torn |-> FALSE]

\* main, with or without an archive.
Begin ==
  /\ at = "idle" /\ run < Runs
  /\ run' = run + 1 /\ at' = "build" /\ section' = NoSection /\ exit' = "no"
  /\ todo' \in {<<"synthetic">>, <<"synthetic", "realistic">>}
  /\ UNCHANGED <<stream, files>>

End(code) == at' = "idle" /\ exit' = code /\ stream' = NoStream /\ todo' = <<>> /\ UNCHANGED <<run, section>>

\* build_native, or --no-build.
Build ==
  /\ at = "build"
  /\ \/ at' = "generate" /\ UNCHANGED <<run, todo, stream, section, files, exit>>
     \/ End("raised") /\ UNCHANGED files

Label == Head(todo)

\* The file of the stream.
WriteFile == files' = [files EXCEPT !.stream[Label] = run] /\ at' = "harness"

\* synthetic_stream: limit orders, then cancels of some that rested, shuffled.
Synthesize ==
  /\ at = "generate" /\ Label = "synthetic"
  /\ \E orders \in [1..SyntheticOps -> [side : Side, price : Prices, quantity : Quantities]] :
       \E t \in Shuffles(Rested(orders)) : \E k \in 0..Len(t) :
         stream' = [adds |-> Adds(orders), rest |-> [j \in 1..k |-> <<"cancel", t[j]>>]]
  /\ WriteFile
  /\ UNCHANGED <<run, todo, section, exit>>

Derive ==
  /\ at = "generate" /\ Label = "realistic"
  /\ \E op \in Derived(Len(stream.adds)) : stream' = [stream EXCEPT !.adds = Append(@, op)]
  /\ IF Len(stream.adds) + 1 = RealisticOps THEN WriteFile ELSE UNCHANGED <<files, at>>
  /\ UNCHANGED <<run, todo, section, exit>>

\* The harness replays the file, which is then deleted: in measure whatever happens, in
\* measure_realistic unless the harness ran out of time.
HarnessReturns ==
  /\ at = "harness"
  /\ files' = [files EXCEPT !.stream[Label] = None, !.harness[Label] = run]
  /\ at' = "time"
  /\ UNCHANGED <<run, todo, stream, section, exit>>

HarnessFails ==
  /\ at = "harness"
  /\ files' = [files EXCEPT !.stream[Label] = None]
  /\ End("raised")

HarnessTimesOut ==
  /\ at = "harness"
  /\ files' = [files EXCEPT !.stream[Label] = IF Label = "synthetic" THEN None ELSE @]
  /\ End("raised")

WithSection ==
  [section EXCEPT !.measured = @ \cup {Label}, !.consistent = @ /\ Cardinality(Counts(stream)) = 1]

Lacks(kind) == \A k \in DOMAIN stream.adds : stream.adds[k][1] # kind

\* The other ways are timed in this process; then the arrays are written.
Time ==
  /\ at = "time" /\ ~(Label = "realistic" /\ \E kind \in {"limit", "market", "cancel"} : Lacks(kind))
  /\ files' = [files EXCEPT !.raw[Label] = run]
  /\ section' = WithSection
  /\ todo' = Tail(todo) /\ stream' = NoStream
  /\ at' = IF Tail(todo) = <<>> THEN "fuzz" ELSE "generate"
  /\ UNCHANGED <<run, exit>>

\* A stream without one of the kinds has nothing to divide its percentile by, which
\* shows after its arrays were written.
TimeDivides ==
  /\ at = "time" /\ Label = "realistic" /\ \E kind \in {"limit", "market", "cancel"} : Lacks(kind)
  /\ files' = [files EXCEPT !.raw[Label] = run]
  /\ End("raised")

\* The fuzzer over the native book, unless it is skipped.
FuzzNative ==
  /\ at = "fuzz"
  /\ \E d \in {0, 1} : section' = [section EXCEPT !.divergences = d]
  /\ at' = "save"
  /\ UNCHANGED <<run, todo, stream, files, exit>>

\* metrics.json is read, then opened, which empties it ...
OpenMetrics ==
  /\ at = "save"
  /\ IF files.torn THEN End("raised") /\ UNCHANGED files
     ELSE /\ files' = [files EXCEPT !.metrics = None, !.torn = TRUE] /\ at' = "saving"
          /\ UNCHANGED <<run, todo, stream, section, exit>>

\* ... and written.
WriteMetrics ==
  /\ at = "saving"
  /\ files' = [files EXCEPT !.torn = FALSE,
                             !.metrics = [by |-> run, measured |-> section.measured, consistent |-> section.consistent]]
  /\ End(IF section.consistent /\ section.divergences = 0 THEN "ok" ELSE "failed")

Kill == at # "idle" /\ End("killed") /\ UNCHANGED files

Next ==
  \/ Begin \/ Build \/ Synthesize \/ Derive \/ HarnessReturns \/ HarnessFails
  \/ HarnessTimesOut \/ Time \/ TimeDivides \/ FuzzNative \/ OpenMetrics \/ WriteMetrics \/ Kill

Spec == Init /\ [][Next]_vars

-----------------------------------------------------------------------------
(* Properties.                                                             *)

Ended == exit \in {"ok", "failed"}

\* The figures of metrics.json have their arrays.  A run that ends leaves the arrays it
\* measured, its stream files deleted, and exits 1 only for what the fuzzer found: the
\* four ways count the same on every stream.  Figures are never newer than their
\* arrays, and older only when the last run did not end.
FiguresHaveArrays ==
  /\ Ended =>
       /\ files.metrics.by = run /\ files.metrics.measured = section.measured
       /\ \A l \in section.measured : files.harness[l] = run /\ files.raw[l] = run /\ files.stream[l] = None
       /\ exit = "failed" <=> section.divergences > 0
  /\ files.metrics # None =>
       /\ files.metrics.consistent
       /\ \A l \in files.metrics.measured :
            /\ files.raw[l] >= files.metrics.by
            /\ files.raw[l] > files.metrics.by => ~Ended
=============================================================================
