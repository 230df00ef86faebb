---------------------------- MODULE Differential ----------------------------
(***************************************************************************)
(* The differential fuzzer of src/scripts/fuzz_engine.py: streams of       *)
(* operations drawn at random, a book under test and the reference book    *)
(* compared after every operation, and a stream on which they differ cut   *)
(* down by ddmin (module Fuzz) to a reproduction that is replayed.         *)
(*                                                                         *)
(* The books are those of modules Books and NativeBooks.  Every order a    *)
(* book ever accepted stays under comparison, the dead ones too.           *)
(***************************************************************************)
EXTENDS NativeBooks

CONSTANTS
  Campaigns  \* the runs: [engine, length, quantities, streams, maxDivergences, minimize]

VARIABLES
  campaign,   \* the run's arguments
  stage,      \* "stream", "minimize", "report", "ended", "replayed"
  stream,     \* the operations drawn so far
  real, ref,  \* the two books
  found,      \* the first operation after which they differed, or 0
  streams,    \* streams that were finished
  reports,    \* their reproductions
  exit,       \* the exit code of the last command
  ops, cut, pass, nextPart, fails, agrees  \* ddmin

ddmin == <<ops, cut, pass, nextPart, fails, agrees>>
vars  == <<campaign, stage, stream, real, ref, found, streams, reports, exit, ddmin>>

M == INSTANCE Fuzz WITH MaxOps <- MaxLength

-----------------------------------------------------------------------------

Reference == "ReferenceBook"

\* An operation had the same outcome in both books and left nothing to tell them apart.
Same(engine, a, b) == a.out = b.out /\ ObserveOf(engine, a.book) = ObserveOf(Reference, b.book)

FirstOf(positions) == IF positions = {} THEN 0 ELSE Min(positions)

\* find_divergence: the first operation after which the books differ, or 0.
Divergence(engine, s) ==
  LET a == Applied(engine, s)
      b == Applied(Reference, s)
  IN  FirstOf({k \in DOMAIN s : ~Same(engine, a[k], b[k])})

-----------------------------------------------------------------------------
(* generate_stream draws an operation without looking at the books, so it  *)
(* is drawn here when they come to it.                                     *)

UsedIds == {stream[k][2] : k \in {m \in DOMAIN stream : stream[m][1] = "limit"}}
NextId  == 1 + Cardinality({stream[k][2] : k \in DOMAIN stream} \ {UnknownId})

Limits(id) == {<<"limit", id, s, p, q>> : s \in Side, p \in Prices, q \in campaign.quantities}

Drawn ==
  IF UsedIds = {} THEN Limits(NextId)
  ELSE UNION {Limits(id) : id \in UsedIds \cup {NextId}} \cup {<<"market", NextId, s, q>> : s \in Side, q \in campaign.quantities}
       \cup {<<"cancel", id>> : id \in UsedIds \cup {UnknownId}}

\* Begin a stream with new books.
FreshStream == stream' = <<>> /\ real' = EmptyOf(campaign.engine) /\ ref' = EmptyOf(Reference) /\ found' = 0

Start(c) ==
  /\ campaign = c /\ stage = "stream" /\ streams = 0 /\ reports = <<>> /\ exit = 0
  /\ stream = <<>> /\ real = EmptyOf(c.engine) /\ ref = EmptyOf(Reference) /\ found = 0
  /\ ops = <<>> /\ cut = 2 /\ pass = "done" /\ nextPart = 1 /\ fails = {} /\ agrees = {}

Init == \E c \in Campaigns : Start(c)

\* The next operation of the stream, in both books; after a difference they are left alone.
Draw ==
  /\ stage = "stream" /\ Len(stream) < campaign.length
  /\ \E op \in Drawn :
       /\ stream' = Append(stream, op)
       /\ IF found # 0 THEN UNCHANGED <<real, ref, found>>
          ELSE \E a \in {ApplyTo(campaign.engine, real, op)}, b \in {ApplyTo(Reference, ref, op)} :
                 /\ real' = a.book /\ ref' = b.book
                 /\ found' = IF Same(campaign.engine, a, b) THEN 0 ELSE Len(stream) + 1
  /\ UNCHANGED <<campaign, stage, streams, reports, exit, ddmin>>

\* The loop of run_streams goes on, or main prints what it has and exits.
NextStream(found_) ==
  /\ streams' = streams + 1 /\ reports' = found_
  /\ IF streams + 1 < campaign.streams /\ ~(campaign.maxDivergences > 0 /\ Len(found_) >= campaign.maxDivergences)
     THEN stage' = "stream" /\ FreshStream /\ UNCHANGED exit
     ELSE stage' = "ended" /\ exit' = (IF found_ = <<>> THEN 0 ELSE 1) /\ UNCHANGED <<stream, real, ref, found>>
  /\ UNCHANGED campaign

StreamAgrees ==
  /\ stage = "stream" /\ Len(stream) = campaign.length /\ found = 0
  /\ NextStream(reports) /\ UNCHANGED ddmin

\* minimize_divergence.
StreamDiverges ==
  /\ stage = "stream" /\ Len(stream) = campaign.length /\ found # 0
  /\ IF campaign.minimize
     THEN /\ stage' = "minimize"
          /\ ops' = [k \in DOMAIN stream |-> k] /\ fails' = {ops'} /\ agrees' = {}
          /\ cut' = 2 /\ nextPart' = 1 /\ pass' = IF Len(stream) >= 2 THEN "subset" ELSE "one"
          /\ UNCHANGED <<campaign, stream, real, ref, found, streams, reports, exit>>
     ELSE NextStream(Append(reports, stream)) /\ UNCHANGED ddmin

Picked(positions) == [k \in DOMAIN positions |-> stream[positions[k]]]

Fails(candidate) == Divergence(campaign.engine, Picked(candidate)) # 0

\* A turn of ddmin: what it tries fails when the books differ on it.
Minimize ==
  /\ stage = "minimize" /\ M!FuzzNext
  /\ \A candidate \in (fails' \cup agrees') \ (fails \cup agrees) : Fails(candidate) <=> candidate \in fails'
  /\ UNCHANGED <<campaign, stage, stream, real, ref, found, streams, reports, exit>>

Report ==
  /\ stage = "minimize" /\ pass = "done"
  /\ NextStream(Append(reports, Picked(ops)))
  /\ ops' = <<>> /\ cut' = 2 /\ nextPart' = 1 /\ fails' = {} /\ agrees' = {} /\ UNCHANGED pass

\* main --replay of a reproduction that was reported.
Replay ==
  /\ stage = "ended" /\ reports # <<>>
  /\ \E k \in DOMAIN reports : exit' = IF Divergence(campaign.engine, reports[k]) = 0 THEN 0 ELSE 1
  /\ stage' = "replayed"
  /\ UNCHANGED <<campaign, stream, real, ref, found, streams, reports, ddmin>>

Next == Draw \/ StreamAgrees \/ StreamDiverges \/ Minimize \/ Report \/ Replay

Spec == Init /\ [][Next]_vars

-----------------------------------------------------------------------------
(* Properties.                                                             *)

Shorter(s) == {RemoveAt(s, k) : k \in DOMAIN s} \ {<<>>}

\* The campaign can be believed.  Neither OrderBook nor NativeOrderBook ever differs
\* from the reference, not even in exceptions, in the order depth shows its levels in,
\* and in the orders that died under an id that was used again.  A
\* stream that is reported, when it is replayed alone, shows a difference again and,
\* when it was minimised, shows none with any one of its operations left out.
ReportsAreReal ==
  /\ campaign.engine \in {"OrderBook", "NativeOrderBook"} => found = 0
  /\ stage = "replayed" => exit = 1
  /\ campaign.minimize =>
       \A k \in DOMAIN reports : \A s \in Shorter(reports[k]) : Divergence(campaign.engine, s) = 0
=============================================================================
