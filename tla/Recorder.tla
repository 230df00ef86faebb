------------------------------ MODULE Recorder ------------------------------
(***************************************************************************)
(* The raw recorder and the archive builder: Recorder and RawLogWriter of  *)
(* src/exchange_engine/recorder.py, iter_raw_log of archive.py and build   *)
(* of src/scripts/build_archive.py.                                        *)
(*                                                                         *)
(* A recorder process appends every frame to the raw log and runs a        *)
(* snapshot gate per product on it; it flushes the log, writes a sidecar   *)
(* with its counts, is stopped or killed, and is started again on the same *)
(* directory.  The builder runs gates of its own over the whole log.       *)
(*                                                                         *)
(* The segments are one log: each start opens a new file and the builder   *)
(* reads them in the order of their names, which is that of the starts.    *)
(* An l2_data message carries one event.  Trades and heartbeats, prices    *)
(* off the tick grid, why a run stops, and the byte formats are left out.  *)
(***************************************************************************)
EXTENDS SnapshotGate, SequencesExt

CONSTANTS
  Product,   \* the products recorded
  Event,     \* the l2_data events the exchange may send
  MaxLines,  \* bound: lines of the raw log
  MaxRuns,   \* bound: starts of the recorder
  MaxGaps,   \* bound: sequence gaps
  MaxTime    \* bound: the receive clock

ASSUME RecorderAssumption ==
  /\ IsFiniteSet(Product)
  /\ \A event \in Event :
       /\ event.type \in {"snapshot", "update"}
       /\ DOMAIN event.updates \subseteq Level
       /\ \A l \in DOMAIN event.updates : event.updates[l] \in Quantity

VARIABLES
  now,        \* time.time_ns
  \* on disk
  log,        \* the lines the segments hold once everything is flushed
  durable,    \* how many of them are in finished zstd frames
  sidecar,    \* counts in recorder_state.json, zeros where there is no file
  \* the process
  state,      \* "off", "recording" or "closing"
  link,       \* "down", "up", or "numbered": expected_seq is not None
  gates,      \* [Product -> live gate]
  prior,      \* prior_snapshot_count
  \* history
  runs, gaps, \* starts and gaps so far
  emitted,    \* snapshots counted by live gates in all runs
  crashed,    \* a run was killed
  skipped     \* a frame was logged and not applied

disk    == <<log, durable, sidecar>>
process == <<state, link, gates, prior>>
history == <<runs, gaps, emitted, crashed, skipped>>
vars    == <<now, disk, process, history>>

-----------------------------------------------------------------------------

FreshGates == [p \in Product |-> FreshGate]

Count(gs) == SumFunction([p \in DOMAIN gs |-> gs[p].count])

\* snapshots_total of a sidecar.
SnapshotsTotal(file) == file.prior + file.thisRun

PriorIgnoresThisRun(file) == file.prior

\* prior_snapshot_count.
PriorCount(file) == file.prior + file.thisRun

\* The counts of state().
Counts == [prior |-> prior, thisRun |-> Count(gates)]

\* write_line: the writer appends at once, zstd and the file buffer keep it
\* from the disk until the next flush.
WriteLines(lines) ==
  /\ Len(log) + Len(lines) <= MaxLines
  /\ log' = log \o lines
  /\ UNCHANGED <<durable, sidecar>>

ConnectLine == [kind |-> "connect"]
GapLine == [kind |-> "gap"]
FrameLine(p, event) == [kind |-> "frame", at |-> now, product |-> p, event |-> event]

\* on_message.
OnMessage(p, event) ==
  /\ gates' = [gates EXCEPT ![p] = ApplyEvent(@, event, now)]
  /\ emitted' = emitted + (gates'[p].count - gates[p].count)

-----------------------------------------------------------------------------
(* The recorder process.                                                   *)

\* Recorder() and run() up to the loop.
Start ==
  /\ state = "off" /\ runs < MaxRuns
  /\ state' = "recording" /\ runs' = runs + 1
  /\ link' = "down"
  /\ gates' = FreshGates
  /\ prior' = PriorCount(sidecar)
  /\ sidecar' = [prior |-> prior', thisRun |-> 0]
  /\ UNCHANGED <<now, log, durable, gaps, emitted, crashed, skipped>>

OnConnect ==
  /\ state = "recording" /\ link = "down"
  /\ link' = "up"
  /\ gates' = [p \in Product |-> NotReady(gates[p])]
  /\ WriteLines(<<ConnectLine>>)
  /\ UNCHANGED <<now, state, prior, history>>

Disconnect ==
  /\ state = "recording" /\ link # "down"
  /\ link' = "down"
  /\ UNCHANGED <<now, disk, state, gates, prior, history>>

\* A frame in sequence: on_frame, on_message.
Frame(p, event) ==
  /\ state = "recording" /\ link # "down"
  /\ link' = "numbered"
  /\ WriteLines(<<FrameLine(p, event)>>)
  /\ OnMessage(p, event)
  /\ UNCHANGED <<now, state, prior, runs, gaps, crashed, skipped>>

\* A frame out of sequence: on_frame, on_gap, resubscribe_level2, on_message.
GapFrame(p, event) ==
  /\ state = "recording" /\ link = "numbered"
  /\ gaps < MaxGaps /\ gaps' = gaps + 1
  /\ WriteLines(<<FrameLine(p, event), GapLine>>)
  /\ OnMessage(p, event)
  /\ UNCHANGED <<now, state, link, prior, runs, crashed, skipped>>

\* The same, but the resubscription raises: on_message is never called.
GapFrameFails(p, event) ==
  /\ state = "recording" /\ link = "numbered"
  /\ gaps < MaxGaps /\ gaps' = gaps + 1
  /\ WriteLines(<<FrameLine(p, event), GapLine>>)
  /\ link' = "down" /\ skipped' = TRUE
  /\ UNCHANGED <<now, state, gates, prior, runs, emitted, crashed>>

Flush ==
  /\ state = "recording" /\ durable # Len(log)
  /\ durable' = Len(log)
  /\ UNCHANGED <<now, log, sidecar, process, history>>

WriteSidecar ==
  /\ state = "recording"
  /\ sidecar' = Counts
  /\ UNCHANGED <<now, log, durable, process, history>>

\* should_stop, or the feed task is done: cancel the feed and close the writer.
Stop ==
  /\ state = "recording"
  /\ state' = "closing" /\ link' = "down"
  /\ durable' = Len(log)
  /\ UNCHANGED <<now, log, sidecar, gates, prior, history>>

StopWithoutSidecar ==
  /\ state = "closing"
  /\ state' = "off"
  /\ UNCHANGED <<now, disk, link, gates, prior, history>>

LastSidecar ==
  /\ state = "closing"
  /\ state' = "off" /\ sidecar' = Counts
  /\ UNCHANGED <<now, log, durable, link, gates, prior, history>>

\* The process is killed; of the lines not flushed any number reached the disk.
Crash ==
  /\ state # "off"
  /\ state' = "off" /\ link' = "down" /\ crashed' = TRUE
  /\ durable' \in durable..Len(log)
  /\ log' = SubSeq(log, 1, durable')
  /\ UNCHANGED <<now, sidecar, gates, prior, runs, gaps, emitted, skipped>>

Tick ==
  /\ now < MaxTime
  /\ now' = now + 1
  /\ UNCHANGED <<disk, process, history>>

Init ==
  /\ now = 0
  /\ log = <<>> /\ durable = 0 /\ sidecar = [prior |-> 0, thisRun |-> 0]
  /\ state = "off" /\ link = "down" /\ gates = FreshGates /\ prior = 0
  /\ runs = 0 /\ gaps = 0 /\ emitted = 0 /\ crashed = FALSE /\ skipped = FALSE

Next ==
  \/ Start \/ OnConnect \/ Disconnect
  \/ \E p \in Product, event \in Event :
       Frame(p, event) \/ GapFrame(p, event) \/ GapFrameFails(p, event)
  \/ Flush \/ WriteSidecar \/ Stop \/ LastSidecar \/ Crash \/ Tick

Spec == Init /\ [][Next]_vars

-----------------------------------------------------------------------------
(* The archive builder.                                                    *)

BuildLineIgnoringConnects(built, line) ==
  IF line.kind = "frame"
  THEN [built EXCEPT ![line.product] = ApplyEvent(@, line.event, line.at)]
  ELSE built

\* build's loop body for one line of iter_raw_log.
BuildLine(built, line) ==
  CASE line.kind = "connect" -> [p \in Product |-> NotReady(built[p])]
    [] line.kind = "gap"     -> built
    [] line.kind = "frame"   ->
         [built EXCEPT ![line.product] = ApplyEvent(@, line.event, line.at)]

\* The builder's gates after the lines.
Build(lines) == FoldLeft(BuildLine, FreshGates, lines)

-----------------------------------------------------------------------------
(* Properties.                                                             *)

Gate == [book : Book, ready : BOOLEAN, lastEmit : SUBSET (0..MaxTime),
         lastTop : {{}} \union {{Top(book)} : book \in Book},
         count : 0..MaxLines, crossed : 0..MaxLines]

\* The variables stay in their types; no more is durable than was written.
TypeOK ==
  /\ now \in 0..MaxTime
  /\ \A i \in DOMAIN log : log[i].kind \in {"connect", "gap", "frame"}
  /\ durable \in 0..Len(log)
  /\ sidecar \in [prior : Nat, thisRun : Nat]
  /\ state \in {"off", "recording", "closing"}
  /\ link \in {"down", "up", "numbered"} /\ (link # "down" => state = "recording")
  /\ \A p \in Product : gates[p] \in Gate
  /\ runs \in 0..MaxRuns /\ gaps \in 0..MaxGaps
  /\ prior + Count(gates) <= emitted

\* In a log written by one run that applied every frame it logged, the builder
\* goes through exactly the states of the live gates: same books, same times of
\* emission, same counts, whatever is connected, lost and resubscribed when.
ReplayAgrees ==
  (state # "off" /\ runs = 1 /\ ~skipped) => Build(log) = gates

\* Restarts, crashes with part of the log lost and frames logged but not applied
\* included: when a live gate is ready on a connection, the builder's gate is ready
\* too and has the same book.
BooksAgree ==
  \A p \in Product : link # "down" /\ gates[p].ready =>
    Build(log)[p].ready /\ Build(log)[p].book = gates[p].book

\* The builder sees what the live gates saw, as far as both can.
BuilderAgrees == ReplayAgrees /\ BooksAgree

\* The sidecar never claims more snapshots than the live gates counted, over all
\* runs, and no fewer once the recorder has stopped and no run was killed.
SidecarHonest ==
  /\ SnapshotsTotal(sidecar) <= emitted
  /\ (state = "off" /\ ~crashed) => SnapshotsTotal(sidecar) = emitted

\* The total that decides when the target is reached never drops.
TotalNeverDrops == [][SnapshotsTotal(sidecar') >= SnapshotsTotal(sidecar)]_vars

\* recorder.py:20: the sidecar has "the exact snapshot count the archive builder
\* will produce".  Here: when the recorder has stopped and was never killed.
ExactSnapshotCount ==
  (state = "off" /\ ~crashed) => SnapshotsTotal(sidecar) = Count(Build(log))

=============================================================================
