------------------------------ MODULE Archive ------------------------------
(***************************************************************************)
(* The snapshot archive and its builder: ArchiveWriter, validate and       *)
(* content_hash of src/exchange_engine/archive.py, and build of            *)
(* scripts/build_archive.py.                                               *)
(*                                                                         *)
(* A line of the log is a frame: of a book, which makes one snapshot (the  *)
(* rule is SnapshotGate's), or of trades, which an exchange repeats when   *)
(* it is connected to again.  A build truncates the trade arrays of the    *)
(* directory at once and replaces its snapshot arrays one by one at the    *)
(* end, before the sidecar; it may be killed anywhere and run again over   *)
(* the longer log.  The sha256 of the arrays is taken to be the arrays.    *)
(***************************************************************************)
EXTENDS Integers, SequencesExt, Python

CONSTANTS
  TradeArray, SnapshotArray,  \* TRADE_ARRAYS, SNAPSHOT_ARRAYS
  Window,      \* TRADE_DEDUP_WINDOW
  Repeated,    \* trades the exchange sends again on a connect
  TradeChunk,  \* ArchiveWriter.chunk
  Cap,         \* values of --max-snapshots, 0 for none
  MaxTrades, MaxLines, MaxKills  \* bounds

\* The window (50,000) is longer than twice what is sent again: the ids between a trade and
\* its repetition are in it.
ASSUME ArchiveAssumption ==
  /\ Repeated \in Nat \ {0} /\ Window \in Nat /\ Window >= 2 * Repeated - 1
  /\ TradeArray \cap SnapshotArray = {}

VARIABLES
  made,     \* trades the exchange has made
  log,      \* the lines the recorder has written
  array,    \* [array -> its elements, or None]: the files of the archive directory
  archived, \* archive.json, or None when it is not there or cut short
  build,    \* the build that runs, or None
  kills

archiveVars == <<made, log, array, archived, build, kills>>

Array == TradeArray \cup SnapshotArray

ArchiveInit ==
  /\ made = 0 /\ log = <<>>
  /\ array = [a \in Array |-> None] /\ archived = None /\ build = None
  /\ kills = 0

-----------------------------------------------------------------------------
(* The exchange and the recorder.                                          *)

RecordLine(trades, book) ==
  /\ Len(log) < MaxLines
  /\ log' = Append(log, [trades |-> trades, book |-> book])
  /\ UNCHANGED <<array, archived, build, kills>>

RecordBook == RecordLine(<<>>, TRUE) /\ UNCHANGED made

RecordTrade ==
  /\ made < MaxTrades /\ made' = made + 1
  /\ RecordLine(<<made + 1>>, FALSE)

\* The trades up to the newest, oldest first: as many as are sent on a connect.
LastTrades(newest) ==
  LET n == IF newest < Repeated THEN newest ELSE Repeated
  IN  [k \in 1..n |-> newest - n + k]

\* After a gap the exchange sends its last trades, those of the gap among them, the
\* newest first or last.
Reconnect ==
  \E missed \in 0..Repeated :
    LET last == LastTrades(made + missed)
    IN  /\ made + missed <= MaxTrades /\ made' = made + missed
        /\ last # <<>>
        /\ \E frame \in {last, Reverse(last)} : RecordLine(frame, FALSE)

-----------------------------------------------------------------------------
(* build.                                                                  *)

\* The writer is opened: every trade array is empty from here on.
StartBuild ==
  /\ build = None
  /\ \E cap \in Cap :
       build' = [at |-> "read", line |-> 0, cap |-> cap, seen |-> <<>>, trades |-> <<>>,
                 snapshots |-> <<>>, flushed |-> 0, left |-> {}]
  /\ array' = [a \in Array |-> IF a \in TradeArray THEN <<>> ELSE array[a]]
  /\ UNCHANGED <<made, log, archived, kills>>

\* Mutant: an id leaves when the window is full.
SeenAfterEarly(seen, id) == IF Len(seen) + 1 >= Window THEN Append(Tail(seen), id) ELSE Append(seen, id)

\* The bucket of ids, oldest first, after an id that was not in it.
SeenAfter(seen, id) == IF Len(seen) + 1 > Window THEN Append(Tail(seen), id) ELSE Append(seen, id)

\* One trade of a frame.
TakeTrade(b, id) ==
  IF Contains(b.seen, id) THEN b
  ELSE [b EXCEPT !.seen = SeenAfter(@, id), !.trades = Append(@, id)]

\* One line; a snapshot is known by the line it is from.
TakeLine(b, line) ==
  [FoldLeft(TakeTrade, b, line.trades) EXCEPT
     !.line = @ + 1,
     !.snapshots = IF line.book THEN Append(@, b.line + 1) ELSE @]

FullBuild(b) == b.cap # 0 /\ Len(b.snapshots) >= b.cap

\* The next line is read, and the trades go to their files when the buffer is full.
ReadLine ==
  /\ build # None /\ build.at = "read" /\ build.line < Len(log) /\ ~FullBuild(build)
  /\ build' = LET b == TakeLine(build, log[build.line + 1])
              IN  IF Len(b.trades) - b.flushed >= TradeChunk THEN [b EXCEPT !.at = "flush", !.left = TradeArray]
                  ELSE b
  /\ UNCHANGED <<made, log, array, archived, kills>>

\* finish: the log is read, or there are as many snapshots as were asked for.
EndOfLog ==
  /\ build # None /\ build.at = "read"
  /\ build.line = Len(log) \/ FullBuild(build)
  /\ build' = [build EXCEPT !.at = "finish", !.left = TradeArray]
  /\ UNCHANGED <<made, log, array, archived, kills>>

\* _flush_trades, one array.
FlushTrades ==
  /\ build # None /\ build.at \in {"flush", "finish"}
  /\ \E a \in build.left :
       /\ array' = [array EXCEPT ![a] = build.trades]
       /\ build' = IF build.left # {a} THEN [build EXCEPT !.left = @ \ {a}]
                   ELSE IF build.at = "flush" THEN [build EXCEPT !.at = "read", !.left = {}, !.flushed = Len(build.trades)]
                   ELSE [build EXCEPT !.at = "replace", !.left = SnapshotArray]
  /\ UNCHANGED <<made, log, archived, kills>>

\* A snapshot array is opened, which empties it, and written.
EmptyArray ==
  /\ build # None /\ build.at = "replace"
  /\ \E a \in build.left : array[a] # <<>> /\ array' = [array EXCEPT ![a] = <<>>]
  /\ UNCHANGED <<made, log, archived, build, kills>>

WriteArray ==
  /\ build # None /\ build.at = "replace"
  /\ \E a \in build.left :
       /\ array[a] = <<>>
       /\ array' = [array EXCEPT ![a] = build.snapshots]
       /\ build' = [build EXCEPT !.left = @ \ {a}, !.at = IF build.left = {a} THEN "sidecar" ELSE @]
  /\ UNCHANGED <<made, log, archived, kills>>

\* content_hash.
ContentHash == [a \in Array |-> array[a]]

\* archive.json is opened, which empties it, and written.
EmptySidecar ==
  /\ build # None /\ build.at = "sidecar" /\ archived # None
  /\ archived' = None
  /\ UNCHANGED <<made, log, array, build, kills>>

WriteSidecar ==
  /\ build # None /\ build.at = "sidecar" /\ archived = None
  /\ archived' = [snapshots |-> Len(build.snapshots), hash |-> ContentHash]
  /\ build' = None
  /\ UNCHANGED <<made, log, array, kills>>

KillBuild ==
  /\ build # None /\ kills < MaxKills
  /\ build' = None /\ kills' = kills + 1
  /\ UNCHANGED <<made, log, array, archived>>

\* load_arrays: the sidecar and the files are there, and the level-major ones have
\* the shape it says.
Loads == /\ archived # None /\ \A a \in Array : array[a] # None
         /\ \A a \in SnapshotArray : Len(array[a]) = archived.snapshots

\* validate.
Validates == Loads /\ archived.hash = ContentHash

ArchiveNext ==
  \/ RecordBook \/ RecordTrade \/ Reconnect
  \/ StartBuild \/ ReadLine \/ EndOfLog \/ FlushTrades \/ EmptyArray \/ WriteArray
  \/ EmptySidecar \/ WriteSidecar \/ KillBuild

ArchiveSpec == ArchiveInit /\ [][ArchiveNext]_archiveVars

-----------------------------------------------------------------------------
(* Properties.                                                             *)

Known(trades, id) == IF Contains(trades, id) THEN trades ELSE Append(trades, id)

\* The trades of the first n lines in the order they were first seen.
TradesOf(lines, n) ==
  LET upTo[k \in 0..n] == IF k = 0 THEN <<>> ELSE FoldLeft(Known, upTo[k - 1], lines[k].trades)
  IN  upTo[n]

\* The lines of books among the first n, in order.
AreBookLines(snapshots, lines, n) ==
  /\ Range(snapshots) = {k \in 1..n : lines[k].book}
  /\ \A j, k \in DOMAIN snapshots : j < k => snapshots[j] < snapshots[k]

\* A directory that validates, at any moment, holds what a build over a beginning of
\* the log makes: every trade of those lines once, however the exchange repeated them
\* after its gaps, with the snapshots of the same lines; never arrays of two builds or
\* of one that was killed.
ValidMeansBuilt ==
  Validates =>
    \E n \in 0..Len(log) :
      /\ \A a \in TradeArray : array[a] = TradesOf(log, n)
      /\ \A a \in SnapshotArray : AreBookLines(array[a], log, n)
=============================================================================
