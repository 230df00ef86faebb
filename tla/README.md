# exchange-engine: a verification project

TLA+ models of the parts of `exchange-engine` that keep state or compute
together, model-checked with TLC, with proofs checked by TLAPS. Paths are
relative to the repository (`src/` in PROJECT.json).

- [Inventory](#1-inventory)
- [Modules and how they correspond to the code](#2-modules-and-how-they-correspond-to-the-code)
- [Runs, bounds, fairness](#3-runs-bounds-fairness)
- [Disagreements between code and documents](#4-disagreements-between-code-and-documents)
- [Proofs](#5-proofs)
- [What is not modelled](#6-what-is-not-modelled)
- [Plan](#7-plan)

To run: `tlc -config X.cfg M.tla` with the module that PROJECT.json names for
the configuration, `tlapm M.tla` for a module with proofs.

## 1. Inventory

| part | source | state | operations | talks to | what is hard | what must hold |
|---|---|---|---|---|---|---|
| Indexed order book | `src/exchange_engine/orderbook.py`, `models.py` | two sorted maps of FIFO levels, two maps of totals, one cancel index, the `Order` objects shared with the caller | `add_order`, `match_market_order`, `cancel_order`, accessors | engine, simulator | four structures repaired by hand on every path, two nested loops over what they mutate | one book, never crossed; quantity conserved; price-time priority; calls return |
| Reference book | `src/exchange_engine/reference_engine.py` | one list | the same | fuzzers | it is their oracle | it is the specification of the others |
| Native order book | `native/include/ee/order_book.hpp`, `native/python/binding.cpp`, `src/exchange_engine/native_book.py` | per side a moving window of slots, a two-level bitmap, a fallback vector and a cached best level; FIFO lists; an open-addressing id map; pools; `_orders` in Python | the same | fuzzers, benchmarks | caches of caches, window moves, backward-shift deletion, two copies of every order | sides well-formed; core coherent; copies agree; same behaviour as the reference |
| Single-pass scan | `cuda/scan.cu` (`lookback_*`), launched by `bench/bench_scans.py` | tile counter, statuses, aggregates and inclusive prefixes in GPU memory | claim, publish, look back | other blocks, through weakly ordered memory | stores that become visible late, blocks that never run while others spin, buffers reused | right prefixes, no deadlock |
| Market-data feed | `src/exchange_engine/feed.py` and `RecordingFeed` of `recorder.py` | connection, backoff, expected sequence number, book mirror | connect, subscribe, receive, resubscribe, back off | the exchange over a WebSocket; the recorder's watch | lost frames, lost connections, stale mirror, silence | mirror right unless a correction is under way; gaps are repaired; silence ends |
| Recorder | `src/exchange_engine/recorder.py`, `scripts/record.py` | raw log, gates, sidecar file, process | frame, gap, flush, sidecar, stop, crash, restart | feed, archive builder, `record.py --stop` | crashes between flushes, counts over restarts | sidecar honest, total never drops |
| Snapshot gate and archive builder | `src/exchange_engine/archive.py`, `scripts/build_archive.py` | a gate per product, live and offline | `apply_event`, `build` | recorder's log | the same state twice, at different times | both gates agree |
| Archive | `src/exchange_engine/archive.py` (`ArchiveWriter`, `validate`), `bench/common.py` (`load_archive`), `remote/kaggle.py` (`stage_archive`) | a directory of arrays and `archive.json`, copies as datasets, a cache of decompressed arrays | build, validate, stage, load | recorder's log, benchmarks | killed builds, repeated trades, arrays written one by one, a cache without an owner | what validates is one build of the log; what is loaded is the archive asked for |
| Matching engine, API, CLI | `src/exchange_engine/engine.py`, `api/index.py` | a book, cash, position, fills | submit, reset, commands | order book, HTTP clients | only takers are booked; errors half handled | every trade is booked once |
| Browser client | `public/js/app.js` | sockets, timers, the book, `ready`, the sample data and its offer | connect, close, retry, demo | the exchange | late frames of old sockets, handlers that read a global | a live page follows the market and never loses its last connection; sample data stays sample data |
| Recorder control | `scripts/record.py`, `scripts/poll_recorder.py` | pid file, stop file, `alive` in the sidecar | start, stop, poll | recorder | files of dead processes, two recorders, pids used again | no stop of an earlier recorder is obeyed |
| Remote GPU runner | `remote/kaggle.py`, `remote/base.py`, `remote/jobs/bench_all.py` | ledger file of jobs and minutes, results | push, wait, pull, run, guard | Kaggle | lost waits, replaced versions, interrupted commands | results are those of their run, its card and the archive asked for; minutes are counted once; the budget is respected |
| Benchmark runs | `bench/run_all.py`, `bench/common.py` | `metrics.json` over many runs, the child's own file | start, section, save, fail, skip, finish | the sections, child processes | kills and failures between saves | nothing saved is lost, a finished run accounts for every section |
| Timed blocks and timers | `bench/common.py` | clocks, samples, the `nvidia-smi` in the background; the card's queue of events | warm up, time in turns, stop, save | the card | a card that slows down under work, a host that is late | only the kernels are timed; drops are flagged |
| Verified ladder | `bench/bench_ladder.py`, `bench/ref_features.py` | output buffers shared by all kernels, who is verified | verify, sweep, choose, time | the kernels | a kernel that writes nothing, configurations never looked at | what is timed as verified is right |
| Chunked pipeline | `bench/bench_pipeline.py`, `cuda/pipeline.cu` | streams, events, two device buffers per card, host buffers | passes of six kinds | the card | reuse of buffers across streams | outputs are of this pass |
| Slippage kernels | `cuda/slippage.cu`, `bench/ref_slippage.py` | registers and shared memory of a warp | walk, scan, publish, search | benches | lanes out of step, ties, padding | all ways to walk the book agree |
| Rolling windows, order flow study | `bench/ref_scans.py`, `bench/ref_ofi.py` | prefix sums over mixed products | windows by count and by time, horizon | CUDA kernels, study | one prefix for all products, look-ahead | a row's numbers are of its product and its past |
| Derived order stream | `bench/realistic_stream.py` | an engine of its own | reconcile, take | a recording, the engine benchmark | additions that trade with what is about to go | its book is the recorded one |
| Timelines | `bench/timeline_svg.py` | intervals of three lanes | clip, merge, overlap | traces of the pipeline | touching, nested and cut operations | overlap is shared time, once |
| Fuzzers | `scripts/fuzz_engine.py` | two books, a stream, reproductions | draw, compare, shrink, report, replay | both books | failures that come and go, ids used again | every report fails when it is replayed and is 1-minimal |
| Benchmark of the native book | `scripts/benchmark_native.py` | streams, figures, saved arrays, `metrics.json` | record, derive, replay, check, measure, save | three books, the C++ benchmark, the derived stream | steps that fail between two saves | figures in the file have their arrays |
| Documents | `scripts/render_docs.py`, `check_numbers.py` | documents, provenance, runs | render, edit, check | results | renders that stop half-way, edits, numbers that are not read from a section, old provenance | every number is measured, counted or of a heading |

Statistics, dashboard, the floating-point kernels, the remaining benchmarks, replay
scripts and the GPU pages are listed in PROJECT.json with the reason why they are
left out.

The hazards, each at its line, are in PROJECT.json.

## 2. Modules and how they correspond to the code

### Order books

`ReferenceBook` is the abstract specification: a list `resting` in order of
arrival, and the best maker is found by looking at all of it. A call is a frame
`call` (its side, limit, remaining quantity, fills so far) and three kinds of
steps: the checks before the matching loop, one step per fill, everything after
the loop.

`OrderBook` is `orderbook.py`: `tree` is `_bids` and `_asks` (bids under negated
prices), `qtyMap` is `_bid_qty` and `_ask_qty`, `index` is `_orders`. `Consume`
is one iteration of the inner loop with the removal of an empty level,
`ReturnLimit` is `_rest` and the status of the taker, `CancelOrder` repairs all
three structures. `arrivals`, `submitted` and `executed` are history. A refused
call raises before anything changes and is no step.

`NativeBook` is the C++ core under its binding under `native_book.py`: `order` and
`orders` are the Python objects and `_orders`, `node` is the id map with the
nodes, `sides` the two `SideLevels`, `level` the `Level` objects with their lists.
`Consume` includes `unlink`, `ids_.erase` and `drop_level`; `ReturnLimit` is
`rest` and what Python does with the returned fills (`ApplyRaw` is `_fills`).
A list is a sequence: `prev` and `next` are not modelled one by one.

`SideLevels` has the methods of the class of that name as operators on a record:
window base, slots, bitmap, count, far levels, best. `far_` is sorted in the code
and a set here, `far_lower_bound` the least element not below a price;
erasing through it erases that element, whatever it is, as in the code. `Visit` is
the merge that `depth` shows.

`Bitmap` is the two-level bitmap by itself, with the word size as a constant so that
several words and summary words fit into a checkable model; `SideLevels` uses what
its searches are shown to answer. `IdMap` is the hash map by itself: `hash` is any
function, a deletion is one step per slot looked at; `NativeBook` uses what `find`
is shown to answer. Their specifications are `BitmapSpec` and `MapSpec`, so that
`MCOrderBook` can extend them beside `OrderBook`.

### Single-pass scan

`Lookback` is the kernel: a block claims a tile, stores its total, publishes A
with a release, looks back lane by lane, stores its inclusive prefix, publishes P.
`unflushed` is what a block has stored and the others do not see yet; the release
store waits for it. `StartBlock` starts any block while fewer than `Resident` run.
`Launch` is the next scan over the same buffers: status and counter are
cleared, values are not, and the input is another.

### Feed, recorder, builder

`SnapshotGate` has `ProductBook.set_level` and `SnapshotGate.apply_event` as
operators on a record. `Feed` is one connection at a time: `wire` and `requests`
are the frames and requests under way, `dropped` a frame the exchange left out;
`Receive` is the whole of `RecordingFeed._handle_message`, the resubscription
included, `ReceiveFails` the same with a socket that closes under it, `CloseStale`
the watch of `Recorder.run`. `Recorder` is the process and its files: `log` with
`durable` lines of it in finished frames, `sidecar`, the live `gates`; `Crash` loses
any part of what is not durable. `Build` is the builder's pass over the log with
gates of its own. The exchange and the network are external: they are modelled
from what the client relies on.

### Archives

`Archive` is the directory: `array` has every file, `archived` (the sidecar) is None
while `archive.json` is missing or cut short. `StartBuild` truncates the trade arrays as
`ArchiveWriter.__init__` does; `ReadLine` takes a line of the log, `FlushTrades`
appends a chunk, `EmptyArray`/`WriteArray` and `EmptySidecar`/`WriteSidecar` are the
two halves of opening and writing a file, so that `KillBuild` can come between. What
makes a snapshot is `SnapshotGate`'s business and a flag here; `SeenAfter` is the
bounded window over trade ids. `Dataset` follows archives out of it: staged as
datasets, loaded through the cache of `_decompress`.

### Clients of the books

`Service` extends `ReferenceBook` with what `MatchingEngine` adds to it: order ids,
cash, position, fills. `PostOrder` is the whole of a request up to the book's loop,
`SubmitReturns` the rest with `_account_for`; `EnterLine` is a line of the CLI with
its parser and both ways to fail. A request runs on the event loop without an await,
so two never overlap.

`Browser` has every socket the page ever made, because their handlers stay: `OnOpen`,
`OnMessage`, `OnClose`, `OnError` act for socket `s`, and use `Ws`, the last one,
where the code reads the global `ws`. `timers` counts the timeouts that will call
`connect`. `Closed` is the browser's rule that a closing socket delivers nothing more.

`RecorderControl` has two recorders, a stop command and their three files; every step
of `stop` and of the start of `run` is an action. Its specification is `ControlSpec`.

### GPU jobs, results and documents

`RemoteJob` (`JobSpec`): `remote` is Kaggle with one output per kernel, `ledger` the JSON file,
`command` the command under way with the place it is at, so that it can be interrupted
between any two. A version meets some card and some archive; the bootstrap checks the card
(`CardPasses`), the body of `bench_all` the archive (`ArchivePasses`): its content hash only
where the job was pushed with one (`hashed`), its source label always. `BenchRun` (`BenchRunSpec`): `file` is `metrics.json`, `mem` what the process has of
it, `childFile` the file that `benchmark_native.py` leaves. `Documents` (`DocumentsSpec`): runs of all
kinds in `results/`, documents and provenance written one by one, edits by people. A token is
recorded for a number that is read from a section (`FormattedTokens`), for one that is counted
over full runs, as timed blocks and disagreeing sessions are (`CountTokens`; `CountsOf` is a
constant operator, so that proofs hold of whatever is counted), and for the numbers of
headings (`HeadingTokens`), which no run measured. `Sources` accepts an entry without a
document for any, and `RenderedUntagged` is a repository that has such entries. `MCParts`
has two documents for TLC.
`Ladder` (`LadderSpec`) has one buffer per output and for every kernel whether it writes it right,
wrong or not at all. `Pipeline` enqueues the operations that the Python code enqueues
and lets the card execute the heads of its queues in any order that events and
streams allow; its specification is `PipelineSpec`, so that `MCGpu` can extend it beside
`Lookback`. `Timing` (`TimingSpec`) and `TimedBlock` (`BlockSpec`) are the two ways a time is taken. `Python`
declares `None`, which several of these share.

### Algorithms

`Slippage`, `Windows`, `Timeline`, `RealisticStream` and `Fuzz` translate algorithms
and compare them with definitions that say what is wanted: the walk over the levels;
the rows of a window as a set; the moments in which two lanes are busy; the recorded
book; a stream of which no operation can be left out. The warp of `Slippage` (`SlippageSpec`) is a
state machine, lane by lane between two barriers; the shuffles, which no lane leaves before
the last has come, are one step (`Scan`). `Fuzz` (`FuzzSpec`) decides which streams fail
as it tries them, since nothing is known of that function.

### Books as values

`Books` has whole calls as operators on a record, for the programs that replay one stream
through several books: `OrderBook`, `ReferenceBook` and the two broken books of the
repository's tests (`NewestFirstBook`, `TakerPriceBook`). `NativeBooks` adds the native book:
the C++ core with its nodes, levels and the sides of `SideLevels` (`CoreAdd`, `CoreMatch`,
`CoreCancel`, `CoreDepth`), the wrapper of `native_book.py` with `_orders` over it
(`NativeAddOrder` and so on), and the bare core as the binding and the C++ harness drive it
(`CoreApply`). Nothing of it is shared with the Python books but the numbering of orders. Order objects are numbered by
when they were accepted, so that an order that died under an id that was used again stays
under comparison, as it does in the fuzzer. `Differential` is the campaign of
`fuzz_engine.py` over them, the native book included (`--engine native`), with the shrinking of `Fuzz` in the middle: here whether a
stream fails is not chosen but computed by `Divergence`. `NativeBench` is
`benchmark_native.py`: the synthetic and the derived section, the four ways to replay them,
and the files written between. The harness and the binding run the bare core over the integers of
`to_ints` and of the file, the book over the binding runs the wrapper, the Python engine runs
`OrderBook`; `Counts` compares what the three different programs counted. A derived stream without one of the three kinds of
operations ends the program with a division by zero, and `metrics.json` is opened before
it is written, so that a kill can leave it torn; both are steps of the model.

### Lists

`Lists` has what the books do with lists of orders: what they add up to, the list without
one order, the order in which two lists name the same ones.

## 3. Runs, bounds, fairness

| run | bounds | what it shows |
|---|---|---|
| `OrderBook` | 3 ids, prices 1-2, quantities to 2; bitmap: 14 slots in words of 2 bits; id map: 4 ids, every hash function, 4 slots growing to 8 | levels, index, totals and orders are one book; never crossed; quantities add up; price-time priority; implements `ReferenceBook`; calls return; the bitmap's searches find the neighbours, the id map finds what is in it and nothing else |
| `NativeBook` | window of 2, prices 1-4, 3 ids | sides well-formed, core coherent, totals, depth and Python objects agree; implements `ReferenceBook` |
| `Gpu` | scan: 4 tiles, 2 lanes, 3 resident blocks; pipeline: 6 chunks, 2 buffers, 2 passes, 1 or 2 cards; slippage: 2 lanes, 3 levels, sizes 0 to 2, 4 targets a side | statuses keep their promise, prefixes right, nobody waits for the unstarted, every launch ends; passes of the pipeline keep apart; the warp, the vectorised reference and the walk level by level give one answer |
| `Feed` | 1 price on each side, 2 frames and 2 requests under way, 2 losses | mirror right unless a correction is under way; gaps healed; silence ends |
| `Files` | recorder: 5 lines, 2 runs, 1 gap; control: 2 recorders, 2 stops; remote jobs: 2 versions with or without a hash, 3 kinds of archive, 2 attempts, 1 interruption, budget 3 | builder follows live gates, sidecar honest, total never drops; no file of an earlier recorder is taken for one of the running; results are of their run, its card and, where a hash was given, its archive; minutes count from the first poll that saw the run |
| `Parts` | below | fourteen small modules, one at a time |
| `Feed_silent`, `Recorder_restart`, `RemoteJob_budget`, `BenchRun_native`, `Browser_ready`, `Dataset_cache` | smaller | the findings of section 4 |

`MCOrderBook`, `MCGpu`, `MCFiles` and `MCParts` put modules that share no state side by
side: a behaviour is that of one of them, chosen in its initial state, and the variables of
the others stay as they are. So one run checks many small models without multiplying their
states. Modules with proofs are extended, so that a run checks the very definitions the
theorems are about; the others are instances. `Parts` has:

| module | bounds | property |
|---|---|---|
| `BenchRun` | 2 sections beside the two engine ones, 3 runs into one directory | `FinishedAccounts`, `NothingLost` |
| `Documents` | 2 documents, 2 topics, 3 numbers of which 1 can be a heading's and 1 a count, 2 runs of any kind, 2 edits or renders that stop; documents rendered before or after tokens were tagged | `NumbersTraced` |
| `Service` | 3 orders and a market order, prices and quantities to 2, fields missing or not numbers | `BookedOnce` |
| `Browser` | 3 sockets, 3 frames under way on each | `PageKeepsUp` |
| `Archive` | 4 trades, 3 lines, window of 3 ids, 1 kill | `ValidMeansBuilt` |
| `RealisticStream` | 3 ticks, 2 lots a level | `FollowsTheRecording` |
| `Ladder` | a plain rung, 2 configurations, 1 Triton one, 2 outputs | `VerifiedIsRight` |
| `Fuzz` | 7 operations, every answer | `OneMinimal` |
| `Differential` | streams of 4 operations against `OrderBook`, `NativeOrderBook` (with a window of 1) and `NewestFirstBook`, 3 streams of 2 against `TakerPriceBook`; 2 prices, quantities 1 and 2 (1 for `NewestFirstBook`) | `FindingsHold` (`ReportsAreReal`) |
| `NativeBench` | 2 synthetic and 3 derived operations, 2 runs into one directory, 2 prices, 2 quantities, a window of 1 | `FindingsHold` (`FiguresHaveArrays`) |
| `Timing` | 2 kernels of up to 2 ticks, a wait of 4 | `OnlyKernelsTimed` |
| `TimedBlock` | 2 variants, 2 rounds, 3 clocks | `BlockIsSound` |
| `Timeline` | 3 lanes with 2 operations each, 3 points in time | `WindowsHold` (`OverlapIsSharedTime`) |
| `Windows` | 2 products, 4 rows, times to 3 | `WindowsHold` (`NothingForeign`) |

Where a property is a conjunction of named parts (`QuantitiesAddUp`, `ViewsAgree`,
`PassesKeepApart`, `BuilderAgrees`, `MapHolds`, `PageKeepsUp`, `FilesAreCurrent`,
`AllWalkTheBook`, `BlockIsSound`, `FindingsHold`, `WindowsHold`) PROJECT.json has a mutant for the
parts, each one the slip in the code that the part is there to find. The type invariants
of the proof modules (`TypeOK`) are proved and no longer checked by a run.

Why these bounds are enough. Books: three orders are a level with two makers and
a taker that exhausts one and touches the other; quantities 1 and 2 give exact, partial
and multiple fills; two prices are a best level and one behind it, or one on each side.
Native: four prices through a window of two put levels on either side of the window,
leave it empty with levels outside, and move it. Scan: with four tiles, windows of two
and three blocks on the GPU the last tile can find two unfinished predecessors, so that
the window moves back and then reaches past tile 0 (with two blocks on the GPU one of
the two is always finished and the window never moves). The fourth block has to wait
for a slot. Pipeline: six chunks use each of two buffers three times, and the second
pass meets the outputs and events of the first. Feed: two losses are a gap and the loss
of the snapshot that should repair it. Recorder: two runs are what it takes for counts
to be carried over; its five lines have a connect line, a snapshot, a gap line and
updates.
RemoteJob: two pushes are a version and the one that replaces it, or a job and the same pushed
again with its hash. Documents: two runs are one that a document is rendered from and a later
one, of a kind that may not count; two edits are a number typed in and a render that stops, or
two of either. BenchRun: a third run
meets what two others left. Bitmap: seven words under four summary words have a search
leave its word and its summary word. IdMap: four ids are a growth, and with two of the
four slots taken a probe run can go round the end. Browser: three sockets are the one
that closes, the one of its timer and the one of retryLive. Archive: a window of three
ids is shorter than the log's four trades and longer than what an exchange repeats (2).
Slippage: three levels on two lanes leave the last level in the upper half of a lane,
and padding beside it; targets 2, 4, 5 and 9 are met at, between and beyond levels.
RealisticStream: three ticks are a level that goes, one that stays and one outside the
recorded range. Fuzz: seven operations are cut into chunks of unequal length.
Differential: four operations are two orders at one price, a third that meets them, and one
that is not needed, or an order, its cancellation, its id used again and a trade (the native book's window of one tick has the second
price among the far levels, or moves); three streams with at most two reports end a campaign early and late. NativeBench: the second run
meets the files of the first. Timing:
the host may be slower or faster than the wait. TimedBlock: two rounds give each of two
variants both places. Timeline: three points are enough for operations that nest, touch
and are cut. Windows: four rows of two products are a window that would reach into the
product before it, and a row whose horizon ends after the recording.

`CHECK_DEADLOCK FALSE` is used where the system really ends: a recorder, a
pipeline's passes, a benchmark run, a job, a timed block; and for the small runs of
findings.

Fairness, and why the code gives it:

- books: `Consume`, `ReturnLimit` and `ReturnMarket` are lines of a running call, in
  one thread, that await nothing;
- scan: a block on the GPU keeps running (every step and every lane), and the GPU
  starts some block when a slot is free; a block that is not on the GPU is
  promised nothing;
- feed: the tasks of the event loop are never starved, the exchange answers
  requests and sends frames (it subscribes to heartbeats) while a
  connection lasts and is not silent.

The other modules are checked for safety only. That the deletion of the id map ends
is an invariant (`EraseEnds`: the hole moves on and an empty slot is ahead).

## 4. Disagreements between code and documents

| run | what |
|---|---|
| `Feed_silent` | a socket silent for 30 s is to be replaced (`recorder.py:42`); one that is silent from the start never is |
| `Recorder_restart` | the sidecar promises the exact count of the builder (`recorder.py:21`); a restart on an unchanged book counts one more |
| `RemoteJob_budget` | "every run pushed ... counts against it" (`kaggle.py:43`); a run counts once a wait has seen it end, so two pushed without waiting pass the guard |
| `BenchRun_native` | `native_engine_benchmark` returns "its" section (`run_all.py:240`); when the child dies it returns the one an earlier run left |
| `Browser_ready` | "ready only after a snapshot" (`app.js:91`); updates on an older socket make the cleared book ready |
| `Dataset_cache` | `load_archive` "transparently decompresses" (`common.py:52`); a cached array of another dataset is taken for its own |

Five more were met and are not runs. `models.py:62` says that `Order.timestamp` is used
for time priority; priority is the order of submission (`PriceTimePriority` holds of
that). `archive.py:109` says that live count and archive agree exactly; a frame that was
logged just before the resubscription raises is in the archive only (`ReplayAgrees`
leaves such logs out by `skipped`, `BooksAgree` does not). `parse_command` documents
`ValueError` for what it cannot parse (`engine.py:326`); a word for a number raises
`InvalidOperation`, which ends the CLI, as does an order the engine refuses
(`EnterLine` of `Service`). `remote/README.md:20` says that `bench_all` measures "the attached
archive after checking its content hash and source"; the hash is checked only
`if ARCHIVE_HASH` (`bench_all.py:23`), and `--archive-hash` is None unless given
(`kaggle.py:445`), so another archive of the same label can be measured and pulled
(`ArchivePasses`; `ResultsVouched` promises the archive only to a job pushed with its hash).
`check_numbers.py:1` says that every number traces to a real T4 result; the number of a
question, and one in the title of a bullet, is recorded as a token of the latest run
(`render_docs.py:1813`, `1936`), so typed into the text it passes though nothing measured it, and
an entry without a document passes for any (`check_numbers.py:92-93`): `HeadingTokens`,
`Sources`, and the second and third case of `NumbersTraced`.

## 5. Proofs

All by TLAPS, for every value of the constants under the assumptions the modules
name, each beside the constant it is about: bounds are numbers, positive where the code
has one; `NoOrder` is no id and `None` no number; a scan has at least one tile and as many
blocks as tiles; a pipeline has a buffer; a snapshot has as many levels as a warp has lanes,
or up to twice as many; an archive has a chunk; the sizes of the id map are powers of two; the
sections of a benchmark are finitely many.

`OrderBookProofs`. The inductive invariant `IInv` of `OrderBook` adds to the properties:
every price with a level has a total, the frame of a running call fits its order, and
every level lists its orders in order of arrival. The last one is what makes price-time
priority follow from taking the head of the best level. From it `TypeCorrect`,
`IndexCorrect`, `NeverCrossed`, `QuantityConserved` and `PriorityRespected`. Two more
arguments rest on it:

- `ReferenceImplemented`: `OrderBook` implements `ReferenceBook`, with `arrivals` as the
  list of resting orders. Every step is the step of the same name there; the head of the
  best level is the first of the best priced in the list because levels are ordered as
  the list is.
- `QuantitiesCorrect`: the totals of the prices, the fills of a call and the statuses. `QInv`
  (of `OrderBook`, beside the property) adds that the history of every order but the
  taker's is told by its status also during a call, and that no maker still to come is
  better than those already taken.

`NativeBookProofs`. `SidesAlwaysWellFormed`, `CoreAlwaysCoherent`. The invariant `IInv` adds
that the order of a running call is not in the book yet, without which `rest` could
list it twice. `NativeInvariant` adds `VInv`: what the Python objects will say when the
fills of the running call have been applied is what the nodes say now, no maker is filled
twice in a call, and levels are in order of arrival. From both follow `ViewsCorrect` (totals,
depth and the Python objects) and `ReferenceImplemented` (the native book, too, implements
`ReferenceBook`: the two books are equivalent for their callers). They rest on what each
method of `SideLevels` does to the set of prices of a side, that the side stays
well-formed, and that depth lists its levels best first: `FindCorrect`, `RecentreCorrect`,
`InsertCorrect`, `ScanBestCorrect`, `EraseCorrect`, `VisitCorrect`. The two indexes that
`SideLevels` and `NativeBook` take by what they answer are proved there as well:

- `BitmapSearches`: for every number of places and every word size, `next` and `prev` find
  the nearest place that is set. The summary says of each word whether it is empty
  (`SummaryExact`); what remains is arithmetic: which places lie in a word, and in a word of
  the summary.
- `MapAlwaysHolds`: for every hash function the id map finds its members and nothing else,
  is never more than half full, and its deletions end. The invariant is that of linear
  probing with a hole in it: between the place an entry hashes to and the place it is in,
  nothing is empty but the hole of a deletion under way, and the entries between the hole and
  the place the deletion looks at next do not need to move.

`RecorderProofs`. `RecorderInvariant`: the log's lines and the gates are what they should
be, the counts in memory, in the sidecar and of all runs are in order, and the builder
agrees. A line more in the log is one step more of the builder (`BuildOfAppend`), a
cut log is a prefix. From it `BuilderCorrect`, `SidecarCorrect` and `TotalOnlyGrows`.
`FilesStayCurrent` is about the files between the processes, for every set of pids and any
number of starts, stops and kills: what a recorder takes for its own stop request or leaves
as its end is not of an earlier one.

`GpuProofs`, on the scan. `ScanIsCorrect`, `StatusesHold`, `SeenStatusesHold`,
`NobodyWaitsForTheUnstarted`, `TypeCorrect`. The invariant follows the tiles claimed (the
counter counts them, and they are those below it), what is stored and not
visible yet, what lanes have seen and how far each walk has come.

`GpuProofs`, on the pipeline. `PassesApart` (`PassesKeepApart`). The invariant has four parts. What is
finished and what is queued on a stream are the operations of the pass in order
(`QueuesFollow`), however far the host has come (`HostFollows`); an event is recorded
behind the operation of its chunk or not in this pass (`EventsFollow`). From these, the wait
for the event of `Buffers` chunks ago is what keeps the streams of an overlapped pass within
`Buffers` chunks of one another (`StreamsOrdered`); two chunks in one buffer are at least
that far apart (`SameBuffer`), so that nothing is overwritten before it is read
(`OverlappedData`; `SerialData` for a pass on one stream). The argument is about every
interleaving of the streams and any `K`, `Buffers` and block sizes. `CapacityEnough` gives the length
of the copies. Every conjunct was checked with TLC on the instance of `Gpu` before.

`GpuProofs`, on the slippage warp. `CostsAreWalked` (`AllWalkTheBook`), for a warp of any size,
books of up to twice as many levels and any targets. Four steps lead there. With each doubled
offset a lane has the sum of a window twice as long that ends at its own value
(`ShuffleDoubles`), so after the last it has the sum from the first lane on, and with the total of the
lower half added, the levels a warp further. Sums only grow, so the levels whose sum is below the target
come first, and counting them, as the reference does, or searching for the last by halves, as
a lane does, finds the same level. The walk level by level stops at that level with those
sums (`WalkFollows`). The invariant `SlippageInv` says of every interleaving of the lanes that none
searches before all have published (`LanesTogether`), what registers and shared memory hold, and
that between `lo` and `hi` of a search lies the level it looks for (`SearchesHold`). Sums are exact
here; how far float64 is from that is not what is proved.

`FeedProofs`. `MirrorIsRight`: the mirror is the exchange's book unless a correction
is under way, for every number of frames under way. The invariant says that,
frame by frame, the wire tells how the exchange's book went from what the
client has to what it is, except where a gap, a request or a snapshot will
correct it.

`LabProofs`, on what the programs of the lab leave in files, wherever they fail, are
interrupted or killed, and on what they time:

- `FinishedIsAccounted` and `NothingIsLost` (`BenchRun`), for any sections and any number of
  runs into one directory. The invariant relates the file, what the process holds and where
  the run stands: a section that is no longer to be run is there or among the errors.
- `ResultsAreVouched` and `MinutesAreCounted` (`RemoteJob`), for any number of versions,
  attempts and interruptions. The invariant: a command has a run that was pushed, a
  version that completed has passed its checks (`Checks`: the card, the hash if it was given, the
  label), what is in the results of a run completed as that run, and a wait that polls knows the start that the ledger knows.
- `NumbersAreTraced` (`Documents`), for any headings and whatever is counted: every token in
  the provenance, or about to be, is accounted for in its document (`AccountedIn`: measured by a
  full run in a section of that document, counted over full runs, or a heading's), or in some document if it
  names none, by runs that are still there (`MoreRuns`), whatever is edited and whichever
  render stops. That a number of a heading was measured is not claimed: it is false
  (section 4).
- `SavedIsRight` (`Ladder`): with the outputs poisoned before each kernel, a comparison that
  passes says of this kernel that it wrote everything right. The invariant is that the
  verified are right and that a rung already passed over, or the configuration chosen, is
  verified if it is right.
- `ArchiveIsBuilt` (`Archive`), for any log, any number of builds over it while it grows, and
  kills between any two files. Whether a directory validates is decided by the hash in the
  sidecar, so the invariant says that the sidecar, whenever it is there, is of files that a build
  made, and of a build which of its files are written (`Written`). The other half is about the
  trades: a trade is never further from its place in the list than an exchange repeats
  (`Numbered`), so an id that comes again is among the last 2 * `Repeated` - 1, which is what
  `ArchiveAssumption` asks of the window (`LatestFacts`, `FrameTaken`). With a window of one
  less TLC finds an archive that has a trade twice: that is the mutant `SeenAfterEarly`.
- `KernelsAreTimed` (`Timing`), for any number of kernels of any length, any pace of the host
  and a card that waits longer than it was told. The invariant is about what is not through
  yet, the queue and what is still to be enqueued as one list (`TimedSoFar`): enqueueing
  does not change it, and while the host is within the time it counts on, the card comes to
  the end of that list without having been idle. The host's clock is the card's
  (`HostOnTime`), so a card with an empty queue is a host that is late.
- `BlocksAreSound` (`TimedBlock`), for any variants, any number of rounds and any clocks. The
  invariant: each variant has a sample for each turn it had, the newest of which is of the
  clock as it is, and call k of round i is stamp i * n + k (`SamplesFollow`, `StampsFollow`).
  A variant has a place in the iterations of one remainder modulo the number of variants
  (`PlacesRotate`), and of each remainder there are equally many, but for one
  (`RemaindersAreFair`).
- `ReturnsOneMinimal` (`Fuzz`), for streams of any length and whatever streams fail. The pass
  over single operations goes through the stream once, so by itself it would not do: an
  operation that could not be left out may be one that can after another is gone. The
  invariant says why it suffices: the loop before it ends when all complements of the last
  round were tried and agree (`ComplementsTried`) and there are as many chunks as operations,
  so that the complements are the streams without one operation (`FineComplements`,
  `SinglesTried`). It follows that the pass never drops anything from what the loop leaves.

`ClientProofs`, on the programs that stand before the book and the feed:

- `PageKeepsUpAlways` (`Browser`), for any number of sockets and of frames under way. Without
  `retryLive` the page has one connection at a time, or one timer that will make one
  (`OneConnection`). The levels it has and the frames under way are then one chain that
  ends in the market's book; a frame that arrives takes the first link away, a change of the
  market adds one at the end (`Brings`).
- `EverythingBookedOnce` (`Service`), for any number of orders, any prices and quantities. The
  engine books the fills of the order that comes in and never those of the orders it meets.
  During a call the orders met have their part of the trades and the order that came in has
  not, so the two sides differ by exactly the fills of the call (`UnderWay`), which its end
  books. The sum over all orders changes by the one order a step changes (`TotalOfChange`).

`ListLemmas` has the facts about lists that all of them use. The folds of the community
modules (`FoldLeft`, `SumSet`) are recursive functions inside, and the library has no
induction theorem a prover here can use; so induction is done over a set of numbers that
has a least element (`LeastNatural`), and `StepsExist` and `FoldExists` show that the
functions that are chosen in such definitions exist. What a fold does to one element more
(`TotalOfAppend` and the like) follows from there.

`IInv` and `QInv` of `OrderBook`, `VInv`, the recorder's invariant and `SlippageInv` were checked with TLC
on the instances of the runs before they were proved.

Only model-checked: liveness and whatever needs ENABLED (out of the prover's reach),
and of the modules of `Parts` the properties `FollowsTheRecording`, `FindingsHold` and
`WindowsHold`. `Books` and `NativeBooks` are written
with recursive operators, so nothing is proved about them; what they compute is compared, in
`Differential`, with the reference book.

## 6. What is not modelled

Decimal arithmetic and rounding (quantities are small integers, prices ticks);
object pools and pointers of the native book; running out of memory; 64-bit limits
of prices and quantities; the inside of a tile in the scan, floating-point
rounding, the other kernels; the layout of a row and the bytes of log and archive;
trades and heartbeats in the feed; the plain feed's event queue; the read-only
endpoints and the statistics; the execution simulator, the trades and the rendering of
the page; uploads to Kaggle, and two commands of the runner at one time; the wording of
the documents; the remaining benchmarks, which are straight-line measurements; the
replay scripts and the GPU pages. PROJECT.json says of each component which of it is
modelled.

## 7. Plan

What is left, most important first.

1. Two commands of the remote runner at one time, and its datasets.
2. The plain feed and its queue; the execution simulator of the page.
3. Proofs about the other algorithms: the derived stream, timelines and windows.
