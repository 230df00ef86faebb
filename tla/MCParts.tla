------------------------------ MODULE MCParts ------------------------------
(***************************************************************************)
(* Instances for TLC of the parts that meet only in files, at different    *)
(* times and on different machines, or not at all: a behaviour is that of  *)
(* one of them, chosen in its initial state, while the variables of the    *)
(* others have no value.  The parts whose properties are proved are        *)
(* extended instead: their variables keep their first values, and the      *)
(* configuration gives their bounds; the bounds of the others are given    *)
(* here, with the instances.                                               *)
(***************************************************************************)
EXTENDS BenchRun, Documents, Ladder, Browser, Service, Archive, Timing, TimedBlock, Fuzz

\* Documents: BENCHMARKS tells of the pipeline and of the archive, and how many full runs
\* measured the pipeline where they disagree; INTERVIEW_NOTES has a seventh question where
\* the pipeline was measured.  "2" and "7" are numbers that can be measured, too.
MCSectionsOf == [d \in Document |-> IF d = "BENCHMARKS" THEN {"pipeline", "archive"} ELSE {"pipeline"}]
MCHeadingsOf ==
  [d \in Document |->
     [topics \in SUBSET Topic |-> IF d = "INTERVIEW_NOTES" /\ "pipeline" \in topics THEN {"7"} ELSE {}]]
MCCountsOf(d, full) ==
  LET measured == {full[i].sections["pipeline"] : i \in DOMAIN full} \ {None}
  IN  IF d = "BENCHMARKS" /\ Cardinality(measured) = 2 THEN {"2"} ELSE {}

\* Ladder: one rung; a kernel that does what it should.
MCRung == <<"v2">>
AllRight == [o \in Output |-> "right"]

\* TimedBlock: two variants.
MCVariant == <<"v1", "v2">>

VARIABLES
  part,
  queues, target, met,                                                  \* RealisticStream
  campaign, fuzzStage, drawn, real, ref, found, streams, reports, fuzzExit, \* Differential
  minOps, minCut, minPass, minPart, minFails, minAgrees,                \* its ddmin
  benched, step, left, replayed, figures, files, exit,                  \* NativeBench
  trace, window, stats,                                                 \* Timeline
  rows, noMid, result                                                   \* Windows

S == INSTANCE RealisticStream WITH MaxTicks <- 3, MaxLots <- 2, MaxTrade <- 2, book <- queues
X == INSTANCE Differential WITH Prices <- {1, 2}, Window <- 1, MaxLength <- 4, stage <- fuzzStage, stream <- drawn,
       exit <- fuzzExit, ops <- minOps, cut <- minCut, pass <- minPass, nextPart <- minPart,
       fails <- minFails, agrees <- minAgrees,
       Campaigns <-
         {[engine |-> "OrderBook", quantities |-> {1, 2}, length |-> 4, streams |-> 1, maxDivergences |-> 0, minimize |-> TRUE],
          [engine |-> "NativeOrderBook", quantities |-> {1, 2}, length |-> 4, streams |-> 1, maxDivergences |-> 0, minimize |-> FALSE],
          [engine |-> "NewestFirstBook", quantities |-> {1}, length |-> 4, streams |-> 1, maxDivergences |-> 1, minimize |-> TRUE],
          [engine |-> "TakerPriceBook", quantities |-> {1, 2}, length |-> 2, streams |-> 3, maxDivergences |-> 2, minimize |-> FALSE]}
N == INSTANCE NativeBench WITH Prices <- {1, 2}, Window <- 1, Quantities <- {1, 2}, MaxLength <- 4, SyntheticOps <- 2, RealisticOps <- 3,
       Runs <- 2, run <- benched, at <- step, todo <- left, stream <- replayed, section <- figures
G == INSTANCE Timeline WITH Lane <- {"h2d", "kernel", "d2h"}, MaxTime <- 2, MaxOps <- 2
V == INSTANCE Windows WITH Products <- 2, MaxRows <- 4, MaxTime <- 3, Trades <- 2, WindowNs <- 2, HorizonNs <- 1

realisticStreamVars == <<queues, target, met>>
differentialVars == <<campaign, fuzzStage, drawn, real, ref, found, streams, reports, fuzzExit,
                      minOps, minCut, minPass, minPart, minFails, minAgrees>>
nativeBenchVars == <<benched, step, left, replayed, figures, files, exit>>
timelineVars == <<trace, window, stats>>
windowsVars == <<rows, noMid, result>>
partsVars == <<part, benchRunVars, documentsVars, serviceVars, browserVars, archiveVars,
        realisticStreamVars, ladderVars, fuzzVars,
        differentialVars, nativeBenchVars, timingVars, blockVars, timelineVars, windowsVars>>

\* The variables of a part that does not run.
RealisticStreamIdle == queues = None /\ target = None /\ met = None
DifferentialIdle == campaign = None /\ fuzzStage = None /\ drawn = None /\ real = None /\ ref = None /\ found = None
                    /\ streams = None /\ reports = None /\ fuzzExit = None /\ minOps = None /\ minCut = None
                    /\ minPass = None /\ minPart = None /\ minFails = None /\ minAgrees = None
NativeBenchIdle == benched = None /\ step = None /\ left = None /\ replayed = None /\ figures = None /\ files = None
                   /\ exit = None
TimelineIdle == trace = None /\ window = None /\ stats = None
WindowsIdle == rows = None /\ noMid = None /\ result = None

PartsInit ==
  /\ part \in {"bench", "documents", "service", "browser", "archive",
                "stream", "ladder", "fuzz", "campaign", "native", "timing", "block", "timeline", "windows"}
  /\ BenchRunInit
  /\ DocumentsInit /\ (part # "documents" => NothingRendered)
  /\ BrowserInit /\ (part # "browser" => market = NoLevels)
  /\ ServiceInit /\ (part # "service" => session = "api")
  /\ ArchiveInit
  /\ TimingInit /\ (part # "timing" => script = QueuedTime(SpinUs, <<<<"launch", 1>>>>))
  /\ BlockInit /\ (part # "block" => clock = 9 /\ monitor = "none" /\ readBefore.warmup = None)
  /\ FuzzInit /\ (part # "fuzz" => ops = <<1>>)
  /\ LadderInit /\ (part # "ladder" => available /\ \A k \in Kernel : effect[k] = AllRight)
  /\ IF part = "stream" THEN S!Init ELSE RealisticStreamIdle
  /\ IF part = "campaign" THEN X!Init ELSE DifferentialIdle
  /\ IF part = "native" THEN N!Init ELSE NativeBenchIdle
  /\ IF part = "timeline" THEN G!Init ELSE TimelineIdle
  /\ IF part = "windows" THEN V!Init ELSE WindowsIdle

\* A step of p is a step of its own variables.
Keep(p) ==
  /\ UNCHANGED part
  /\ IF p = "bench" THEN TRUE ELSE UNCHANGED benchRunVars
  /\ IF p = "documents" THEN TRUE ELSE UNCHANGED documentsVars
  /\ IF p = "service" THEN TRUE ELSE UNCHANGED serviceVars
  /\ IF p = "browser" THEN TRUE ELSE UNCHANGED browserVars
  /\ IF p = "archive" THEN TRUE ELSE UNCHANGED archiveVars
  /\ IF p = "stream" THEN TRUE ELSE UNCHANGED realisticStreamVars
  /\ IF p = "ladder" THEN TRUE ELSE UNCHANGED ladderVars
  /\ IF p = "fuzz" THEN TRUE ELSE UNCHANGED fuzzVars
  /\ IF p = "campaign" THEN TRUE ELSE UNCHANGED differentialVars
  /\ IF p = "native" THEN TRUE ELSE UNCHANGED nativeBenchVars
  /\ IF p = "timing" THEN TRUE ELSE UNCHANGED timingVars
  /\ IF p = "block" THEN TRUE ELSE UNCHANGED blockVars
  /\ IF p = "timeline" THEN TRUE ELSE UNCHANGED timelineVars
  /\ IF p = "windows" THEN TRUE ELSE UNCHANGED windowsVars

BenchRunStep == part = "bench" /\ BenchRunNext /\ Keep("bench")
DocumentsStep == part = "documents" /\ DocumentsNext /\ Keep("documents")
ServiceStep == part = "service" /\ ServiceNext /\ Keep("service")
BrowserStep == part = "browser" /\ BrowserNext /\ Keep("browser")
ArchiveStep == part = "archive" /\ ArchiveNext /\ Keep("archive")
RealisticStreamNext == part = "stream" /\ S!Next /\ Keep("stream")
LadderStep == part = "ladder" /\ LadderNext /\ Keep("ladder")
FuzzStep == part = "fuzz" /\ FuzzNext /\ Keep("fuzz")
DifferentialNext == part = "campaign" /\ X!Next /\ Keep("campaign")
NativeBenchNext == part = "native" /\ N!Next /\ Keep("native")
TimingStep == part = "timing" /\ TimingNext /\ Keep("timing")
TimedBlockStep == part = "block" /\ BlockNext /\ Keep("block")
TimelineNext == part = "timeline" /\ G!Next /\ Keep("timeline")
WindowsNext == part = "windows" /\ V!Next /\ Keep("windows")

PartsNext ==
  \/ BenchRunStep \/ DocumentsStep \/ ServiceStep \/ BrowserStep
  \/ ArchiveStep \/ RealisticStreamNext \/ LadderStep
  \/ FuzzStep \/ DifferentialNext \/ NativeBenchNext \/ TimingStep \/ TimedBlockStep \/ TimelineNext
  \/ WindowsNext

PartsSpec == PartsInit /\ [][PartsNext]_partsVars

\* The derived stream follows the recording: after a snapshot the generator's book is the
\* recorded one as far as the snapshot goes (FollowsTheRecording of RealisticStream).
FollowsTheRecording == part = "stream" => S!FollowsTheRecording

\* What runs of the fuzzer and of the native benchmark leave behind can be believed: a
\* reported stream shows its difference again when it is replayed (ReportsAreReal of
\* Differential), and figures have the arrays they were computed from (FiguresHaveArrays
\* of NativeBench).
FindingsHold ==
  /\ part = "campaign" => X!ReportsAreReal
  /\ part = "native" => N!FiguresHaveArrays

\* A figure over a window counts what lies in it, and once: the overlap of a timeline is
\* time that two lanes share (OverlapIsSharedTime of Timeline), and nothing of another
\* product or of the future gets into a row's numbers (NothingForeign of Windows).
WindowsHold ==
  /\ part = "timeline" => G!OverlapIsSharedTime
  /\ part = "windows" => V!NothingForeign
=============================================================================
