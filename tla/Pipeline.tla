------------------------------ MODULE Pipeline ------------------------------
(***************************************************************************)
(* The chunked GPU pipeline: HostStaging, DevicePipeline and               *)
(* MultiGpuPipeline of src/bench/bench_pipeline.py.                        *)
(*                                                                         *)
(* The host cuts the archive into chunks and, for each chunk, enqueues a   *)
(* copy in, a kernel and a copy out on three streams of a card, ordered by *)
(* event waits; the device buffers are used in turn.  A serial pass does   *)
(* the same on one stream and one buffer.  A pass over two cards enqueues  *)
(* on a pipeline of each in turn and waits for both at the end.            *)
(*                                                                         *)
(* A stream runs its operations in order, each over some time: a transfer  *)
(* or a kernel is a step that begins it and a step that ends it.  The host *)
(* enqueues a chunk in one step: it is the only one that enqueues, and a   *)
(* wait is enqueued before the operation it holds back.  Data is a tag:    *)
(* which pass, chunk and encoding it is.  Timing and profiling are left    *)
(* out.                                                                    *)
(***************************************************************************)
EXTENDS Naturals, Sequences, SequencesExt, FiniteSets

CONSTANTS
  K,          \* chunks of the archive
  Buffers,    \* BUFFERS: device input and output buffers of a pipeline
  Block32,    \* [Chunk -> bytes] of a chunk sent as int32
  Block16,    \* [Chunk -> bytes] of a chunk sent as int16
  Overflow,   \* the chunks with an offset that does not fit an int16
  MaxPasses   \* bound: passes of the host

Chunk == 0..K-1

\* An archive has a chunk and a pipeline a buffer.
ASSUME SizesAssumption ==
  /\ K \in Nat \ {0} /\ Buffers \in Nat \ {0} /\ MaxPasses \in Nat
  /\ Block32 \in [Chunk -> Nat] /\ Block16 \in [Chunk -> Nat]
  /\ Overflow \subseteq Chunk

\* The pipelines: 0 has the whole archive on one card, 1 and 2 are the halves of
\* MultiGpuPipeline.
Pipe == 0..2
ChunksOf(p) == IF p = 0 THEN Chunk ELSE 0..(K \div 2)-1

Stream == Pipe \X {"in", "comp", "out", "serial"}
Marker == Pipe \X {"h_end", "k_end", "d_end"} \X Chunk
Place  == Pipe \X (0..Buffers-1)

VARIABLES
  pass,      \* the pass under way or just finished: [number, kind, cards, encoding]
  toIssue,   \* the pipelines and chunks it has not enqueued, in order
  waiting,   \* the host is enqueuing or waiting for the cards
  encoded,   \* staging.int16 is there
  capacity,  \* max_in of pipeline 0: the bytes of an input buffer
  queue,     \* [Stream -> operations enqueued and not finished]
  finished,  \* [Stream -> number of operations finished in this pass]
  running,   \* the streams whose first operation has begun
  recorded,  \* [Marker -> the operation of its stream an event stands after]
  devIn, devOut, \* [Place -> content of a device buffer]
  hostOut    \* [Pipe \X Chunk -> content of the output block]

pipelineVars == <<pass, toIssue, waiting, encoded, capacity, queue, finished, running,
                  recorded, devIn, devOut, hostOut>>

Torn == [number |-> 0, chunk |-> 0, encoding |-> "torn"]
Kinds == {"overlapped", "serial", "h2d"}

-----------------------------------------------------------------------------
(* The host.                                                               *)

\* _plan: the encoding a chunk is sent in, and the bytes of its block.
Plan(c) == IF pass.encoding = "int16" /\ encoded /\ c \notin Overflow
             THEN "int16" ELSE "int32"
BlockBytes(c) == IF Plan(c) = "int16" THEN Block16[c] ELSE Block32[c]

Largest(block) == CHOOSE n \in {block[c] : c \in DOMAIN block} :
                    \A c \in DOMAIN block : block[c] <= n

CapacityUnchanged(block) == capacity

\* ensure_input_capacity for the blocks of an encoding.
EnsureCapacity(block) ==
  IF DOMAIN block = {} \/ Largest(block) <= capacity
    THEN capacity ELSE Largest(block)

\* An operation: what it does to which chunk and buffer, the events its stream
\* waits for before it, and the event recorded after it.
Op(what, c, after, record) ==
  [what |-> what, chunk |-> c, encoding |-> Plan(c), after |-> after, record |-> record,
   buffer |-> IF pass.kind = "serial" THEN 0 ELSE c % Buffers]

OneTooLate(event, c) == IF c > Buffers THEN {<<event, c - Buffers>>} ELSE {}

\* The copy in also waits until the kernel that read the buffer is done, the
\* kernel until the copy out of the buffer is: the event of Buffers chunks ago.
Earlier(event, c) == IF c >= Buffers THEN {<<event, c - Buffers>>} ELSE {}

\* issue_overlapped: what it adds to each stream.
IssueOverlapped(c) ==
  [in   |-> <<Op("copy_in", c, Earlier("k_end", c), "h_end")>>,
   comp |-> <<Op("kernel", c, {<<"h_end", c>>} \cup Earlier("d_end", c), "k_end")>>,
   out  |-> <<Op("copy_out", c, {<<"k_end", c>>}, "d_end")>>]

\* The body of pass_serial: in one stream, no event is waited for.
IssueSerial(c) ==
  [serial |-> <<Op("copy_in", c, {}, "none"), Op("kernel", c, {}, "none"),
                Op("copy_out", c, {}, "none")>>]

\* issue_h2d: nothing waits for it and it waits for nothing.
IssueH2d(c) == [in |-> <<Op("copy_in", c, {}, "none")>>]

IssueOps(c) == CASE pass.kind = "overlapped" -> IssueOverlapped(c)
                 [] pass.kind = "serial" -> IssueSerial(c)
                 [] pass.kind = "h2d" -> IssueH2d(c)

\* The streams of a pipeline get the operations; an event is recorded behind the
\* operation it follows.  An event not recorded in this pass holds nothing back.
Enqueue(pipe, ops) ==
  /\ queue' = [s \in Stream |-> IF s[1] = pipe /\ s[2] \in DOMAIN ops
                                  THEN queue[s] \o ops[s[2]] ELSE queue[s]]
  /\ recorded' = [m \in Marker |->
       LET maker == {t \in DOMAIN ops : m[1] = pipe /\ Last(ops[t]).record = m[2]
                                                   /\ Last(ops[t]).chunk = m[3]}
       IN  IF maker = {} THEN recorded[m]
           ELSE LET s == <<pipe, CHOOSE t \in maker : TRUE>>
                IN  finished[s] + Len(queue[s]) + Len(ops[s[2]])]

\* The order a pass enqueues in: MultiGpuPipeline._issue takes the halves in turn.
Order(cards) == IF cards = 2 THEN [i \in 1..K |-> <<((i - 1) % 2) + 1, (i - 1) \div 2>>]
                             ELSE [i \in 1..K |-> <<0, i - 1>>]

\* run_two_gpu gives up when the chunks do not split evenly, and measures no
\* serial pass; run_int16 measures the overlapped pass alone.
TwoCards(kind, encoding) == K % 2 = 0 /\ kind # "serial" /\ encoding = "int32"
Int16Pass(kind) == encoded /\ kind = "overlapped"

Begin(kind, cards, encoding) ==
  /\ ~waiting /\ pass.number < MaxPasses
  /\ cards = 2 => TwoCards(kind, encoding)
  /\ encoding = "int16" => Int16Pass(kind)
  /\ pass' = [number |-> pass.number + 1, kind |-> kind, cards |-> cards, encoding |-> encoding]
  /\ toIssue' = Order(cards)
  /\ waiting' = TRUE
  /\ UNCHANGED <<encoded, capacity, queue, finished, running, recorded,
                 devIn, devOut, hostOut>>

Issue ==
  /\ toIssue # <<>>
  /\ LET pipe == Head(toIssue)[1]
         c    == Head(toIssue)[2]
     IN  Enqueue(pipe, IssueOps(c))
  /\ toIssue' = Tail(toIssue)
  /\ UNCHANGED <<pass, waiting, encoded, capacity, finished, running,
                 devIn, devOut, hostOut>>

SynchronisedButOut == {s \in Stream : s[2] # "out"}

\* sync waits for these streams of the cards of the pass: all of them.
Synchronised == Stream

\* sync of the pipelines used; the events recorded so far are all behind the streams.
Sync ==
  /\ waiting /\ toIssue = <<>>
  /\ \A s \in Synchronised : queue[s] = <<>>
  /\ waiting' = FALSE
  /\ finished' = [s \in Stream |-> 0]
  /\ recorded' = [m \in Marker |-> 0]
  /\ UNCHANGED <<pass, toIssue, encoded, capacity, queue, running, devIn, devOut, hostOut>>

\* build_int16 and ensure_input_capacity, as run_int16 does between passes.
BuildInt16 ==
  /\ ~waiting /\ ~encoded
  /\ encoded' = TRUE
  /\ capacity' = EnsureCapacity([c \in Chunk \ Overflow |-> Block16[c]])
  /\ IF capacity' = capacity THEN UNCHANGED devIn
     ELSE devIn' = [p \in Place |-> IF p[1] = 0 THEN Torn ELSE devIn[p]]
  /\ UNCHANGED <<pass, toIssue, waiting, queue, finished, running, recorded,
                 devOut, hostOut>>

-----------------------------------------------------------------------------
(* The cards.                                                              *)

\* The stream an event is recorded on.
Recorder(event) == CASE event = "h_end" -> "in" [] event = "k_end" -> "comp"
                     [] event = "d_end" -> "out"

Reached(pipe, event, c) ==
  finished[<<pipe, Recorder(event)>>] >= recorded[<<pipe, event, c>>]

\* What an operation writes is torn from its first byte to its last.
StartOp(s) ==
  /\ s \notin running /\ queue[s] # <<>>
  /\ \A w \in Head(queue[s]).after : Reached(s[1], w[1], w[2])
  /\ running' = running \cup {s}
  /\ LET o     == Head(queue[s])
         place == <<s[1], o.buffer>>
     IN  /\ devIn' = IF o.what = "copy_in" THEN [devIn EXCEPT ![place] = Torn] ELSE devIn
         /\ devOut' = IF o.what = "kernel" THEN [devOut EXCEPT ![place] = Torn] ELSE devOut
         /\ hostOut' = IF o.what = "copy_out"
                         THEN [hostOut EXCEPT ![<<s[1], o.chunk>>] = Torn] ELSE hostOut
  /\ UNCHANGED <<pass, toIssue, waiting, encoded, capacity, queue, finished, recorded>>

\* The kernel reads the block with the layout of its own chunk and encoding:
\* anything else in the buffer gives garbage.
Features(o, block) ==
  IF block.chunk = o.chunk /\ block.encoding = o.encoding /\ block.number = pass.number
    THEN [block EXCEPT !.encoding = "features"] ELSE Torn

EndOp(s) ==
  /\ s \in running
  /\ running' = running \ {s}
  /\ LET o     == Head(queue[s])
         place == <<s[1], o.buffer>>
     IN  /\ devIn' = IF o.what = "copy_in"
                       THEN [devIn EXCEPT ![place] =
                              [number |-> pass.number, chunk |-> o.chunk, encoding |-> o.encoding]]
                       ELSE devIn
         /\ devOut' = IF o.what = "kernel"
                        THEN [devOut EXCEPT ![place] = Features(o, devIn[place])] ELSE devOut
         /\ hostOut' = IF o.what = "copy_out"
                         THEN [hostOut EXCEPT ![<<s[1], o.chunk>>] = devOut[place]] ELSE hostOut
  /\ queue' = [queue EXCEPT ![s] = Tail(@)]
  /\ finished' = [finished EXCEPT ![s] = @ + 1]
  /\ UNCHANGED <<pass, toIssue, waiting, encoded, capacity, recorded>>

PipelineInit ==
  /\ pass = [number |-> 0, kind |-> "serial", cards |-> 1, encoding |-> "int32"]
  /\ toIssue = <<>> /\ waiting = FALSE
  /\ encoded = FALSE /\ capacity = Largest(Block32)
  /\ queue = [s \in Stream |-> <<>>]
  /\ finished = [s \in Stream |-> 0]
  /\ running = {}
  /\ recorded = [m \in Marker |-> 0]
  /\ devIn = [p \in Place |-> Torn] /\ devOut = [p \in Place |-> Torn]
  /\ hostOut = [x \in Pipe \X Chunk |-> Torn]

Device == \E s \in Stream : StartOp(s) \/ EndOp(s)
Host == \/ \E kind \in Kinds, cards \in {1, 2}, encoding \in {"int32", "int16"} :
             Begin(kind, cards, encoding)
        \/ Issue \/ Sync \/ BuildInt16

PipelineNext == Host \/ Device

PipelineSpec == PipelineInit /\ [][PipelineNext]_pipelineVars

-----------------------------------------------------------------------------
(* Properties.                                                             *)

\* When a pass is over, every output block the host reads is that of this
\* pass and of its own chunk: no block of the pass before, of the chunk that
\* used the buffer earlier, or half written.
OutputsOfThisPass ==
  ~waiting /\ pass.number > 0 /\ pass.kind # "h2d" =>
    \A i \in DOMAIN Order(pass.cards) :
      hostOut[Order(pass.cards)[i]] =
        [number |-> pass.number, chunk |-> Order(pass.cards)[i][2], encoding |-> "features"]

Uses(s) == LET o == Head(queue[s]) IN
  CASE o.what = "copy_in"  -> [read |-> {}, write |-> {<<"in", s[1], o.buffer>>}]
    [] o.what = "kernel"   -> [read |-> {<<"in", s[1], o.buffer>>},
                             write |-> {<<"out", s[1], o.buffer>>}]
    [] o.what = "copy_out" -> [read |-> {<<"out", s[1], o.buffer>>}, write |-> {}]

\* No two operations under way at one time share a device buffer that one of
\* them writes: the events of issue_overlapped order every reuse of a buffer.
BuffersNotShared ==
  \A s, t \in running :
    s # t => Uses(s).write \cap (Uses(t).read \cup Uses(t).write) = {}

\* A copy in never writes past the end of its device buffer, also when the
\* int16 blocks, built after the buffers were allocated, are the larger ones.
CopiesFit ==
  \A s \in running : Head(queue[s]).what = "copy_in" => BlockBytes(Head(queue[s]).chunk) <= capacity

\* Passes, chunks, streams and cards keep apart what they share the buffers for.
PassesKeepApart == OutputsOfThisPass /\ BuffersNotShared /\ CopiesFit

=============================================================================
