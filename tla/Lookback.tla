------------------------------ MODULE Lookback ------------------------------
(***************************************************************************)
(* The single-pass decoupled look-back scan of src/cuda/scan.cu, launched  *)
(* by ScanRunner._lookback of src/bench/bench_scans.py.                    *)
(*                                                                         *)
(* Thread blocks run concurrently.  Each takes a tile, publishes the tile's *)
(* total in one array and a status word in another, and walks back over    *)
(* what its predecessors published until it knows the sum of all of them.  *)
(* Statuses and values are different words of a weakly ordered memory, and *)
(* the GPU runs only some of the blocks at a time, in an order of its own. *)
(* The four buffers are kept between launches: each launch finds the       *)
(* values of the last one, or whatever cp.empty returned.                  *)
(*                                                                         *)
(* A tile is its total: the scan inside a tile and floating-point rounding *)
(* are not modelled.                                                       *)
(***************************************************************************)
EXTENDS Integers, FiniteSets

CONSTANTS
  Block,     \* the thread blocks of a launch, one per tile
  NumTiles,  \* tiles of the input
  Window,    \* lanes of a warp: predecessors inspected at a time (32)
  Resident,  \* blocks the GPU can run at a time
  Input,     \* the inputs that are scanned
  TileSum,   \* TileSum[i][t]: the sum of tile t of input i
  Prefix,    \* Prefix[i][t]: the sum of the tiles of input i before tile t
  Garbage    \* what fresh device memory holds

Tile == 0..NumTiles - 1
Lane == 0..Window - 1

ASSUME SizeAssumption  == NumTiles \in Nat \ {0} /\ Window \in Nat \ {0} /\ Resident \in Nat \ {0}
ASSUME BlockAssumption == IsFiniteSet(Block) /\ Cardinality(Block) = NumTiles
ASSUME InputAssumption ==
  /\ Input # {}
  /\ Garbage \in Int
  /\ TileSum \in [Input -> [Tile -> Int]]
  /\ Prefix \in [Input -> [0..NumTiles -> Int]]
ASSUME PrefixAssumption ==
  \A i \in Input : /\ Prefix[i][0] = 0
                   /\ \A t \in Tile : Prefix[i][t + 1] = Prefix[i][t] + TileSum[i][t]

VARIABLES
  input,      \* the input of the current launch
  counter,    \* *tile_counter
  status,     \* [Tile -> {"X", "A", "P"}]
  aggregate,  \* [Tile -> Int]: sum of a tile, meant to be read under A
  inclusive,  \* [Tile -> Int]: sum of all tiles up to one, meant to be read under P
  pc,         \* [Block -> where its warp 0 is]
  tile,       \* [Block -> the tile it claimed]
  pred,       \* [Block -> the predecessor lane 0 looks at]
  seen,       \* [Block -> [Lane -> the status the lane has loaded]]
  lane,       \* [Block -> the next lane whose value is added]
  sum,        \* [Block -> the prefix accumulated so far, in the end block_prefix]
  unflushed   \* [Block -> value stores not yet visible to the other blocks]

memory == <<counter, status, aggregate, inclusive>>
locals == <<pc, tile, pred, seen, lane, sum, unflushed>>
vars   == <<input, memory, locals>>

-----------------------------------------------------------------------------

Unread == [l \in Lane |-> "X"]

\* A block that is on the GPU: it has started and not finished, and nothing
\* preempts it.
Running == {b \in Block : pc[b] \notin {"idle", "done"}}

AllDone == \A b \in Block : pc[b] = "done"

Goto(b, label) == pc' = [pc EXCEPT ![b] = label]

\* A plain store: other blocks see it later, when it is flushed.
Store(b, array, value) ==
  unflushed' = [unflushed EXCEPT ![b] = @ \union {[array |-> array, value |-> value]}]

Init ==
  /\ input \in Input
  /\ counter   = 0
  /\ status    = [t \in Tile |-> "X"]
  /\ aggregate = [t \in Tile |-> Garbage]
  /\ inclusive = [t \in Tile |-> Garbage]
  /\ pc        = [b \in Block |-> "idle"]
  /\ tile      = [b \in Block |-> 0]
  /\ pred      = [b \in Block |-> 0]
  /\ seen      = [b \in Block |-> Unread]
  /\ lane      = [b \in Block |-> 0]
  /\ sum       = [b \in Block |-> 0]
  /\ unflushed = [b \in Block |-> {}]

\* Mutant: a launch without lookback_init's loop over the statuses.
LaunchKeepsStatus ==
  /\ AllDone
  /\ input' \in Input
  /\ counter'   = 0
  /\ pc'        = [b \in Block |-> "idle"]
  /\ tile'      = [b \in Block |-> 0]
  /\ pred'      = [b \in Block |-> 0]
  /\ seen'      = [b \in Block |-> Unread]
  /\ lane'      = [b \in Block |-> 0]
  /\ sum'       = [b \in Block |-> 0]
  /\ unflushed' = [b \in Block |-> {}]
  /\ UNCHANGED <<status, aggregate, inclusive>>

\* The next scan.  The stream runs lookback_init when the last scan has ended and
\* before this one: it resets the counter and the statuses, never the values.
Launch ==
  /\ AllDone
  /\ input' \in Input
  /\ counter'   = 0
  /\ status'    = [t \in Tile |-> "X"]
  /\ pc'        = [b \in Block |-> "idle"]
  /\ tile'      = [b \in Block |-> 0]
  /\ pred'      = [b \in Block |-> 0]
  /\ seen'      = [b \in Block |-> Unread]
  /\ lane'      = [b \in Block |-> 0]
  /\ sum'       = [b \in Block |-> 0]
  /\ unflushed' = [b \in Block |-> {}]
  /\ UNCHANGED <<aggregate, inclusive>>

\* The GPU starts any block of the grid when it has room for one.
StartBlock(b) ==
  /\ pc[b] = "idle"
  /\ Cardinality(Running) < Resident
  /\ Goto(b, "claim")
  /\ UNCHANGED <<input, memory, tile, pred, seen, lane, sum, unflushed>>

\* Mutant: tile = blockIdx.x.  The GPU starts blocks in an order of its own, so the
\* block that starts now may have any index that is left.
ClaimByBlockIndex(b) ==
  /\ pc[b] = "claim"
  /\ \E t \in Tile \ {tile[c] : c \in {d \in Block : pc[d] \notin {"idle", "claim"}}} :
       tile' = [tile EXCEPT ![b] = t]
  /\ counter' = counter + 1
  /\ Goto(b, "total")
  /\ UNCHANGED <<input, status, aggregate, inclusive, pred, seen, lane, sum, unflushed>>

\* atomicAdd on the tile counter.
Claim(b) ==
  /\ pc[b] = "claim"
  /\ tile' = [tile EXCEPT ![b] = counter]
  /\ counter' = counter + 1
  /\ Goto(b, "total")
  /\ UNCHANGED <<input, status, aggregate, inclusive, pred, seen, lane, sum, unflushed>>

\* The tile is scanned and its total stored: for tile 0 that is a prefix already.
StoreTotal(b) ==
  /\ pc[b] = "total"
  /\ Store(b, IF tile[b] = 0 THEN "inclusive" ELSE "aggregate", TileSum[input][tile[b]])
  /\ Goto(b, "publish")
  /\ UNCHANGED <<input, memory, tile, pred, seen, lane, sum>>

\* A store of the block reaches L2, at any time.
Flush(b) ==
  \E w \in unflushed[b] :
    /\ unflushed' = [unflushed EXCEPT ![b] = @ \ {w}]
    /\ IF w.array = "aggregate"
       THEN aggregate' = [aggregate EXCEPT ![tile[b]] = w.value] /\ UNCHANGED inclusive
       ELSE inclusive' = [inclusive EXCEPT ![tile[b]] = w.value] /\ UNCHANGED aggregate
    /\ UNCHANGED <<input, counter, status, pc, tile, pred, seen, lane, sum>>

\* Mutant: a plain store of the status, which may overtake the value.
StoreReleaseRelaxed(b, st) == status' = [status EXCEPT ![tile[b]] = st]

\* lb_store_release: the status becomes visible after the stores before it.
StoreRelease(b, st) ==
  /\ unflushed[b] = {}
  /\ status' = [status EXCEPT ![tile[b]] = st]

\* Tile 0 is finished when its total is published, every other tile looks back.
PublishTotal(b) ==
  /\ pc[b] = "publish"
  /\ IF tile[b] = 0
     THEN StoreRelease(b, "P") /\ Goto(b, "done") /\ UNCHANGED pred
     ELSE StoreRelease(b, "A") /\ Goto(b, "look") /\ pred' = [pred EXCEPT ![b] = tile[b] - 1]
  /\ UNCHANGED <<input, counter, aggregate, inclusive, tile, seen, lane, sum, unflushed>>

\* One lane loads the status of its predecessor, again and again until it is not
\* X.  Before tile 0 there is an empty prefix.
Look(b, l) ==
  /\ pc[b] = "look"
  /\ seen[b][l] = "X"
  /\ seen' = [seen EXCEPT ![b][l] = IF pred[b] < l THEN "P" ELSE status[pred[b] - l]]
  /\ UNCHANGED <<input, memory, pc, tile, pred, lane, sum, unflushed>>

\* __any_sync: no lane goes on before all have a status.
EndSpin(b) ==
  /\ pc[b] = "look"
  /\ \A l \in Lane : seen[b][l] # "X"
  /\ Goto(b, "sum")
  /\ UNCHANGED <<input, memory, tile, pred, seen, lane, sum, unflushed>>

\* What lane l of block b reads under the status it has seen.
Value(b, l) ==
  IF pred[b] < l THEN 0
  ELSE IF seen[b][l] = "P" THEN inclusive[pred[b] - l] ELSE aggregate[pred[b] - l]

\* The lanes up to the nearest P are added, nearest first; with no P all are, and
\* the window moves back.  The reads of the lanes are separate steps.
Add(b) ==
  LET l == lane[b]
  IN  /\ pc[b] = "sum"
      /\ sum' = [sum EXCEPT ![b] = @ + Value(b, l)]
      /\ IF seen[b][l] = "P"
         THEN Goto(b, "store") /\ UNCHANGED <<pred, seen, lane>>
         ELSE IF l = Window - 1
         THEN /\ Goto(b, "look")
              /\ pred' = [pred EXCEPT ![b] = @ - Window]
              /\ seen' = [seen EXCEPT ![b] = Unread]
              /\ lane' = [lane EXCEPT ![b] = 0]
         ELSE lane' = [lane EXCEPT ![b] = l + 1] /\ UNCHANGED <<pc, pred, seen>>
      /\ UNCHANGED <<input, memory, tile, unflushed>>

\* Mutant: one value array for both statuses.
StorePrefixShared(b) ==
  /\ pc[b] = "store"
  /\ Store(b, "aggregate", sum[b] + TileSum[input][tile[b]])
  /\ Goto(b, "close")
  /\ UNCHANGED <<input, memory, tile, pred, seen, lane, sum>>

\* The prefix of everything up to this tile is stored in its own array.
StorePrefix(b) ==
  /\ pc[b] = "store"
  /\ Store(b, "inclusive", sum[b] + TileSum[input][tile[b]])
  /\ Goto(b, "close")
  /\ UNCHANGED <<input, memory, tile, pred, seen, lane, sum>>

\* The tile's prefix is published; the block writes its output and ends.
PublishPrefix(b) ==
  /\ pc[b] = "close"
  /\ StoreRelease(b, "P")
  /\ Goto(b, "done")
  /\ UNCHANGED <<input, counter, aggregate, inclusive, tile, pred, seen, lane, sum, unflushed>>

Step(b) ==
  \/ Claim(b) \/ StoreTotal(b) \/ Flush(b) \/ PublishTotal(b)
  \/ (\E l \in Lane : Look(b, l)) \/ EndSpin(b) \/ Add(b)
  \/ StorePrefix(b) \/ PublishPrefix(b)

Next == Launch \/ \E b \in Block : StartBlock(b) \/ Step(b)

\* A block that is running makes progress, each lane of it too, and a free slot
\* is given to some waiting block, nobody knows which.
Fairness ==
  /\ \A b \in Block : /\ WF_vars(Step(b))
                      /\ \A l \in Lane : WF_vars(Look(b, l))
  /\ WF_vars(\E b \in Block : StartBlock(b))

Spec     == Init /\ [][Next]_vars
FairSpec == Spec /\ Fairness

-----------------------------------------------------------------------------
(***************************************************************************)
(* Properties.                                                             *)
(***************************************************************************)

Label == {"idle", "claim", "total", "publish", "look", "sum", "store", "close", "done"}

\* Every variable keeps its shape; the walk never leaves the array.
TypeOK ==
  /\ input \in Input
  /\ counter \in 0..NumTiles
  /\ status \in [Tile -> {"X", "A", "P"}]
  /\ aggregate \in [Tile -> Int]
  /\ inclusive \in [Tile -> Int]
  /\ pc \in [Block -> Label]
  /\ tile \in [Block -> Tile]
  /\ pred \in [Block -> Tile]
  /\ seen \in [Block -> [Lane -> {"X", "A", "P"}]]
  /\ lane \in [Block -> Lane]
  /\ sum \in [Block -> Int]
  /\ unflushed \in [Block -> SUBSET [array : {"aggregate", "inclusive"}, value : Int]]

\* A tile's status is a promise about the values visible to every block: under A
\* the tile's own sum can be read, under P the sum of everything up to it, and P
\* takes nothing back from those who have seen A.
StatusHolds ==
  \A t \in Tile :
    /\ status[t] # "X" /\ t > 0 => aggregate[t] = TileSum[input][t]
    /\ status[t] = "P" => inclusive[t] = Prefix[input][t + 1]

\* A lane reads the value some time after the status, when the owner of the tile
\* has moved on; what it then reads is still what the status it saw stands for.
SeenHolds ==
  \A b \in Block, l \in Lane :
    pc[b] \in {"look", "sum"} /\ l <= pred[b] =>
      LET t == pred[b] - l
      IN  /\ seen[b][l] = "A" => t > 0 /\ aggregate[t] = TileSum[input][t]
          /\ seen[b][l] = "P" => inclusive[t] = Prefix[input][t + 1]

\* Nobody waits for a block that may never run: a status that a running block
\* waits for is that of a tile whose block has started.  With it, a block needs
\* no slot but its own to finish, however few slots there are.
WaitsOnStarted ==
  \A b \in Block, l \in Lane :
    pc[b] = "look" /\ l <= pred[b] /\ status[pred[b] - l] = "X" =>
      \E c \in Running : pc[c] # "claim" /\ tile[c] = pred[b] - l

\* Blocks beyond the claim.
Claimed == {b \in Block : pc[b] \notin {"idle", "claim"}}

\* The scan is right: blocks have different tiles, and the prefix a block adds to
\* its elements is the sum of all tiles before its own.
ScanCorrect ==
  /\ \A b, c \in Claimed : tile[b] = tile[c] => b = c
  /\ \A b \in Block : pc[b] = "done" => sum[b] = Prefix[input][tile[b]]

\* Every launch ends, in whatever order and however few at a time the GPU runs
\* its blocks.
EveryScanEnds == []<>AllDone

-----------------------------------------------------------------------------
(***************************************************************************)
(* The inductive invariant of the proofs.                                  *)
(***************************************************************************)

\* The claimed tiles are those below the counter, which counts the claims; they
\* differ, and every one of them has the status its block has published.
TilesClaimed ==
  /\ \A b, c \in Claimed : tile[b] = tile[c] => b = c
  /\ \A b \in Claimed : tile[b] < counter
  /\ \A t \in Tile : t < counter => \E b \in Claimed : tile[b] = t
  /\ counter = Cardinality(Claimed)
  /\ \A t \in Tile : t >= counter => status[t] = "X"
  /\ \A b \in Claimed :
       status[tile[b]] = IF pc[b] \in {"total", "publish"} THEN "X"
                         ELSE IF pc[b] = "done" THEN "P" ELSE "A"

\* What block b holds back: the one value its next status stands for.
StoreRight(b) ==
  /\ pc[b] \notin {"publish", "close"} => unflushed[b] = {}
  /\ \A w \in unflushed[b] :
       IF pc[b] = "publish" /\ tile[b] > 0
       THEN w = [array |-> "aggregate", value |-> TileSum[input][tile[b]]]
       ELSE w = [array |-> "inclusive", value |-> Prefix[input][tile[b] + 1]]
  /\ unflushed[b] = {} /\ pc[b] = "publish" =>
       IF tile[b] = 0 THEN inclusive[0] = Prefix[input][1]
       ELSE aggregate[tile[b]] = TileSum[input][tile[b]]
  /\ unflushed[b] = {} /\ pc[b] = "close" => inclusive[tile[b]] = Prefix[input][tile[b] + 1]

\* What the lanes of block b have seen is still promised, A only of tiles after 0.
LanesRight(b) ==
  \A l \in Lane :
    /\ seen[b][l] = "A" => l < pred[b] /\ status[pred[b] - l] # "X"
    /\ seen[b][l] = "P" /\ l <= pred[b] => status[pred[b] - l] = "P"

\* How far the walk of block b has come: what is added and what is left make up
\* the prefix.
WalkRight(b) ==
  /\ pc[b] \in {"idle", "claim", "total", "publish", "look"} => lane[b] = 0
  /\ pc[b] \in {"idle", "claim", "total", "publish"} => seen[b] = Unread /\ sum[b] = 0
  /\ pc[b] \in {"look", "sum", "store", "close"} => tile[b] > 0
  /\ pc[b] \in {"look", "sum"} =>
       /\ pred[b] < tile[b]
       /\ lane[b] <= pred[b] + 1
       /\ sum[b] + Prefix[input][pred[b] - lane[b] + 1] = Prefix[input][tile[b]]
       /\ LanesRight(b)
  /\ pc[b] = "sum" => \A l \in Lane : seen[b][l] # "X"
  /\ pc[b] \in {"store", "close", "done"} => sum[b] = Prefix[input][tile[b]]

IInv ==
  /\ TypeOK
  /\ StatusHolds
  /\ TilesClaimed
  /\ \A b \in Block : StoreRight(b) /\ WalkRight(b)

=============================================================================
