----------------------------- MODULE GpuProofs ------------------------------
(***************************************************************************)
(* The single-pass scan is correct for every number of tiles, every warp   *)
(* width, every number of blocks the GPU runs at a time and every order it *)
(* starts them in, whatever the memory held before; the chunked pipeline   *)
(* keeps its passes, chunks, streams and cards apart, for every number of  *)
(* chunks, of buffers and of passes, every size of blocks and whatever     *)
(* interleaving of the streams the events allow; the warp of the slippage  *)
(* kernel prices every order as a walk level by level does, for a warp of  *)
(* any size and every book of up to twice as many levels.                  *)
(***************************************************************************)
EXTENDS Lookback, Pipeline, Slippage, ListLemmas, FiniteSetTheorems

(* Lookback.                                                               *)

\* The invariant holds when the first launch starts.
LEMMA InitIInv == Init => IInv
<1> SUFFICES ASSUME Init PROVE IInv
  OBVIOUS
<1>0. /\ 0 \in Tile /\ 0 \in Lane /\ NumTiles \in Nat
  BY SizeAssumption DEF Tile, Lane
<1>1. TypeOK
  BY <1>0, InputAssumption DEF Init, TypeOK, Unread, Label
<1>2. StatusHolds
  BY DEF Init, StatusHolds
<1>3. TilesClaimed
  <2>1. Claimed = {}
    BY DEF Init, Claimed
  <2>2. Cardinality(Claimed) = 0
    BY <2>1, FS_EmptySet
  <2>3. QED
    BY <2>1, <2>2 DEF Init, TilesClaimed, Tile
<1>4. \A b \in Block : StoreRight(b) /\ WalkRight(b)
  BY DEF Init, StoreRight, WalkRight
<1>5. QED
  BY <1>1, <1>2, <1>3, <1>4 DEF IInv

\* The next launch starts from fresh statuses and stale values.
LEMMA LaunchIInv ==
  ASSUME IInv, Launch
  PROVE  IInv'
<1>0. /\ 0 \in Tile /\ 0 \in Lane /\ NumTiles \in Nat
  BY SizeAssumption DEF Tile, Lane
<1>1. TypeOK'
  BY <1>0 DEF Launch, IInv, TypeOK, Unread, Label
<1>2. StatusHolds'
  BY DEF Launch, StatusHolds
<1>3. TilesClaimed'
  <2>1. Claimed' = {}
    BY DEF Launch, Claimed
  <2>2. Cardinality(Claimed') = 0
    BY <2>1, FS_EmptySet
  <2>3. QED
    BY <2>1, <2>2 DEF Launch, TilesClaimed, Tile
<1>4. \A b \in Block : StoreRight(b)' /\ WalkRight(b)'
  BY DEF Launch, StoreRight, WalkRight
<1>5. QED
  BY <1>1, <1>2, <1>3, <1>4 DEF IInv

\* The steps of other blocks leave the walk of a block right: statuses only advance.
LEMMA WalkKept ==
  ASSUME IInv, NEW c \in Block, input' = input,
         pc'[c] = pc[c], tile'[c] = tile[c], pred'[c] = pred[c],
         seen'[c] = seen[c], lane'[c] = lane[c], sum'[c] = sum[c],
         \A t \in Tile : /\ status[t] # "X" => status'[t] # "X"
                         /\ status[t] = "P" => status'[t] = "P"
  PROVE  WalkRight(c)'
<1>1. pred[c] \in Tile /\ WalkRight(c)
  BY DEF IInv, TypeOK
<1>2. \A l \in Lane : l <= pred[c] => pred[c] - l \in Tile
  BY <1>1, SizeAssumption DEF Tile, Lane
<1>3. \A l \in Lane : l < pred[c] => l <= pred[c]
  BY <1>1, SizeAssumption DEF Tile, Lane
<1>4. LanesRight(c) => LanesRight(c)'
  BY <1>2, <1>3 DEF LanesRight
<1>5. QED
  BY <1>1, <1>4 DEF WalkRight

\* They leave its stores right: nobody else writes the values of its tile.
LEMMA StoreKept ==
  ASSUME IInv, NEW c \in Block, input' = input,
         pc'[c] = pc[c], tile'[c] = tile[c], unflushed'[c] = unflushed[c],
         pc[c] \in {"publish", "close"} => /\ aggregate'[tile[c]] = aggregate[tile[c]]
                                           /\ inclusive'[tile[c]] = inclusive[tile[c]]
  PROVE  StoreRight(c)'
<1>1. StoreRight(c)
  BY DEF IInv
<1>2. QED
  BY <1>1 DEF StoreRight

\* A block that starts has claimed nothing.
LEMMA StartBlockIInv ==
  ASSUME IInv, NEW b \in Block, StartBlock(b)
  PROVE  IInv'
<1>1. /\ pc[b] = "idle" /\ pc' = [pc EXCEPT ![b] = "claim"]
      /\ UNCHANGED <<input, counter, status, aggregate, inclusive, tile, pred, seen, lane, sum, unflushed>>
  BY DEF StartBlock, Goto, memory
<1>2. pc \in [Block -> Label]
  BY DEF IInv, TypeOK
<1>3. TypeOK' /\ StatusHolds'
  BY <1>1, <1>2 DEF IInv, TypeOK, StatusHolds, Label
<1>4. Claimed' = Claimed
  BY <1>1, <1>2 DEF Claimed
<1>5. TilesClaimed'
  BY <1>1, <1>2, <1>4 DEF IInv, TilesClaimed, Claimed
<1>6. \A c \in Block : c # b => StoreRight(c)' /\ WalkRight(c)'
  BY <1>1, <1>2, StoreKept, WalkKept
<1>7. StoreRight(b)' /\ WalkRight(b)'
  BY <1>1, <1>2 DEF IInv, StoreRight, WalkRight
<1>8. QED
  BY <1>3, <1>5, <1>6, <1>7 DEF IInv

\* The counter is below the number of tiles while a block is about to claim one.
LEMMA CounterBound ==
  ASSUME IInv, NEW b \in Block, b \notin Claimed
  PROVE  /\ counter \in Tile
         /\ Cardinality(Claimed \union {b}) = counter + 1
<1>1. IsFiniteSet(Claimed) /\ Claimed \subseteq Block \ {b} /\ IsFiniteSet(Block \ {b})
  BY BlockAssumption, FS_Subset DEF Claimed
<1>2. Cardinality(Block \ {b}) = NumTiles - 1
  BY BlockAssumption, FS_RemoveElement
<1>3. Cardinality(Claimed) <= Cardinality(Block \ {b})
  BY <1>1, FS_Subset
<1>4. Cardinality(Claimed \union {b}) = Cardinality(Claimed) + 1
  BY <1>1, FS_AddElement
<1>5. counter = Cardinality(Claimed) /\ counter \in Nat
  BY SizeAssumption DEF IInv, TypeOK, TilesClaimed
<1>6. QED
  BY <1>2, <1>3, <1>4, <1>5, SizeAssumption DEF Tile

\* Claims take the tiles in order, so the one taken is nobody else's.
LEMMA ClaimIInv ==
  ASSUME IInv, NEW b \in Block, Claim(b)
  PROVE  IInv'
<1>1. /\ pc[b] = "claim" /\ pc' = [pc EXCEPT ![b] = "total"]
      /\ tile' = [tile EXCEPT ![b] = counter] /\ counter' = counter + 1
      /\ UNCHANGED <<input, status, aggregate, inclusive, pred, seen, lane, sum, unflushed>>
  BY DEF Claim, Goto
<1>2. pc \in [Block -> Label] /\ tile \in [Block -> Tile]
  BY DEF IInv, TypeOK
<1>3. b \notin Claimed /\ Claimed' = Claimed \union {b}
  BY <1>1, <1>2 DEF Claimed
<1>4. counter \in Tile /\ Cardinality(Claimed') = counter + 1
  BY <1>3, CounterBound
<1>5. TypeOK' /\ StatusHolds'
  BY <1>1, <1>2, <1>4, SizeAssumption DEF IInv, TypeOK, StatusHolds, Label, Tile
<1>6. TilesClaimed'
  <2>1. \A c \in Claimed : c # b /\ tile'[c] = tile[c] /\ pc'[c] = pc[c] /\ tile[c] < counter
    BY <1>1, <1>2, <1>3 DEF IInv, TilesClaimed, Claimed
  <2>2. tile'[b] = counter /\ pc'[b] = "total" /\ status[counter] = "X"
    BY <1>1, <1>2, <1>4 DEF IInv, TilesClaimed, Tile
  <2>3. \A t \in Tile : t < counter + 1 => t < counter \/ t = counter
    BY <1>4 DEF Tile
  <2>4. counter \in Nat /\ \A c \in Claimed : tile[c] \in Nat
    BY <1>2, <1>4 DEF Tile, Claimed
  <2>5. \A c, d \in Claimed' : tile'[c] = tile'[d] => c = d
    BY <1>3, <2>1, <2>2, <2>4 DEF IInv, TilesClaimed
  <2>6. \A c \in Claimed' : tile'[c] < counter'
    BY <1>1, <1>3, <2>1, <2>2, <2>4
  <2>7. \A t \in Tile : t < counter' => \E c \in Claimed' : tile'[c] = t
    BY <1>1, <1>3, <2>1, <2>2, <2>3 DEF IInv, TilesClaimed
  <2>8. \A t \in Tile : t >= counter' => status'[t] = "X"
    BY <1>1, <2>4 DEF IInv, TilesClaimed, Tile
  <2>9. \A c \in Claimed' : status'[tile'[c]] =
          IF pc'[c] \in {"total", "publish"} THEN "X" ELSE IF pc'[c] = "done" THEN "P" ELSE "A"
    BY <1>1, <1>3, <2>1, <2>2 DEF IInv, TilesClaimed
  <2>10. QED
    BY <1>1, <1>4, <2>5, <2>6, <2>7, <2>8, <2>9 DEF TilesClaimed
<1>7. \A c \in Block : c # b => StoreRight(c)' /\ WalkRight(c)'
  BY <1>1, <1>2, StoreKept, WalkKept
<1>8. StoreRight(b)' /\ WalkRight(b)'
  BY <1>1, <1>2 DEF IInv, StoreRight, WalkRight
<1>9. QED
  BY <1>5, <1>6, <1>7, <1>8 DEF IInv

\* Prefixes are integers that grow by a tile at a time.
LEMMA PrefixStep ==
  ASSUME TypeOK, NEW t \in Tile
  PROVE  /\ TileSum[input][t] \in Int /\ Prefix[input][t] \in Int /\ Prefix[input][t + 1] \in Int
         /\ Prefix[input][0] = 0
         /\ Prefix[input][t + 1] = Prefix[input][t] + TileSum[input][t]
<1>1. t \in 0..NumTiles /\ t + 1 \in 0..NumTiles
  BY SizeAssumption DEF Tile
<1>2. QED
  BY <1>1, InputAssumption, PrefixAssumption DEF TypeOK

\* The steps that change neither the claimed tiles nor any status.
LEMMA SameTiles ==
  ASSUME IInv, NEW b \in Block, NEW label \in Label, pc' = [pc EXCEPT ![b] = label],
         pc[b] \in {"total", "publish"} <=> label \in {"total", "publish"},
         pc[b] # "done" /\ label # "done", b \in Claimed, label \notin {"idle", "claim"},
         UNCHANGED <<counter, status, tile>>
  PROVE  TilesClaimed'
<1>1. pc \in [Block -> Label]
  BY DEF IInv, TypeOK
<1>2. Claimed' = Claimed
  BY <1>1 DEF Claimed
<1>3. QED
  BY <1>1, <1>2 DEF IInv, TilesClaimed, Claimed

\* The total is stored; nothing is visible yet.
LEMMA StoreTotalIInv ==
  ASSUME IInv, NEW b \in Block, StoreTotal(b)
  PROVE  IInv'
<1> DEFINE w == [array |-> IF tile[b] = 0 THEN "inclusive" ELSE "aggregate",
                 value |-> TileSum[input][tile[b]]]
<1>1. /\ pc[b] = "total" /\ pc' = [pc EXCEPT ![b] = "publish"]
      /\ unflushed' = [unflushed EXCEPT ![b] = unflushed[b] \union {w}]
      /\ UNCHANGED <<input, counter, status, aggregate, inclusive, tile, pred, seen, lane, sum>>
  BY DEF StoreTotal, Store, Goto, memory
<1>2. pc \in [Block -> Label] /\ tile[b] \in Tile
  BY DEF IInv, TypeOK
<1>3. /\ w \in [array : {"aggregate", "inclusive"}, value : Int]
      /\ tile[b] = 0 => w = [array |-> "inclusive", value |-> Prefix[input][tile[b] + 1]]
      /\ tile[b] # 0 => w = [array |-> "aggregate", value |-> TileSum[input][tile[b]]]
  BY <1>2, PrefixStep DEF IInv
<1> HIDE DEF w
<1>4. unflushed'[b] = {w} /\ \A c \in Block \ {b} : unflushed'[c] = unflushed[c]
  BY <1>1 DEF IInv, TypeOK, StoreRight
<1>5. TypeOK' /\ StatusHolds'
  BY <1>1, <1>2, <1>3 DEF IInv, TypeOK, StatusHolds, Label
<1>6. TilesClaimed'
  BY <1>1, SameTiles DEF Label, Claimed
<1>7. \A c \in Block : c # b => StoreRight(c)' /\ WalkRight(c)'
  BY <1>1, <1>2, <1>4, StoreKept, WalkKept
<1>8. StoreRight(b)' /\ WalkRight(b)'
  <2>1. StoreRight(b)'
    <3>1. /\ pc'[b] = "publish" /\ tile'[b] = tile[b] /\ input' = input
          /\ tile[b] > 0 <=> tile[b] # 0
          /\ unflushed'[b] # {} /\ \A x \in unflushed'[b] : x = w
      BY <1>1, <1>2, <1>4 DEF Tile
    <3>2. QED
      BY <1>3, <3>1 DEF StoreRight
  <2>2. WalkRight(b)'
    BY <1>1, <1>2 DEF IInv, WalkRight
  <2>3. QED
    BY <2>1, <2>2
<1>9. QED
  BY <1>5, <1>6, <1>7, <1>8 DEF IInv

\* The block of a tile that has promised nothing stores into it: no promise is broken.
LEMMA FlushIInv ==
  ASSUME IInv, NEW b \in Block, Flush(b)
  PROVE  IInv'
<1>1. PICK w \in unflushed[b] :
        /\ unflushed' = [unflushed EXCEPT ![b] = unflushed[b] \ {w}]
        /\ IF w.array = "aggregate"
           THEN aggregate' = [aggregate EXCEPT ![tile[b]] = w.value] /\ UNCHANGED inclusive
           ELSE inclusive' = [inclusive EXCEPT ![tile[b]] = w.value] /\ UNCHANGED aggregate
        /\ UNCHANGED <<input, counter, status, pc, tile, pred, seen, lane, sum>>
  BY DEF Flush
<1>2. /\ pc[b] \in {"publish", "close"} /\ tile[b] \in Tile /\ b \in Claimed
      /\ w.value \in Int /\ w.array \in {"aggregate", "inclusive"}
  BY <1>1 DEF IInv, TypeOK, StoreRight, Claimed
<1>3. IF pc[b] = "publish" /\ tile[b] > 0
      THEN w.array = "aggregate" /\ w.value = TileSum[input][tile[b]]
      ELSE w.array = "inclusive" /\ w.value = Prefix[input][tile[b] + 1]
  BY <1>1 DEF IInv, StoreRight
<1>4. unflushed'[b] = {}
  <2>1. \A x \in unflushed[b] : x = w
    BY <1>1 DEF IInv, StoreRight
  <2>2. QED
    BY <1>1, <2>1 DEF IInv, TypeOK
<1>5. \A c \in Block \ {b} : /\ unflushed'[c] = unflushed[c]
                             /\ c \in Claimed => tile[c] # tile[b]
  BY <1>1, <1>2 DEF IInv, TypeOK, TilesClaimed
<1>6. status[tile[b]] = IF pc[b] = "publish" THEN "X" ELSE "A"
  BY <1>2 DEF IInv, TilesClaimed
<1>7. /\ aggregate'[tile[b]] = IF w.array = "aggregate" THEN w.value ELSE aggregate[tile[b]]
      /\ inclusive'[tile[b]] = IF w.array = "inclusive" THEN w.value ELSE inclusive[tile[b]]
      /\ \A t \in Tile \ {tile[b]} : aggregate'[t] = aggregate[t] /\ inclusive'[t] = inclusive[t]
      /\ aggregate' \in [Tile -> Int] /\ inclusive' \in [Tile -> Int]
  BY <1>1, <1>2 DEF IInv, TypeOK
<1>8. TypeOK'
  BY <1>1, <1>7 DEF IInv, TypeOK
<1>9. StatusHolds'
  <2> SUFFICES ASSUME NEW t \in Tile
               PROVE  /\ status'[t] # "X" /\ t > 0 => aggregate'[t] = TileSum[input'][t]
                      /\ status'[t] = "P" => inclusive'[t] = Prefix[input'][t + 1]
    BY DEF StatusHolds
  <2>1. CASE t # tile[b]
    BY <1>1, <1>7, <2>1 DEF IInv, StatusHolds
  <2>2. CASE t = tile[b]
    BY <1>1, <1>2, <1>3, <1>6, <1>7, <2>2 DEF IInv, StatusHolds
  <2>3. QED
    BY <2>1, <2>2
<1>10. TilesClaimed'
  BY <1>1 DEF IInv, TilesClaimed, Claimed
<1>11. ASSUME NEW c \in Block, c # b
       PROVE  StoreRight(c)' /\ WalkRight(c)'
  <2>1. tile[c] \in Tile
    BY DEF IInv, TypeOK
  <2>2. pc[c] \in {"publish", "close"} => c \in Claimed
    BY DEF Claimed
  <2>3. pc[c] \in {"publish", "close"} => tile[c] # tile[b]
    BY <1>5, <1>11, <2>2
  <2>4. StoreRight(c)'
    BY <1>1, <1>5, <1>7, <1>11, <2>1, <2>3, StoreKept
  <2>5. QED
    BY <1>1, <2>4, WalkKept
<1>12. StoreRight(b)' /\ WalkRight(b)'
  <2>1. StoreRight(b)'
    BY <1>1, <1>2, <1>3, <1>4, <1>7 DEF StoreRight, Tile
  <2>2. WalkRight(b)'
    BY <1>1, WalkKept
  <2>3. QED
    BY <2>1, <2>2
<1>13. QED
  BY <1>8, <1>9, <1>10, <1>11, <1>12 DEF IInv

\* Publishing a status: the values it stands for have been flushed.
LEMMA Published ==
  ASSUME IInv, NEW b \in Block, NEW st \in {"A", "P"}, NEW label \in {"look", "done"},
         pc[b] \in {"publish", "close"}, label = "done" <=> st = "P",
         StoreRelease(b, st), pc' = [pc EXCEPT ![b] = label],
         UNCHANGED <<input, counter, aggregate, inclusive, tile, unflushed>>,
         st = "P" => inclusive[tile[b]] = Prefix[input][tile[b] + 1],
         tile[b] > 0 => aggregate[tile[b]] = TileSum[input][tile[b]]
  PROVE  /\ StatusHolds' /\ TilesClaimed' /\ \A c \in Block : StoreRight(c)'
         /\ status' \in [Tile -> {"X", "A", "P"}] /\ pc' \in [Block -> Label]
         /\ status'[tile[b]] = st
         /\ \A t \in Tile : /\ status[t] # "X" => status'[t] # "X"
                            /\ status[t] = "P" => status'[t] = "P"
<1>1. /\ unflushed[b] = {} /\ status' = [status EXCEPT ![tile[b]] = st]
      /\ pc \in [Block -> Label] /\ tile \in [Block -> Tile] /\ status \in [Tile -> {"X", "A", "P"}]
  BY DEF StoreRelease, IInv, TypeOK
<1>2. b \in Claimed /\ Claimed' = Claimed
  BY <1>1 DEF Claimed
<1>3. \A c \in Claimed : c # b => tile[c] # tile[b] /\ pc'[c] = pc[c]
  BY <1>1, <1>2 DEF IInv, TilesClaimed, Claimed
<1>4. status[tile[b]] # "P"
  BY <1>2 DEF IInv, TilesClaimed
<1>5. StatusHolds'
  BY <1>1 DEF IInv, StatusHolds
<1>6. TilesClaimed'
  <2>1. \A c \in Claimed' : status'[tile'[c]] =
          IF pc'[c] \in {"total", "publish"} THEN "X" ELSE IF pc'[c] = "done" THEN "P" ELSE "A"
    <3> SUFFICES ASSUME NEW c \in Claimed
                 PROVE  status'[tile[c]] =
          IF pc'[c] \in {"total", "publish"} THEN "X" ELSE IF pc'[c] = "done" THEN "P" ELSE "A"
      BY <1>2
    <3>1. c \in Block /\ tile[c] \in Tile
      BY <1>1 DEF Claimed
    <3>2. CASE c = b
      BY <1>1, <3>1, <3>2
    <3>3. CASE c # b
      BY <1>1, <1>3, <3>1, <3>3 DEF IInv, TilesClaimed
    <3>4. QED
      BY <3>2, <3>3
  <2>2. \A t \in Tile : t >= counter => status'[t] = "X"
    <3>1. tile[b] < counter /\ tile[b] \in Nat /\ counter \in Nat
      BY <1>1, <1>2 DEF IInv, TypeOK, TilesClaimed, Tile
    <3>2. QED
      BY <1>1, <3>1 DEF IInv, TilesClaimed, Tile
  <2>3. QED
    BY <1>2, <2>1, <2>2 DEF IInv, TilesClaimed
<1>7. \A c \in Block : StoreRight(c)'
  <2>1. \A c \in Block : c # b => StoreRight(c)'
    BY <1>1, StoreKept
  <2>2. StoreRight(b)'
    BY <1>1 DEF StoreRight
  <2>3. QED
    BY <2>1, <2>2
<1>8. QED
  BY <1>1, <1>4, <1>5, <1>6, <1>7 DEF Label

\* Tile 0 has its prefix, every other tile starts to walk at its neighbour.
LEMMA PublishTotalIInv ==
  ASSUME IInv, NEW b \in Block, PublishTotal(b)
  PROVE  IInv'
<1>0. /\ pc[b] = "publish" /\ tile[b] \in Tile /\ unflushed[b] = {}
      /\ UNCHANGED <<input, counter, aggregate, inclusive, tile, seen, lane, sum, unflushed>>
  BY DEF PublishTotal, StoreRelease, IInv, TypeOK
<1>1. /\ tile[b] = 0 => inclusive[tile[b]] = Prefix[input][tile[b] + 1]
      /\ tile[b] > 0 => aggregate[tile[b]] = TileSum[input][tile[b]]
  BY <1>0 DEF IInv, StoreRight
<1>2. lane[b] = 0 /\ sum[b] = 0 /\ seen[b] = Unread
  BY <1>0 DEF IInv, WalkRight
<1>3. pc \in [Block -> Label] /\ pred \in [Block -> Tile]
  BY DEF IInv, TypeOK
<1>4. CASE tile[b] = 0
  <2>1. StoreRelease(b, "P") /\ pc' = [pc EXCEPT ![b] = "done"] /\ pred' = pred
    BY <1>4 DEF PublishTotal, Goto
  <2>2. /\ StatusHolds' /\ TilesClaimed' /\ \A c \in Block : StoreRight(c)'
        /\ status' \in [Tile -> {"X", "A", "P"}] /\ pc' \in [Block -> Label]
        /\ \A t \in Tile : /\ status[t] # "X" => status'[t] # "X"
                           /\ status[t] = "P" => status'[t] = "P"
    BY <1>0, <1>1, <1>4, <2>1, Published
  <2>3. TypeOK'
    BY <1>0, <2>1, <2>2 DEF IInv, TypeOK
  <2>4. sum[b] = Prefix[input][tile[b]]
    BY <1>0, <1>2, <1>4, PrefixStep DEF IInv
  <2>5. ASSUME NEW c \in Block, c # b
        PROVE  WalkRight(c)'
    <3>1. /\ input' = input /\ pc'[c] = pc[c] /\ tile'[c] = tile[c] /\ pred'[c] = pred[c]
          /\ seen'[c] = seen[c] /\ lane'[c] = lane[c] /\ sum'[c] = sum[c]
      BY <1>0, <1>3, <2>1, <2>5
    <3>2. QED
      BY <2>2, <3>1, WalkKept
  <2>6. WalkRight(b)'
    BY <1>0, <1>3, <2>1, <2>4 DEF WalkRight
  <2>7. QED
    BY <2>2, <2>3, <2>5, <2>6 DEF IInv
<1>5. CASE tile[b] # 0
  <2>1. /\ StoreRelease(b, "A") /\ pc' = [pc EXCEPT ![b] = "look"]
        /\ pred' = [pred EXCEPT ![b] = tile[b] - 1]
    BY <1>5 DEF PublishTotal, Goto
  <2>2. /\ StatusHolds' /\ TilesClaimed' /\ \A c \in Block : StoreRight(c)'
        /\ status' \in [Tile -> {"X", "A", "P"}] /\ pc' \in [Block -> Label]
        /\ \A t \in Tile : /\ status[t] # "X" => status'[t] # "X"
                           /\ status[t] = "P" => status'[t] = "P"
    BY <1>0, <1>1, <1>5, <2>1, Published
  <2>3. tile[b] - 1 \in Tile /\ tile[b] > 0 /\ tile[b] \in Nat
    BY <1>0, <1>5, SizeAssumption DEF Tile
  <2>4. TypeOK'
    BY <1>0, <2>1, <2>2, <2>3 DEF IInv, TypeOK
  <2>5. ASSUME NEW c \in Block, c # b
        PROVE  WalkRight(c)'
    <3>1. /\ input' = input /\ pc'[c] = pc[c] /\ tile'[c] = tile[c] /\ pred'[c] = pred[c]
          /\ seen'[c] = seen[c] /\ lane'[c] = lane[c] /\ sum'[c] = sum[c]
      BY <1>0, <1>3, <2>1, <2>5
    <3>2. QED
      BY <2>2, <3>1, WalkKept
  <2>6. WalkRight(b)'
    <3>1. /\ pc'[b] = "look" /\ pred'[b] = tile[b] - 1 /\ \A l \in Lane : seen[b][l] = "X"
          /\ sum[b] + Prefix[input][pred'[b] - lane[b] + 1] = Prefix[input][tile[b]]
      <4>1. tile[b] - 1 - 0 + 1 = tile[b]
        BY <2>3
      <4>2. Prefix[input][tile[b]] \in Int
        BY <1>0, PrefixStep DEF IInv
      <4>3. QED
        BY <1>2, <1>3, <2>1, <4>1, <4>2 DEF Unread
    <3>2. LanesRight(b)'
      BY <1>0, <3>1 DEF LanesRight
    <3>3. QED
      BY <1>0, <1>2, <2>3, <3>1, <3>2 DEF WalkRight
  <2>7. QED
    BY <2>2, <2>4, <2>5, <2>6 DEF IInv
<1>6. QED
  BY <1>4, <1>5

\* What a lane loads is a promise that stays.
LEMMA LookIInv ==
  ASSUME IInv, NEW b \in Block, NEW l \in Lane, Look(b, l)
  PROVE  IInv'
<1> DEFINE st == IF pred[b] < l THEN "P" ELSE status[pred[b] - l]
<1>1. /\ pc[b] = "look" /\ seen[b][l] = "X" /\ seen' = [seen EXCEPT ![b][l] = st]
      /\ UNCHANGED <<input, counter, status, aggregate, inclusive, pc, tile, pred, lane, sum, unflushed>>
  BY DEF Look, memory
<1>2. /\ seen \in [Block -> [Lane -> {"X", "A", "P"}]] /\ pred[b] \in Tile
      /\ status \in [Tile -> {"X", "A", "P"}]
  BY DEF IInv, TypeOK
<1>3. l <= pred[b] => pred[b] - l \in Tile /\ st = status[pred[b] - l]
  BY <1>2, SizeAssumption DEF Tile, Lane
<1>4. st \in {"X", "A", "P"}
  BY <1>2, <1>3, SizeAssumption DEF Lane, Tile
<1>5. st = "A" => l < pred[b]
  <2>1. status[0] # "A"
    <3>1. CASE 0 < counter
      <4>1. 0 \in Tile
        BY SizeAssumption DEF Tile
      <4>2. PICK c \in Claimed : tile[c] = 0
        BY <3>1, <4>1 DEF IInv, TilesClaimed
      <4>3. pc[c] \notin {"look", "sum", "store", "close"}
        BY <4>2 DEF IInv, WalkRight, Claimed
      <4>4. pc[c] \in {"total", "publish", "done"}
        BY <4>2, <4>3 DEF IInv, TypeOK, Claimed, Label
      <4>5. QED
        BY <4>2, <4>4 DEF IInv, TilesClaimed
    <3>2. CASE ~(0 < counter)
      BY <3>2, SizeAssumption DEF IInv, TypeOK, TilesClaimed, Tile
    <3>3. QED
      BY <3>1, <3>2
  <2>2. st = "A" => l <= pred[b] /\ pred[b] - l # 0
    BY <1>2, <1>3, <2>1, SizeAssumption DEF Lane, Tile
  <2>3. QED
    BY <1>2, <2>2, SizeAssumption DEF Lane, Tile
<1>6. /\ seen'[b][l] = st /\ \A m \in Lane \ {l} : seen'[b][m] = seen[b][m]
      /\ \A c \in Block \ {b} : seen'[c] = seen[c]
      /\ seen' \in [Block -> [Lane -> {"X", "A", "P"}]]
  BY <1>1, <1>2, <1>4
<1> HIDE DEF st
<1>7. TypeOK'
  BY <1>1, <1>6 DEF IInv, TypeOK
<1>8. StatusHolds' /\ TilesClaimed'
  BY <1>1 DEF IInv, StatusHolds, TilesClaimed, Claimed
<1>9. \A c \in Block : StoreRight(c)' /\ (c # b => WalkRight(c)')
  BY <1>1, <1>6, StoreKept, WalkKept
<1>10. WalkRight(b)'
  <2>1. LanesRight(b)'
    <3>1. LanesRight(b)
      BY <1>1 DEF IInv, WalkRight
    <3>2. SUFFICES ASSUME NEW m \in Lane
                   PROVE  /\ seen'[b][m] = "A" => m < pred[b] /\ status[pred[b] - m] # "X"
                          /\ seen'[b][m] = "P" /\ m <= pred[b] => status[pred[b] - m] = "P"
      BY <1>1 DEF LanesRight
    <3>3. CASE m # l
      BY <1>6, <3>1, <3>3 DEF LanesRight
    <3>4. CASE m = l
      <4>1. st = "A" => l <= pred[b]
        BY <1>2, <1>5, SizeAssumption DEF Tile, Lane
      <4>2. QED
        BY <1>3, <1>5, <1>6, <3>4, <4>1
    <3>5. QED
      BY <3>3, <3>4
  <2>2. QED
    BY <1>1, <2>1 DEF IInv, WalkRight
<1>11. QED
  BY <1>7, <1>8, <1>9, <1>10 DEF IInv

\* All lanes have a status.
LEMMA EndSpinIInv ==
  ASSUME IInv, NEW b \in Block, EndSpin(b)
  PROVE  IInv'
<1>1. /\ pc[b] = "look" /\ pc' = [pc EXCEPT ![b] = "sum"] /\ \A l \in Lane : seen[b][l] # "X"
      /\ UNCHANGED <<input, counter, status, aggregate, inclusive, tile, pred, seen, lane, sum, unflushed>>
  BY DEF EndSpin, Goto, memory
<1>2. pc \in [Block -> Label]
  BY DEF IInv, TypeOK
<1>3. TypeOK' /\ StatusHolds'
  BY <1>1, <1>2 DEF IInv, TypeOK, StatusHolds, Label
<1>4. TilesClaimed'
  BY <1>1, SameTiles DEF Label, Claimed
<1>5. \A c \in Block : c # b => StoreRight(c)' /\ WalkRight(c)'
  BY <1>1, <1>2, StoreKept, WalkKept
<1>6. StoreRight(b)' /\ WalkRight(b)'
  BY <1>1, <1>2 DEF IInv, StoreRight, WalkRight, LanesRight
<1>7. QED
  BY <1>3, <1>4, <1>5, <1>6 DEF IInv

\* What the lane being added reads: its tile's total under A, everything up to its
\* tile under P, nothing before tile 0.
LEMMA ValueRight ==
  ASSUME IInv, NEW b \in Block, pc[b] = "sum"
  PROVE  LET l == lane[b]
             p == pred[b] - l
         IN  /\ seen[b][l] \in {"A", "P"} /\ p \in Int /\ p >= -1 /\ p < NumTiles
             /\ seen[b][l] = "A" => p > 0 /\ p \in Tile /\ Value(b, l) = TileSum[input][p]
             /\ seen[b][l] = "P" => Value(b, l) = Prefix[input][p + 1]
<1> DEFINE l == lane[b]
           p == pred[b] - l
<1>1. l \in Lane /\ pred[b] \in Tile /\ seen[b][l] \in {"A", "P"} /\ l <= pred[b] + 1
  BY DEF IInv, TypeOK, WalkRight
<1>2. p \in Int /\ p >= -1 /\ p < NumTiles /\ (pred[b] < l <=> p = -1)
  BY <1>1, SizeAssumption DEF Tile, Lane
<1>3. /\ seen[b][l] = "A" => l < pred[b] /\ status[p] # "X"
      /\ seen[b][l] = "P" /\ l <= pred[b] => status[p] = "P"
  BY <1>1 DEF IInv, WalkRight, LanesRight
<1>4. Prefix[input][0] = 0
  <2>1. 0 \in Tile
    BY SizeAssumption DEF Tile
  <2>2. QED
    BY <2>1, PrefixStep DEF IInv
<1>5. CASE seen[b][l] = "A"
  <2>1. p > 0 /\ p \in Tile /\ ~(pred[b] < l)
    BY <1>1, <1>2, <1>3, <1>5, SizeAssumption DEF Tile, Lane
  <2>2. aggregate[p] = TileSum[input][p]
    BY <1>3, <1>5, <2>1 DEF IInv, StatusHolds
  <2>3. QED
    BY <1>1, <1>2, <1>5, <2>1, <2>2 DEF Value
<1>6. CASE seen[b][l] = "P" /\ p = -1
  <2>1. Value(b, l) = 0
    BY <1>2, <1>6 DEF Value
  <2>2. p + 1 = 0
    BY <1>6
  <2>3. QED
    BY <1>1, <1>2, <1>4, <1>6, <2>1, <2>2
<1>7. CASE seen[b][l] = "P" /\ p # -1
  <2>1. p \in Tile /\ ~(pred[b] < l) /\ l <= pred[b]
    BY <1>1, <1>2, <1>7, SizeAssumption DEF Tile, Lane
  <2>2. inclusive[p] = Prefix[input][p + 1]
    BY <1>3, <1>7, <2>1 DEF IInv, StatusHolds
  <2>3. QED
    BY <1>1, <1>2, <1>7, <2>1, <2>2 DEF Value
<1>8. QED
  BY <1>1, <1>5, <1>6, <1>7

\* The walk advances by what it has added.
LEMMA AddIInv ==
  ASSUME IInv, NEW b \in Block, Add(b)
  PROVE  IInv'
<1> DEFINE l == lane[b]
           p == pred[b] - l
           v == Value(b, l)
<1>1. /\ pc[b] = "sum" /\ sum' = [sum EXCEPT ![b] = sum[b] + v]
      /\ UNCHANGED <<input, counter, status, aggregate, inclusive, tile, unflushed>>
  BY DEF Add, memory
<1>2. /\ seen[b][l] \in {"A", "P"} /\ p \in Int /\ p >= -1 /\ p < NumTiles
      /\ seen[b][l] = "A" => p > 0 /\ p \in Tile /\ v = TileSum[input][p]
      /\ seen[b][l] = "P" => v = Prefix[input][p + 1]
  BY <1>1, ValueRight
<1>3. /\ pc \in [Block -> Label] /\ sum \in [Block -> Int] /\ l \in Lane /\ pred[b] \in Tile
      /\ tile[b] \in Tile /\ lane \in [Block -> Lane] /\ pred \in [Block -> Tile]
      /\ seen \in [Block -> [Lane -> {"X", "A", "P"}]]
  BY DEF IInv, TypeOK
<1>4. WalkRight(b)
  BY DEF IInv
<1>5. p + 1 \in 0..NumTiles /\ Prefix[input][p + 1] \in Int
  <2>1. p + 1 \in 0..NumTiles
    BY <1>2, SizeAssumption
  <2>2. QED
    BY <2>1, InputAssumption DEF IInv, TypeOK
<1>6. sum[b] + Prefix[input][p + 1] = Prefix[input][tile[b]]
  BY <1>1, <1>4 DEF WalkRight
<1>7. v \in Int
  BY <1>2, <1>5, PrefixStep DEF IInv
<1>8. sum' \in [Block -> Int] /\ sum'[b] = sum[b] + v
  BY <1>1, <1>3, <1>7
<1> HIDE DEF v
<1>9. StatusHolds'
  BY <1>1 DEF IInv, StatusHolds
<1>10. CASE seen[b][l] = "P"
  <2>1. pc' = [pc EXCEPT ![b] = "store"] /\ UNCHANGED <<pred, seen, lane>>
    BY <1>10 DEF Add, Goto
  <2>2. TypeOK'
    BY <1>1, <1>3, <1>8, <2>1 DEF IInv, TypeOK, Label
  <2>3. TilesClaimed'
    BY <1>1, <2>1, SameTiles DEF Label, Claimed
  <2>4. \A c \in Block : c # b => StoreRight(c)' /\ WalkRight(c)'
    BY <1>1, <1>3, <2>1, StoreKept, WalkKept
  <2>5. StoreRight(b)'
    BY <1>1, <1>3, <2>1 DEF IInv, StoreRight
  <2>6. sum'[b] = Prefix[input][tile[b]]
    BY <1>2, <1>6, <1>8, <1>10
  <2>7. WalkRight(b)'
    BY <1>1, <1>3, <1>4, <2>1, <2>6 DEF WalkRight
  <2>8. QED
    BY <1>9, <2>2, <2>3, <2>4, <2>5, <2>7 DEF IInv
<1>11. CASE seen[b][l] # "P"
  <2>1. p > 0 /\ p \in Tile /\ v = TileSum[input][p]
    BY <1>2, <1>11
  <2>2. sum'[b] + Prefix[input][p] = Prefix[input][tile[b]] /\ Prefix[input][p] \in Int
    <3>1. Prefix[input][p + 1] = Prefix[input][p] + TileSum[input][p] /\ Prefix[input][p] \in Int
      BY <2>1, PrefixStep DEF IInv
    <3>2. QED
      BY <1>3, <1>5, <1>6, <1>7, <1>8, <2>1, <3>1
  <2>3. CASE l = Window - 1
    <3>1. /\ pc' = [pc EXCEPT ![b] = "look"]
          /\ pred' = [pred EXCEPT ![b] = pred[b] - Window]
          /\ seen' = [seen EXCEPT ![b] = Unread]
          /\ lane' = [lane EXCEPT ![b] = 0]
      BY <1>11, <2>3 DEF Add, Goto
    <3>2. /\ pred[b] - Window = p - 1 /\ p - 1 \in Tile /\ p - 1 < tile[b] /\ p - 1 - 0 + 1 = p
          /\ 0 \in Lane /\ 0 <= p - 1 + 1
      <4>1. pred[b] < tile[b]
        BY <1>1, <1>4 DEF WalkRight
      <4>2. QED
        BY <1>2, <1>3, <2>1, <2>3, <4>1, SizeAssumption DEF Tile, Lane
    <3> HIDE DEF p
    <3>3. Unread \in [Lane -> {"X", "A", "P"}] /\ \A m \in Lane : Unread[m] = "X"
      BY DEF Unread
    <3>4. TypeOK'
      BY <1>1, <1>3, <1>8, <3>1, <3>2, <3>3 DEF IInv, TypeOK, Label
    <3>5. TilesClaimed'
      BY <1>1, <3>1, SameTiles DEF Label, Claimed
    <3>6. \A c \in Block : c # b => StoreRight(c)' /\ WalkRight(c)'
      BY <1>1, <1>3, <3>1, StoreKept, WalkKept
    <3>7. StoreRight(b)'
      BY <1>1, <1>3, <3>1 DEF IInv, StoreRight
    <3>8. /\ pc'[b] = "look" /\ pred'[b] = p - 1 /\ lane'[b] = 0 /\ seen'[b] = Unread
      BY <1>3, <3>1, <3>2
    <3>9. LanesRight(b)'
      BY <3>3, <3>8 DEF LanesRight
    <3>10. WalkRight(b)'
      BY <1>1, <1>4, <2>2, <3>2, <3>8, <3>9 DEF WalkRight
    <3>11. QED
      BY <1>9, <3>4, <3>5, <3>6, <3>7, <3>10 DEF IInv
  <2>4. CASE l # Window - 1
    <3>1. lane' = [lane EXCEPT ![b] = l + 1] /\ UNCHANGED <<pc, pred, seen>>
      BY <1>11, <2>4 DEF Add, Goto
    <3>2. l + 1 \in Lane /\ l + 1 <= pred[b] + 1 /\ pred[b] - (l + 1) + 1 = p
      <4>1. l \in 0..(Window - 1) /\ pred[b] \in Int /\ Window \in Nat
        BY <1>3, SizeAssumption DEF Tile, Lane
      <4>2. l + 1 \in Lane
        BY <2>4, <4>1 DEF Lane
      <4>3. QED
        BY <1>2, <2>1, <4>1, <4>2
    <3> HIDE DEF p
    <3>3. TypeOK'
      BY <1>1, <1>3, <1>8, <3>1, <3>2 DEF IInv, TypeOK
    <3>4. TilesClaimed'
      BY <1>1, <3>1 DEF IInv, TilesClaimed, Claimed
    <3>5. \A c \in Block : c # b => StoreRight(c)' /\ WalkRight(c)'
      BY <1>1, <1>3, <3>1, StoreKept, WalkKept
    <3>6. StoreRight(b)'
      BY <1>1, <3>1, StoreKept
    <3>7. lane'[b] = l + 1
      BY <1>3, <3>1
    <3>8. LanesRight(b)'
      BY <1>1, <1>4, <3>1 DEF WalkRight, LanesRight
    <3>9. WalkRight(b)'
      BY <1>1, <1>4, <2>2, <3>1, <3>2, <3>7, <3>8 DEF WalkRight
    <3>10. QED
      BY <1>9, <3>3, <3>4, <3>5, <3>6, <3>9 DEF IInv
  <2>5. QED
    BY <2>3, <2>4
<1>12. QED
  BY <1>10, <1>11

\* The prefix is stored for the tiles to come.
LEMMA StorePrefixIInv ==
  ASSUME IInv, NEW b \in Block, StorePrefix(b)
  PROVE  IInv'
<1> DEFINE w == [array |-> "inclusive", value |-> sum[b] + TileSum[input][tile[b]]]
<1>1. /\ pc[b] = "store" /\ pc' = [pc EXCEPT ![b] = "close"]
      /\ unflushed' = [unflushed EXCEPT ![b] = unflushed[b] \union {w}]
      /\ UNCHANGED <<input, counter, status, aggregate, inclusive, tile, pred, seen, lane, sum>>
  BY DEF StorePrefix, Store, Goto, memory
<1>2. pc \in [Block -> Label] /\ tile[b] \in Tile
  BY DEF IInv, TypeOK
<1>3. sum[b] + TileSum[input][tile[b]] = Prefix[input][tile[b] + 1] /\ Prefix[input][tile[b] + 1] \in Int
  <2>1. sum[b] = Prefix[input][tile[b]]
    BY <1>1 DEF IInv, WalkRight
  <2>2. QED
    BY <1>2, <2>1, PrefixStep DEF IInv
<1>4. /\ w \in [array : {"aggregate", "inclusive"}, value : Int]
      /\ w = [array |-> "inclusive", value |-> Prefix[input][tile[b] + 1]]
  BY <1>3
<1> HIDE DEF w
<1>5. unflushed'[b] = {w} /\ \A c \in Block \ {b} : unflushed'[c] = unflushed[c]
  BY <1>1 DEF IInv, TypeOK, StoreRight
<1>6. TypeOK' /\ StatusHolds'
  BY <1>1, <1>2, <1>4 DEF IInv, TypeOK, StatusHolds, Label
<1>7. TilesClaimed'
  BY <1>1, SameTiles DEF Label, Claimed
<1>8. \A c \in Block : c # b => StoreRight(c)' /\ WalkRight(c)'
  BY <1>1, <1>2, <1>5, StoreKept, WalkKept
<1>9. StoreRight(b)'
  <2>1. /\ pc'[b] = "close" /\ tile'[b] = tile[b] /\ input' = input
        /\ unflushed'[b] # {} /\ \A x \in unflushed'[b] : x = w
    BY <1>1, <1>2, <1>5
  <2>2. QED
    BY <1>4, <2>1 DEF StoreRight
<1>10. WalkRight(b)'
  BY <1>1, <1>2 DEF IInv, WalkRight
<1>11. QED
  BY <1>6, <1>7, <1>8, <1>9, <1>10 DEF IInv

\* The block ends: its prefix is the sum of the tiles before its own.
LEMMA PublishPrefixIInv ==
  ASSUME IInv, NEW b \in Block, PublishPrefix(b)
  PROVE  IInv'
<1>1. /\ pc[b] = "close" /\ StoreRelease(b, "P") /\ pc' = [pc EXCEPT ![b] = "done"]
      /\ UNCHANGED <<input, counter, aggregate, inclusive, tile, pred, seen, lane, sum, unflushed>>
  BY DEF PublishPrefix, Goto
<1>2. /\ pc \in [Block -> Label] /\ tile[b] \in Tile /\ unflushed[b] = {} /\ b \in Claimed
  BY <1>1 DEF IInv, TypeOK, StoreRelease, Claimed
<1>3. inclusive[tile[b]] = Prefix[input][tile[b] + 1]
  BY <1>1, <1>2 DEF IInv, StoreRight
<1>4. tile[b] > 0 => aggregate[tile[b]] = TileSum[input][tile[b]]
  <2>1. status[tile[b]] = "A"
    BY <1>1, <1>2 DEF IInv, TilesClaimed
  <2>2. QED
    BY <1>2, <2>1 DEF IInv, StatusHolds
<1>5. /\ StatusHolds' /\ TilesClaimed' /\ \A c \in Block : StoreRight(c)'
      /\ status' \in [Tile -> {"X", "A", "P"}] /\ pc' \in [Block -> Label]
  BY <1>1, <1>3, <1>4, Published
<1>6. \A t \in Tile : (status[t] # "X" => status'[t] # "X") /\ (status[t] = "P" => status'[t] = "P")
  BY <1>1, <1>3, <1>4, Published
<1>7. TypeOK'
  BY <1>1, <1>5 DEF IInv, TypeOK
<1>8. \A c \in Block : c # b => WalkRight(c)'
  BY <1>1, <1>2, <1>6, WalkKept
<1>9. WalkRight(b)'
  <2>1. sum[b] = Prefix[input][tile[b]]
    BY <1>1 DEF IInv, WalkRight
  <2>2. QED
    BY <1>1, <1>2, <2>1 DEF WalkRight
<1>10. QED
  BY <1>5, <1>7, <1>8, <1>9 DEF IInv

-----------------------------------------------------------------------------
(***************************************************************************)
(* Every step keeps the invariant, and what follows from it.               *)
(***************************************************************************)

\* Every step of every block, a launch and a stuttering step keep the invariant.
LEMMA NextIInv ==
  ASSUME IInv, [Next]_vars
  PROVE  IInv'
<1>1. CASE Launch
  BY <1>1, LaunchIInv
<1>2. ASSUME NEW b \in Block, StartBlock(b)
      PROVE  IInv'
  BY <1>2, StartBlockIInv
<1>3. ASSUME NEW b \in Block, Step(b)
      PROVE  IInv'
  <2>1. ASSUME NEW l \in Lane, Look(b, l)
        PROVE  IInv'
    BY <2>1, LookIInv
  <2>2. CASE Claim(b)
    BY <2>2, ClaimIInv
  <2>3. CASE StoreTotal(b)
    BY <2>3, StoreTotalIInv
  <2>4. CASE Flush(b)
    BY <2>4, FlushIInv
  <2>5. CASE PublishTotal(b)
    BY <2>5, PublishTotalIInv
  <2>6. CASE EndSpin(b)
    BY <2>6, EndSpinIInv
  <2>7. CASE Add(b)
    BY <2>7, AddIInv
  <2>8. CASE StorePrefix(b)
    BY <2>8, StorePrefixIInv
  <2>9. CASE PublishPrefix(b)
    BY <2>9, PublishPrefixIInv
  <2>10. QED
    BY <1>3, <2>1, <2>2, <2>3, <2>4, <2>5, <2>6, <2>7, <2>8, <2>9 DEF Step
<1>4. CASE UNCHANGED vars
  <2>1. UNCHANGED <<input, counter, status, aggregate, inclusive,
                    pc, tile, pred, seen, lane, sum, unflushed>>
    BY <1>4 DEF vars, memory, locals
  <2>2. TypeOK' /\ StatusHolds' /\ TilesClaimed'
    BY <2>1 DEF IInv, TypeOK, StatusHolds, TilesClaimed, Claimed
  <2>3. \A b \in Block : StoreRight(b)' /\ WalkRight(b)'
    BY <2>1, StoreKept, WalkKept
  <2>4. QED
    BY <2>2, <2>3 DEF IInv
<1>5. QED
  BY <1>1, <1>2, <1>3, <1>4 DEF Next

\* The strengthened invariant holds in every reachable state.
THEOREM InductiveInvariant == Spec => []IInv
<1>1. IInv /\ [Next]_vars => IInv'
  BY NextIInv
<1>2. QED
  BY <1>1, InitIInv, PTL DEF Spec

\* The walk never leaves the arrays, and every variable keeps its shape.
THEOREM TypeCorrect == Spec => []TypeOK
<1>1. IInv => TypeOK
  BY DEF IInv
<1>2. QED
  BY <1>1, InductiveInvariant, PTL

\* What a visible status stands for is visible too, however stores are delayed.
THEOREM StatusesHold == Spec => []StatusHolds
<1>1. IInv => StatusHolds
  BY DEF IInv
<1>2. QED
  BY <1>1, InductiveInvariant, PTL

\* What a lane reads after it has seen a status is what the status stood for.
THEOREM SeenStatusesHold == Spec => []SeenHolds
<1>1. ASSUME IInv
      PROVE  SeenHolds
  <2> SUFFICES ASSUME NEW b \in Block, NEW l \in Lane, pc[b] \in {"look", "sum"}, l <= pred[b]
               PROVE  LET t == pred[b] - l
                      IN  /\ seen[b][l] = "A" => t > 0 /\ aggregate[t] = TileSum[input][t]
                          /\ seen[b][l] = "P" => inclusive[t] = Prefix[input][t + 1]
    BY DEF SeenHolds
  <2> DEFINE t == pred[b] - l
  <2>1. pred[b] \in Tile
    BY <1>1 DEF IInv, TypeOK
  <2>2. t \in Tile /\ (l < pred[b] => t > 0)
    BY <2>1, SizeAssumption DEF Tile, Lane
  <2>3. /\ seen[b][l] = "A" => l < pred[b] /\ status[t] # "X"
        /\ seen[b][l] = "P" => status[t] = "P"
    BY <1>1 DEF IInv, WalkRight, LanesRight
  <2> HIDE DEF t
  <2>4. /\ seen[b][l] = "A" => t > 0 /\ aggregate[t] = TileSum[input][t]
        /\ seen[b][l] = "P" => inclusive[t] = Prefix[input][t + 1]
    BY <1>1, <2>2, <2>3 DEF IInv, StatusHolds
  <2>5. QED
    BY <2>4 DEF t
<1>2. QED
  BY <1>1, InductiveInvariant, PTL

\* A block waits only for tiles whose block is on the GPU, past its claim.  This is
\* what makes the scan end however few blocks run at a time; the liveness itself is
\* left to TLC.
THEOREM NobodyWaitsForTheUnstarted == Spec => []WaitsOnStarted
<1>1. ASSUME IInv
      PROVE  WaitsOnStarted
  <2> SUFFICES ASSUME NEW b \in Block, NEW l \in Lane, pc[b] = "look", l <= pred[b],
                      status[pred[b] - l] = "X"
               PROVE  \E c \in Running : pc[c] # "claim" /\ tile[c] = pred[b] - l
    BY DEF WaitsOnStarted
  <2> DEFINE t == pred[b] - l
  <2>1. /\ pred[b] \in Tile /\ tile[b] \in Tile /\ counter \in Nat /\ b \in Claimed
        /\ pred[b] < tile[b] /\ tile[b] < counter
    BY <1>1, SizeAssumption DEF IInv, TypeOK, TilesClaimed, WalkRight, Claimed
  <2>2. t \in Tile /\ t < counter
    BY <2>1, SizeAssumption DEF Tile, Lane
  <2> HIDE DEF t
  <2>3. PICK c \in Claimed : tile[c] = t
    BY <1>1, <2>2 DEF IInv, TilesClaimed
  <2>4. status[t] = "X"
    BY DEF t
  <2>5. pc[c] \in {"total", "publish"}
    BY <1>1, <2>3, <2>4 DEF IInv, TilesClaimed
  <2>6. c \in Running /\ pc[c] # "claim"
    BY <2>3, <2>5 DEF Running, Claimed
  <2>7. QED
    BY <2>3, <2>6 DEF t
<1>2. QED
  BY <1>1, InductiveInvariant, PTL

\* The scan is right: tiles are claimed once, and every block that has ended added
\* the sum of all tiles before its own.
THEOREM ScanIsCorrect == Spec => []ScanCorrect
<1>1. IInv => ScanCorrect
  BY DEF IInv, ScanCorrect, TilesClaimed, WalkRight
<1>2. QED
  BY <1>1, InductiveInvariant, PTL

-----------------------------------------------------------------------------
(* Pipeline.                                                               *)

-----------------------------------------------------------------------------
(* The inductive invariant.                                                *)

\* The chunks of a pipeline that the pass has enqueued.
Issued(p) ==
  LET done == K - Len(toIssue)
  IN  IF ~waiting THEN 0
      ELSE IF pass.cards = 1 THEN (IF p = 0 THEN done ELSE 0)
      ELSE IF p = 0 THEN 0 ELSE IF p = 1 THEN (done + 1) \div 2 ELSE done \div 2

\* The streams a pass uses, and operation m of one of them, counted from 0.
Lanes == IF pass.kind = "overlapped" THEN {"in", "comp", "out"}
         ELSE IF pass.kind = "serial" THEN {"serial"} ELSE {"in"}

OpAt(t, m) ==
  IF pass.kind = "serial" THEN IssueSerial(m \div 3).serial[(m % 3) + 1]
  ELSE IF pass.kind = "overlapped" THEN IssueOverlapped(m)[t][1] ELSE IssueH2d(m)[t][1]

IssuedTo(s) ==
  IF s[2] \notin Lanes THEN 0 ELSE IF pass.kind = "serial" THEN 3 * Issued(s[1]) ELSE Issued(s[1])

\* What is left to enqueue is the end of the order.
HostFollows ==
  /\ ~waiting => toIssue = <<>>
  /\ Len(toIssue) <= K
  /\ \A i \in 1..Len(toIssue) : toIssue[i] = Order(pass.cards)[K - Len(toIssue) + i]
  /\ pass.cards = 2 => K % 2 = 0 /\ pass.kind # "serial"

\* What is finished and what is queued are the operations of the pass, in order.
QueuesFollow ==
  \A s \in Stream :
    /\ finished[s] + Len(queue[s]) = IssuedTo(s)
    /\ \A i \in 1..Len(queue[s]) : queue[s][i] = OpAt(s[2], finished[s] + i - 1)
    /\ s \in running => queue[s] # <<>>

\* The event of a chunk stands behind the chunk's operation.
EventsFollow ==
  \A p \in Pipe, e \in {"h_end", "k_end", "d_end"}, c \in Chunk :
    recorded[<<p, e, c>>] = IF pass.kind = "overlapped" /\ c < Issued(p) THEN c + 1 ELSE 0

\* How far the three streams of an overlapped pass are from one another.
StreamsOrdered ==
  pass.kind = "overlapped" =>
    \A p \in Pipe :
      LET in   == finished[<<p, "in">>]
          comp == finished[<<p, "comp">>]
          out  == finished[<<p, "out">>]
      IN  /\ out <= comp /\ comp <= in /\ in <= comp + Buffers /\ comp <= out + Buffers
          /\ <<p, "in">> \in running => in < comp + Buffers
          /\ <<p, "comp">> \in running => comp < in /\ comp < out + Buffers
          /\ <<p, "out">> \in running => out < comp

Sent(c) == [number |-> pass.number, chunk |-> c, encoding |-> Plan(c)]
Done(c) == [number |-> pass.number, chunk |-> c, encoding |-> "features"]

\* What is in the buffers that are still to be read, and in the blocks.
OverlappedData ==
  pass.kind = "overlapped" =>
    \A p \in Pipe, c \in Chunk :
      /\ finished[<<p, "comp">>] <= c /\ c < finished[<<p, "in">>] => devIn[<<p, c % Buffers>>] = Sent(c)
      /\ finished[<<p, "out">>] <= c /\ c < finished[<<p, "comp">>] => devOut[<<p, c % Buffers>>] = Done(c)
      /\ c < finished[<<p, "out">>] => hostOut[<<p, c>>] = Done(c)

SerialData ==
  pass.kind = "serial" =>
    \A c \in Chunk :
      LET m == finished[<<0, "serial">>]
      IN  /\ m = 3 * c + 1 => devIn[<<0, 0>>] = Sent(c)
          /\ m = 3 * c + 2 => devOut[<<0, 0>>] = Done(c)
          /\ m >= 3 * c + 3 => hostOut[<<0, c>>] = Done(c)

\* No block is larger than a buffer.
CapacityEnough ==
  \A c \in Chunk : Block32[c] <= capacity /\ (encoded /\ c \notin Overflow => Block16[c] <= capacity)

Content   == [number : Nat, chunk : Nat, encoding : {"torn", "int32", "int16", "features"}]
Operation == [what : {"copy_in", "kernel", "copy_out"}, chunk : Nat, encoding : {"int32", "int16"},
              after : SUBSET ({"h_end", "k_end", "d_end"} \X Nat), record : {"h_end", "k_end", "d_end", "none"}, buffer : 0..Buffers-1]

PassTypeOK ==
  /\ pass \in [number : Nat, kind : Kinds, cards : {1, 2}, encoding : {"int32", "int16"}]
  /\ toIssue \in Seq(Pipe \X Chunk) /\ waiting \in BOOLEAN
  /\ encoded \in BOOLEAN /\ capacity \in Nat
  /\ queue \in [Stream -> Seq(Operation)] /\ finished \in [Stream -> Nat]
  /\ running \subseteq Stream /\ recorded \in [Marker -> Nat]
  /\ devIn \in [Place -> Content] /\ devOut \in [Place -> Content] /\ hostOut \in [Pipe \X Chunk -> Content]

PassInv ==
  /\ PassTypeOK /\ HostFollows /\ QueuesFollow /\ EventsFollow /\ StreamsOrdered
  /\ OverlappedData /\ SerialData /\ CapacityEnough /\ OutputsOfThisPass

-----------------------------------------------------------------------------
(* Helpers.                                                                *)

\* Two chunks that share a buffer are at least Buffers apart.
LEMMA SameBuffer ==
  ASSUME NEW a \in Nat, NEW b \in Nat, a % Buffers = b % Buffers, a < b
  PROVE  b - a >= Buffers
BY SizesAssumption

\* A chunk's buffer.
LEMMA BufferOf ==
  ASSUME NEW a \in Nat
  PROVE  a % Buffers \in 0..Buffers-1 /\ 0 \in 0..Buffers-1
BY SizesAssumption

\* The operations of an overlapped pass.
LEMMA OverlappedOps ==
  ASSUME pass.kind = "overlapped", NEW m \in Nat
  PROVE  /\ OpAt("in", m) = Op("copy_in", m, Earlier("k_end", m), "h_end")
         /\ OpAt("comp", m) = Op("kernel", m, {<<"h_end", m>>} \cup Earlier("d_end", m), "k_end")
         /\ OpAt("out", m) = Op("copy_out", m, {<<"k_end", m>>}, "d_end")
         /\ IssueOps(m) = [in |-> <<OpAt("in", m)>>, comp |-> <<OpAt("comp", m)>>, out |-> <<OpAt("out", m)>>]
         /\ Lanes = {"in", "comp", "out"}
BY DEF OpAt, IssueOps, IssueOverlapped, Lanes

\* The copies of a pass that only copies in.
LEMMA H2dOps ==
  ASSUME pass.kind = "h2d", NEW m \in Nat
  PROVE  /\ OpAt("in", m) = Op("copy_in", m, {}, "none")
         /\ IssueOps(m) = [in |-> <<OpAt("in", m)>>]
         /\ Lanes = {"in"}
BY DEF OpAt, IssueOps, IssueH2d, Lanes

\* The operations of a serial pass: three of each chunk.
LEMMA SerialOps ==
  ASSUME pass.kind = "serial", NEW c \in Nat
  PROVE  /\ OpAt("serial", 3 * c) = Op("copy_in", c, {}, "none")
         /\ OpAt("serial", 3 * c + 1) = Op("kernel", c, {}, "none")
         /\ OpAt("serial", 3 * c + 2) = Op("copy_out", c, {}, "none")
         /\ IssueOps(c) = [serial |-> <<OpAt("serial", 3 * c), OpAt("serial", 3 * c + 1), OpAt("serial", 3 * c + 2)>>]
         /\ Lanes = {"serial"}
<1>1. /\ (3 * c) \div 3 = c /\ (3 * c) % 3 = 0
      /\ (3 * c + 1) \div 3 = c /\ (3 * c + 1) % 3 = 1
      /\ (3 * c + 2) \div 3 = c /\ (3 * c + 2) % 3 = 2
  OBVIOUS
<1>2. \A k \in Nat : OpAt("serial", k) = IssueSerial(k \div 3).serial[(k % 3) + 1]
  BY DEF OpAt
<1>3. IssueSerial(c).serial = <<Op("copy_in", c, {}, "none"), Op("kernel", c, {}, "none"), Op("copy_out", c, {}, "none")>>
  BY DEF IssueSerial
<1>4. /\ OpAt("serial", 3 * c) = Op("copy_in", c, {}, "none")
      /\ OpAt("serial", 3 * c + 1) = Op("kernel", c, {}, "none")
      /\ OpAt("serial", 3 * c + 2) = Op("copy_out", c, {}, "none")
  <2>1. 3 * c \in Nat /\ 3 * c + 1 \in Nat /\ 3 * c + 2 \in Nat
    OBVIOUS
  <2>2. OpAt("serial", 3 * c) = IssueSerial(c).serial[1]
    BY <1>1, <1>2, <2>1
  <2>3. OpAt("serial", 3 * c + 1) = IssueSerial(c).serial[2]
    <3>1. OpAt("serial", 3 * c + 1) = IssueSerial((3 * c + 1) \div 3).serial[((3 * c + 1) % 3) + 1]
      BY <1>2, <2>1
    <3>2. (3 * c + 1) \div 3 = c /\ ((3 * c + 1) % 3) + 1 = 2
      BY <1>1
    <3>3. QED
      BY ONLY <3>1, <3>2
  <2>4. OpAt("serial", 3 * c + 2) = IssueSerial(c).serial[3]
    <3>1. OpAt("serial", 3 * c + 2) = IssueSerial((3 * c + 2) \div 3).serial[((3 * c + 2) % 3) + 1]
      BY <1>2, <2>1
    <3>2. (3 * c + 2) \div 3 = c /\ ((3 * c + 2) % 3) + 1 = 3
      BY <1>1
    <3>3. QED
      BY ONLY <3>1, <3>2
  <2>5. QED
    BY <1>3, <2>2, <2>3, <2>4
<1>5. QED
  BY <1>4 DEF IssueOps, IssueSerial, Lanes

\* What an operation is.
LEMMA OpFacts ==
  ASSUME PassTypeOK, NEW what \in {"copy_in", "kernel", "copy_out"}, NEW c \in Nat,
         NEW after \in SUBSET ({"h_end", "k_end", "d_end"} \X Nat), NEW record \in {"h_end", "k_end", "d_end", "none"}
  PROVE  LET o == Op(what, c, after, record)
         IN  /\ o \in Operation
             /\ o.what = what /\ o.chunk = c /\ o.after = after /\ o.record = record /\ o.encoding = Plan(c)
             /\ o.buffer = IF pass.kind = "serial" THEN 0 ELSE c % Buffers
BY BufferOf DEF Op, Operation, Plan

\* What an operation waits for are events of chunks.
LEMMA Waits ==
  ASSUME NEW m \in Nat
  PROVE  /\ Earlier("k_end", m) \in SUBSET ({"h_end", "k_end", "d_end"} \X Nat)
         /\ {<<"h_end", m>>} \cup Earlier("d_end", m) \in SUBSET ({"h_end", "k_end", "d_end"} \X Nat)
         /\ {<<"k_end", m>>} \in SUBSET ({"h_end", "k_end", "d_end"} \X Nat)
         /\ {} \in SUBSET ({"h_end", "k_end", "d_end"} \X Nat)
BY SizesAssumption DEF Earlier

\* A number is three times its third and a remainder.
LEMMA Thirds ==
  ASSUME NEW m \in Nat
  PROVE  \E c \in Nat : m = 3 * c \/ m = 3 * c + 1 \/ m = 3 * c + 2
<1>1. m \div 3 \in Nat /\ (m = 3 * (m \div 3) \/ m = 3 * (m \div 3) + 1 \/ m = 3 * (m \div 3) + 2)
  OBVIOUS
<1>2. QED
  BY <1>1

\* What OpAt gives is an operation.
LEMMA OpAtType ==
  ASSUME PassTypeOK, NEW t \in Lanes, NEW m \in Nat
  PROVE  OpAt(t, m) \in Operation
<1>1. CASE pass.kind = "overlapped"
  <2>1. CASE t = "in"
    <3>1. Op("copy_in", m, Earlier("k_end", m), "h_end") \in Operation
      BY Waits, OpFacts
    <3>2. OpAt(t, m) = Op("copy_in", m, Earlier("k_end", m), "h_end")
      BY <1>1, <2>1, OverlappedOps
    <3>3. QED
      BY <3>1, <3>2
  <2>2. CASE t = "comp"
    <3>1. Op("kernel", m, {<<"h_end", m>>} \cup Earlier("d_end", m), "k_end") \in Operation
      BY Waits, OpFacts
    <3>2. OpAt(t, m) = Op("kernel", m, {<<"h_end", m>>} \cup Earlier("d_end", m), "k_end")
      BY <1>1, <2>2, OverlappedOps
    <3>3. QED
      BY <3>1, <3>2
  <2>3. CASE t = "out"
    <3>1. Op("copy_out", m, {<<"k_end", m>>}, "d_end") \in Operation
      BY Waits, OpFacts
    <3>2. OpAt(t, m) = Op("copy_out", m, {<<"k_end", m>>}, "d_end")
      BY <1>1, <2>3, OverlappedOps
    <3>3. QED
      BY <3>1, <3>2
  <2>4. QED
    BY <1>1, <2>1, <2>2, <2>3 DEF Lanes
<1>2. CASE pass.kind = "h2d"
  BY <1>2, Waits, H2dOps, OpFacts
<1>3. CASE pass.kind = "serial"
  <2>1. t = "serial"
    BY <1>3, SerialOps
  <2>2. PICK c \in Nat : m = 3 * c \/ m = 3 * c + 1 \/ m = 3 * c + 2
    BY Thirds
  <2>3. CASE m = 3 * c
    <3>1. Op("copy_in", c, {}, "none") \in Operation
      BY Waits, OpFacts
    <3>2. OpAt(t, m) = Op("copy_in", c, {}, "none")
      BY <1>3, <2>1, <2>3, SerialOps
    <3>3. QED
      BY <3>1, <3>2
  <2>4. CASE m = 3 * c + 1
    <3>1. Op("kernel", c, {}, "none") \in Operation
      BY Waits, OpFacts
    <3>2. OpAt(t, m) = Op("kernel", c, {}, "none")
      BY <1>3, <2>1, <2>4, SerialOps
    <3>3. QED
      BY <3>1, <3>2
  <2>5. CASE m = 3 * c + 2
    <3>1. Op("copy_out", c, {}, "none") \in Operation
      BY Waits, OpFacts
    <3>2. OpAt(t, m) = Op("copy_out", c, {}, "none")
      BY <1>3, <2>1, <2>5, SerialOps
    <3>3. QED
      BY <3>1, <3>2
  <2>6. QED
    BY <2>2, <2>3, <2>4, <2>5
<1>4. QED
  BY <1>1, <1>2, <1>3 DEF PassTypeOK, Kinds

-----------------------------------------------------------------------------
(* The host.                                                               *)

\* A pipeline has at most K chunks enqueued, none between passes.
LEMMA IssuedType ==
  ASSUME PassTypeOK, HostFollows, NEW p \in Pipe
  PROVE  /\ Issued(p) \in 0..K
         /\ ~waiting => Issued(p) = 0
         /\ pass.cards = 1 /\ p # 0 => Issued(p) = 0
<1>1. Len(toIssue) \in 0..K
  BY DEF PassTypeOK, HostFollows
<1>2. PICK done \in 0..K : done = K - Len(toIssue)
  BY <1>1, SizesAssumption
<1>3. (done + 1) \div 2 \in 0..K /\ done \div 2 \in 0..K
  BY SizesAssumption
<1>4. QED
  BY <1>2, <1>3, SizesAssumption DEF Issued

\* The first operation of a stream, when it has one.
LEMMA FirstOperation ==
  ASSUME PassTypeOK, HostFollows, QueuesFollow, NEW s \in Stream, queue[s] # <<>>
  PROVE  /\ Head(queue[s]) = OpAt(s[2], finished[s])
         /\ Head(queue[s]) \in Operation
         /\ s[2] \in Lanes /\ s[1] \in Pipe /\ finished[s] \in Nat
         /\ finished[s] < IssuedTo(s)
         /\ waiting
         /\ pass.cards = 1 => s[1] = 0
<1>1. queue[s] \in Seq(Operation) /\ finished[s] \in Nat /\ s[1] \in Pipe
  BY DEF PassTypeOK, Stream
<1>2. Len(queue[s]) \in Nat /\ Len(queue[s]) > 0 /\ Head(queue[s]) = queue[s][1]
  BY <1>1
<1>3. queue[s][1] = OpAt(s[2], finished[s] + 1 - 1)
  BY <1>2 DEF QueuesFollow
<1>4. finished[s] + Len(queue[s]) = IssuedTo(s)
  BY DEF QueuesFollow
<1>5. IssuedTo(s) # 0
  BY <1>1, <1>2, <1>4
<1>6. s[2] \in Lanes /\ Issued(s[1]) # 0
  BY <1>5 DEF IssuedTo
<1>7. waiting /\ (pass.cards = 1 => s[1] = 0)
  BY <1>1, <1>6, IssuedType DEF PassTypeOK
<1>8. finished[s] + 1 - 1 = finished[s]
  BY <1>1
<1>9. Head(queue[s]) \in Operation
  BY <1>1, <1>2
<1>10. QED
  BY <1>1, <1>2, <1>3, <1>4, <1>6, <1>7, <1>8, <1>9

\* Between two passes nothing is enqueued, finished or running.
LEMMA BetweenPasses ==
  ASSUME PassTypeOK, HostFollows, QueuesFollow, EventsFollow, ~waiting
  PROVE  /\ toIssue = <<>> /\ running = {}
         /\ \A s \in Stream : queue[s] = <<>> /\ finished[s] = 0
         /\ \A m \in Marker : recorded[m] = 0
<1>1. toIssue = <<>>
  BY DEF HostFollows
<1>2. ASSUME NEW s \in Stream
      PROVE  queue[s] = <<>> /\ finished[s] = 0 /\ s \notin running
  <2>1. queue[s] = <<>>
    BY FirstOperation
  <2>2. s[1] \in Pipe
    BY DEF Stream
  <2>3. IssuedTo(s) = 0
    BY <2>2, IssuedType DEF IssuedTo
  <2>4. finished[s] + 0 = 0 /\ finished[s] \in Nat
    BY <2>1, <2>3 DEF QueuesFollow, PassTypeOK
  <2>5. QED
    BY <2>1, <2>4 DEF QueuesFollow
<1>3. running = {}
  BY <1>2 DEF PassTypeOK
<1>4. ASSUME NEW m \in Marker
      PROVE  recorded[m] = 0
  <2>1. PICK p \in Pipe, e \in {"h_end", "k_end", "d_end"}, c \in Chunk : m = <<p, e, c>>
    BY DEF Marker
  <2>2. Issued(p) = 0 /\ c \in Nat
    BY IssuedType DEF Chunk
  <2>3. QED
    BY <2>1, <2>2 DEF EventsFollow
<1>5. QED
  BY <1>1, <1>2, <1>3, <1>4

\* What a pass enqueues, in order.
LEMMA OrderType ==
  ASSUME NEW cards \in {1, 2}
  PROVE  /\ Order(cards) \in Seq(Pipe \X Chunk)
         /\ Len(Order(cards)) = K
         /\ \A i \in 1..K : Order(cards)[i] = IF cards = 2 THEN <<((i - 1) % 2) + 1, (i - 1) \div 2>> ELSE <<0, i - 1>>
<1>1. K \in Nat
  BY SizesAssumption
<1>2. CASE cards = 2
  <2>1. ASSUME NEW i \in 1..K
        PROVE  <<((i - 1) % 2) + 1, (i - 1) \div 2>> \in Pipe \X Chunk
    <3>1. ((i - 1) % 2) + 1 \in 0..2 /\ (i - 1) \div 2 \in 0..K-1
      BY <1>1
    <3>2. QED
      BY <3>1 DEF Pipe, Chunk
  <2>2. Order(cards) = [i \in 1..K |-> <<((i - 1) % 2) + 1, (i - 1) \div 2>>]
    BY <1>2 DEF Order
  <2>3. QED
    BY <1>1, <1>2, <2>1, <2>2
<1>3. CASE cards # 2
  <2>1. ASSUME NEW i \in 1..K
        PROVE  <<0, i - 1>> \in Pipe \X Chunk
    BY <1>1 DEF Pipe, Chunk
  <2>2. Order(cards) = [i \in 1..K |-> <<0, i - 1>>]
    BY <1>3 DEF Order
  <2>3. QED
    BY <1>1, <1>3, <2>1, <2>2
<1>4. QED
  BY <1>2, <1>3

\* A chunk is never larger than the largest.
LEMMA LargestFacts ==
  ASSUME NEW S \in SUBSET Chunk, S # {}, NEW block \in [S -> Nat]
  PROVE  Largest(block) \in Nat /\ \A c \in S : block[c] <= Largest(block)
<1> DEFINE T == {k \in Nat : \A U \in SUBSET S : U # {} /\ U \subseteq 0..k-1 => \E c \in U : \A d \in U : block[d] <= block[c]}
<1>1. 0 \in T
  OBVIOUS
<1>2. ASSUME NEW k \in T
      PROVE  k + 1 \in T
  <2>1. SUFFICES ASSUME NEW U \in SUBSET S, U # {}, U \subseteq 0..k
                 PROVE  \E c \in U : \A d \in U : block[d] <= block[c]
    BY k + 1 - 1 = k
  <2>2. CASE U \ {k} = {}
    <3>1. U = {k}
      BY <2>1, <2>2
    <3>2. QED
      BY <3>1
  <2>3. CASE U \ {k} # {}
    <3>1. U \ {k} \subseteq 0..k-1 /\ U \ {k} \in SUBSET S
      BY <2>1
    <3>2. PICK c \in U \ {k} : \A d \in U \ {k} : block[d] <= block[c]
      BY <2>3, <3>1
    <3>3. CASE k \in U /\ block[k] > block[c]
      <4>1. \A d \in U : block[d] <= block[k]
        BY <3>2, <3>3
      <4>2. QED
        BY <3>3, <4>1
    <3>4. CASE ~(k \in U /\ block[k] > block[c])
      <4>1. \A d \in U : block[d] <= block[c]
        BY <3>2, <3>4
      <4>2. QED
        BY <4>1
    <3>5. QED
      BY <3>3, <3>4
  <2>4. QED
    BY <2>2, <2>3
<1>3. T = Nat
  <2> HIDE DEF T
  <2>1. T \in SUBSET Nat
    BY DEF T
  <2>2. QED
    BY <1>1, <1>2, <2>1, Induction
<1>4. K \in T /\ S \subseteq 0..K-1
  BY <1>3, SizesAssumption DEF Chunk
<1>5. PICK c \in S : \A d \in S : block[d] <= block[c]
  BY <1>4
<1>6. DOMAIN block = S
  OBVIOUS
<1>7. block[c] \in {block[d] : d \in DOMAIN block} /\ \A d \in DOMAIN block : block[d] <= block[c]
  BY <1>5, <1>6
<1>8. Largest(block) \in {block[d] : d \in DOMAIN block} /\ \A d \in DOMAIN block : block[d] <= Largest(block)
  BY <1>7 DEF Largest
<1>9. QED
  BY <1>6, <1>8

\* The invariant holds when the host starts.
LEMMA InitPassInv == PipelineInit => PassInv
<1>1. SUFFICES ASSUME PipelineInit PROVE PassInv
  OBVIOUS
<1>2. Largest(Block32) \in Nat /\ \A c \in Chunk : Block32[c] <= Largest(Block32)
  BY SizesAssumption, LargestFacts, 0 \in Chunk DEF Chunk
<1>3. PassTypeOK
  <2>1. Torn \in Content
    BY DEF Torn, Content
  <2>2. pass \in [number : Nat, kind : Kinds, cards : {1, 2}, encoding : {"int32", "int16"}]
    BY <1>1 DEF PipelineInit, Kinds
  <2>3. toIssue \in Seq(Pipe \X Chunk) /\ queue \in [Stream -> Seq(Operation)]
    BY <1>1 DEF PipelineInit
  <2>4. QED
    BY <1>1, <1>2, <2>1, <2>2, <2>3 DEF PipelineInit, PassTypeOK
<1>4. HostFollows
  BY <1>1, SizesAssumption DEF PipelineInit, HostFollows
<1>5. \A p \in Pipe : Issued(p) = 0
  BY <1>1 DEF PipelineInit, Issued
<1>6. QueuesFollow
  <2>1. SUFFICES ASSUME NEW s \in Stream
                 PROVE  /\ finished[s] + Len(queue[s]) = IssuedTo(s)
                        /\ \A i \in 1..Len(queue[s]) : queue[s][i] = OpAt(s[2], finished[s] + i - 1)
                        /\ s \notin running
    BY DEF QueuesFollow
  <2>2. queue[s] = <<>> /\ finished[s] = 0 /\ running = {}
    BY <1>1 DEF PipelineInit
  <2>3. IssuedTo(s) = 0
    BY <1>5 DEF IssuedTo, Stream
  <2>4. QED
    BY <2>2, <2>3
<1>7. EventsFollow
  <2>1. pass.kind = "serial" /\ \A m \in Marker : recorded[m] = 0
    BY <1>1 DEF PipelineInit
  <2>2. QED
    BY <2>1 DEF EventsFollow, Marker
<1>8. StreamsOrdered /\ OverlappedData
  BY <1>1 DEF PipelineInit, StreamsOrdered, OverlappedData
<1>9. SerialData
  <2>1. finished[<<0, "serial">>] = 0
    BY <1>1 DEF PipelineInit, Stream, Pipe
  <2>2. QED
    BY <2>1 DEF SerialData, Chunk
<1>10. CapacityEnough
  BY <1>1, <1>2 DEF PipelineInit, CapacityEnough
<1>11. OutputsOfThisPass
  BY <1>1 DEF PipelineInit, OutputsOfThisPass
<1>12. QED
  BY <1>3, <1>4, <1>6, <1>7, <1>8, <1>9, <1>10, <1>11 DEF PassInv

\* Between two passes nothing is issued, so nothing stands in queues and buffers:
\* a state of that kind needs the types, sizes and outputs only.
LEMMA NothingIssued ==
  ASSUME PassTypeOK', HostFollows', CapacityEnough', OutputsOfThisPass',
         \A p \in Pipe : Issued(p)' = 0,
         running' = {}, \A s \in Stream : queue'[s] = <<>> /\ finished'[s] = 0,
         \A m \in Marker : recorded'[m] = 0
  PROVE  PassInv'
<1>1. QueuesFollow'
  <2>1. SUFFICES ASSUME NEW s \in Stream
                 PROVE  /\ finished'[s] + Len(queue'[s]) = IssuedTo(s)'
                        /\ \A i \in 1..Len(queue'[s]) : queue'[s][i] = OpAt(s[2], finished[s] + i - 1)'
                        /\ s \notin running'
    BY DEF QueuesFollow
  <2>2. queue'[s] = <<>> /\ finished'[s] = 0
    OBVIOUS
  <2>3. IssuedTo(s)' = 0
    BY DEF IssuedTo, Stream
  <2>4. QED
    BY <2>2, <2>3
<1>2. EventsFollow'
  <2>1. ASSUME NEW p \in Pipe, NEW e \in {"h_end", "k_end", "d_end"}, NEW c \in Chunk
        PROVE  recorded'[<<p, e, c>>] = 0 /\ ~(c < Issued(p)')
    BY DEF Marker, Chunk
  <2>2. QED
    BY <2>1 DEF EventsFollow
<1>3. \A p \in Pipe : /\ finished'[<<p, "in">>] = 0 /\ finished'[<<p, "comp">>] = 0
                     /\ finished'[<<p, "out">>] = 0 /\ finished'[<<p, "serial">>] = 0
  BY DEF Stream
<1>4. StreamsOrdered'
  <2>1. ASSUME NEW p \in Pipe
        PROVE  LET in   == finished'[<<p, "in">>]
                   comp == finished'[<<p, "comp">>]
                   out  == finished'[<<p, "out">>]
               IN  /\ out <= comp /\ comp <= in /\ in <= comp + Buffers /\ comp <= out + Buffers
                   /\ <<p, "in">> \in running' => in < comp + Buffers
                   /\ <<p, "comp">> \in running' => comp < in /\ comp < out + Buffers
                   /\ <<p, "out">> \in running' => out < comp
    <3>1. finished'[<<p, "in">>] = 0 /\ finished'[<<p, "comp">>] = 0 /\ finished'[<<p, "out">>] = 0
      BY <1>3
    <3>2. <<p, "in">> \notin running' /\ <<p, "comp">> \notin running' /\ <<p, "out">> \notin running'
      OBVIOUS
    <3>3. QED
      BY <3>1, <3>2, SizesAssumption
  <2>2. QED
    BY <2>1, Zenon DEF StreamsOrdered
<1>5. OverlappedData'
  <2>1. \A c \in Chunk : ~(c < 0)
    BY SizesAssumption DEF Chunk
  <2>2. QED
    BY ONLY <1>3, <2>1 DEF OverlappedData
<1>6. SerialData'
  BY <1>3 DEF SerialData, Chunk, Pipe
<1>7. QED
  BY <1>1, <1>2, <1>4, <1>5, <1>6 DEF PassInv

\* A pass begins.
LEMMA BeginKeeps ==
  ASSUME PassInv, NEW kind \in Kinds, NEW cards \in {1, 2}, NEW encoding \in {"int32", "int16"},
         Begin(kind, cards, encoding)
  PROVE  PassInv'
<1>1. /\ PassTypeOK /\ HostFollows /\ QueuesFollow /\ EventsFollow /\ CapacityEnough
      /\ ~waiting /\ waiting' = TRUE /\ toIssue' = Order(cards)
      /\ pass' = [number |-> pass.number + 1, kind |-> kind, cards |-> cards, encoding |-> encoding]
      /\ UNCHANGED <<encoded, capacity, queue, finished, running, recorded, devIn, devOut, hostOut>>
  BY DEF PassInv, Begin
<1>2. /\ running' = {} /\ \A s \in Stream : queue'[s] = <<>> /\ finished'[s] = 0
      /\ \A m \in Marker : recorded'[m] = 0
  BY <1>1, BetweenPasses
<1>3. PassTypeOK'
  BY <1>1, OrderType DEF PassTypeOK
<1>4. pass'.cards = cards /\ pass'.kind = kind
  BY <1>1
<1>5. HostFollows'
  <2>1. Len(toIssue') = K /\ K \in Nat
    BY <1>1, OrderType, SizesAssumption
  <2>2. \A i \in 1..Len(toIssue') : toIssue'[i] = Order(pass'.cards)[K - Len(toIssue') + i]
    BY <1>1, <1>4, <2>1
  <2>3. cards = 2 => K % 2 = 0 /\ kind # "serial"
    BY DEF Begin, TwoCards
  <2>4. QED
    BY <1>1, <1>4, <2>1, <2>2, <2>3 DEF HostFollows
<1>6. \A p \in Pipe : Issued(p)' = 0
  <2>1. K - Len(toIssue') = 0
    BY <1>1, OrderType, SizesAssumption
  <2>2. QED
    BY <2>1 DEF Issued
<1>7. CapacityEnough'
  BY <1>1 DEF CapacityEnough
<1>8. OutputsOfThisPass'
  BY <1>1 DEF OutputsOfThisPass
<1>9. QED
  BY <1>2, <1>3, <1>5, <1>6, <1>7, <1>8, NothingIssued

\* The int16 blocks are built.
LEMMA BuildInt16Keeps ==
  ASSUME PassInv, BuildInt16
  PROVE  PassInv'
<1>1. /\ PassTypeOK /\ HostFollows /\ QueuesFollow /\ EventsFollow /\ CapacityEnough /\ OutputsOfThisPass
      /\ ~waiting /\ encoded' = TRUE
      /\ capacity' = EnsureCapacity([c \in Chunk \ Overflow |-> Block16[c]])
      /\ devIn' = devIn \/ devIn' = [p \in Place |-> IF p[1] = 0 THEN Torn ELSE devIn[p]]
      /\ UNCHANGED <<pass, toIssue, waiting, queue, finished, running, recorded, devOut, hostOut>>
  BY DEF PassInv, BuildInt16
<1>2. /\ running' = {} /\ \A s \in Stream : queue'[s] = <<>> /\ finished'[s] = 0
      /\ \A m \in Marker : recorded'[m] = 0
  BY <1>1, BetweenPasses
<1>3. PICK block : block = [c \in Chunk \ Overflow |-> Block16[c]]
  OBVIOUS
<1>4. block \in [Chunk \ Overflow -> Nat] /\ DOMAIN block = Chunk \ Overflow
  BY <1>3, SizesAssumption
<1>5. capacity' \in Nat /\ capacity' >= capacity /\ \A c \in Chunk \ Overflow : block[c] <= capacity'
  <2>1. capacity \in Nat /\ capacity' = IF DOMAIN block = {} \/ Largest(block) <= capacity THEN capacity ELSE Largest(block)
    BY <1>1, <1>3 DEF PassTypeOK, EnsureCapacity
  <2>2. CASE DOMAIN block = {}
    BY <1>4, <2>1, <2>2
  <2>3. CASE DOMAIN block # {}
    <3>1. Largest(block) \in Nat /\ \A c \in Chunk \ Overflow : block[c] <= Largest(block)
      BY <1>4, <2>3, LargestFacts
    <3>2. \A c \in Chunk \ Overflow : block[c] \in Nat
      BY <1>4
    <3>3. QED
      BY <2>1, <2>3, <3>1, <3>2
  <2>4. QED
    BY <2>2, <2>3
<1>6. PassTypeOK'
  <2>1. Torn \in Content
    BY DEF Torn, Content
  <2>2. devIn' \in [Place -> Content]
    BY <1>1, <2>1 DEF PassTypeOK
  <2>3. QED
    BY <1>1, <1>5, <2>2 DEF PassTypeOK
<1>7. HostFollows'
  BY <1>1 DEF HostFollows
<1>8. \A p \in Pipe : Issued(p)' = 0
  BY <1>1 DEF Issued
<1>9. CapacityEnough'
  <2>1. SUFFICES ASSUME NEW c \in Chunk
                 PROVE  Block32[c] <= capacity' /\ (c \notin Overflow => Block16[c] <= capacity')
    BY DEF CapacityEnough
  <2>2. Block32[c] <= capacity /\ Block32[c] \in Nat /\ capacity \in Nat
    BY <1>1, SizesAssumption DEF CapacityEnough, PassTypeOK
  <2>3. c \notin Overflow => block[c] = Block16[c]
    BY <1>3
  <2>4. QED
    BY <1>5, <2>2, <2>3
<1>10. OutputsOfThisPass'
  BY <1>1 DEF OutputsOfThisPass
<1>11. QED
  BY <1>2, <1>6, <1>7, <1>8, <1>9, <1>10, NothingIssued

\* Enqueuing a chunk: it is the next chunk of its pipeline, and the order goes on.
LEMMA NextChunk ==
  ASSUME PassInv, Issue
  PROVE  /\ waiting
         /\ toIssue' \in Seq(Pipe \X Chunk)
         /\ HostFollows'
         /\ \E pipe \in Pipe, c \in Chunk :
              /\ Enqueue(pipe, IssueOps(c))
              /\ Issued(pipe) = c /\ Issued(pipe)' = c + 1
              /\ \A p \in Pipe : p # pipe => Issued(p)' = Issued(p)
<1>1. /\ PassTypeOK /\ HostFollows /\ toIssue # <<>> /\ toIssue' = Tail(toIssue)
      /\ UNCHANGED <<pass, waiting>> /\ toIssue \in Seq(Pipe \X Chunk)
      /\ Enqueue(Head(toIssue)[1], IssueOps(Head(toIssue)[2]))
  BY DEF PassInv, Issue, PassTypeOK
<1>2. waiting /\ waiting' /\ pass.cards \in {1, 2} /\ pass' = pass
  BY <1>1 DEF HostFollows, PassTypeOK
<1>3. PICK n \in 1..K : n = Len(toIssue)
  BY <1>1 DEF HostFollows
<1>4. K \in Nat /\ n \in Nat /\ K - n \in 0..K-1 /\ K - n + 1 \in 1..K
  BY <1>3, SizesAssumption
<1>5. /\ Len(toIssue') = n - 1 /\ toIssue' \in Seq(Pipe \X Chunk)
      /\ \A i \in 1..n-1 : toIssue'[i] = toIssue[i + 1]
  BY <1>1, <1>3
<1>6. HostFollows'
  <2>1. ASSUME NEW i \in 1..n-1
        PROVE  toIssue'[i] = Order(pass.cards)[K - (n - 1) + i]
    <3>1. i + 1 \in 1..n /\ K - n + (i + 1) = K - (n - 1) + i
      BY <1>4
    <3>2. toIssue[i + 1] = Order(pass.cards)[K - n + (i + 1)]
      BY <1>1, <1>3, <3>1 DEF HostFollows
    <3>3. QED
      BY <1>5, <3>1, <3>2
  <2>2. n - 1 <= K
    BY <1>4
  <2>3. pass.cards = 2 => K % 2 = 0 /\ pass.kind # "serial"
    BY <1>1 DEF HostFollows
  <2>4. QED
    BY <1>2, <1>5, <2>1, <2>2, <2>3 DEF HostFollows
<1>7. PICK done \in 0..K-1 : done = K - n
  BY <1>4
<1>8. K - Len(toIssue) = done /\ K - Len(toIssue') = done + 1
  BY <1>3, <1>4, <1>5, <1>7
<1>9. Head(toIssue) = Order(pass.cards)[done + 1]
  <2>1. toIssue[1] = Order(pass.cards)[K - n + 1]
    BY <1>1, <1>3 DEF HostFollows
  <2>2. QED
    BY <1>1, <1>7, <2>1
<1>10. Order(pass.cards)[done + 1] = IF pass.cards = 2 THEN <<((done + 1 - 1) % 2) + 1, (done + 1 - 1) \div 2>> ELSE <<0, done + 1 - 1>>
  <2>1. done + 1 \in 1..K
    BY <1>4, <1>7
  <2>2. \A i \in 1..K : Order(pass.cards)[i] = IF pass.cards = 2 THEN <<((i - 1) % 2) + 1, (i - 1) \div 2>> ELSE <<0, i - 1>>
    BY <1>2, OrderType
  <2>3. QED
    BY <2>1, <2>2
<1>11. done + 1 - 1 = done
  BY <1>7
<1>12. /\ \A p \in Pipe : Issued(p) = IF pass.cards = 1 THEN (IF p = 0 THEN done ELSE 0)
                                      ELSE IF p = 0 THEN 0 ELSE IF p = 1 THEN (done + 1) \div 2 ELSE done \div 2
       /\ \A p \in Pipe : Issued(p)' = IF pass.cards = 1 THEN (IF p = 0 THEN done + 1 ELSE 0)
                                       ELSE IF p = 0 THEN 0 ELSE IF p = 1 THEN (done + 1 + 1) \div 2 ELSE (done + 1) \div 2
  BY <1>2, <1>8 DEF Issued
<1>13. CASE pass.cards = 1
  <2>1. Head(toIssue) = <<0, done>>
    BY <1>9, <1>10, <1>11, <1>13
  <2>2. 0 \in Pipe /\ done \in Chunk
    BY <1>7 DEF Pipe, Chunk
  <2>3. Enqueue(0, IssueOps(done))
    BY <1>1, <2>1
  <2>4. Issued(0) = done /\ Issued(0)' = done + 1 /\ \A p \in Pipe : p # 0 => Issued(p)' = Issued(p)
    BY <1>12, <1>13, <2>2
  <2>5. QED
    BY <1>2, <1>5, <1>6, <2>2, <2>3, <2>4
<1>14. CASE pass.cards = 2
  <2>1. Head(toIssue) = <<(done % 2) + 1, done \div 2>>
    BY <1>9, <1>10, <1>11, <1>14
  <2>2. PICK c : c = done \div 2
    OBVIOUS
  <2>3. c \in Chunk
    BY <1>4, <1>7, <2>2 DEF Chunk
  <2>4. CASE done % 2 = 0
    <3>1. (done + 1) \div 2 = c /\ (done + 1 + 1) \div 2 = c + 1 /\ 1 \in Pipe
      BY <1>4, <1>7, <2>2, <2>4 DEF Pipe
    <3>2. Head(toIssue) = <<1, c>>
      BY <2>1, <2>2, <2>4
    <3>3. Enqueue(1, IssueOps(c))
      BY <1>1, <3>2
    <3>4. Issued(1) = c /\ Issued(1)' = c + 1 /\ \A p \in Pipe : p # 1 => Issued(p)' = Issued(p)
      BY <1>12, <1>14, <2>2, <3>1
    <3>5. QED
      BY <1>2, <1>5, <1>6, <2>3, <3>1, <3>3, <3>4
  <2>5. CASE done % 2 # 0
    <3>1. done % 2 = 1 /\ (done + 1) \div 2 = c + 1 /\ (done + 1 + 1) \div 2 = c + 1 /\ 2 \in Pipe
      BY <1>4, <1>7, <2>2, <2>5 DEF Pipe
    <3>2. Head(toIssue) = <<2, c>>
      BY <2>1, <2>2, <3>1
    <3>3. Enqueue(2, IssueOps(c))
      BY <1>1, <3>2
    <3>4. Issued(2) = c /\ Issued(2)' = c + 1 /\ \A p \in Pipe : p # 2 => Issued(p)' = Issued(p)
      BY <1>12, <1>14, <2>2, <3>1 DEF Pipe
    <3>5. QED
      BY <1>2, <1>5, <1>6, <2>3, <3>1, <3>3, <3>4
  <2>6. QED
    BY <2>4, <2>5
<1>15. QED
  BY <1>2, <1>13, <1>14

\* What a pass adds to a stream of a pipeline, and the event it records there.
LEMMA EnqueuedOverlapped ==
  ASSUME PassTypeOK, pass.kind = "overlapped", NEW pipe \in Pipe, NEW c \in Chunk, Enqueue(pipe, IssueOps(c))
  PROVE  /\ \A s \in Stream : queue'[s] = IF s[1] = pipe /\ s[2] \in Lanes
                                            THEN Append(queue[s], OpAt(s[2], c)) ELSE queue[s]
         /\ \A m \in Marker : recorded'[m] =
              IF m[1] = pipe /\ m[3] = c
                THEN LET s == <<pipe, IF m[2] = "h_end" THEN "in" ELSE IF m[2] = "k_end" THEN "comp" ELSE "out">>
                     IN  finished[s] + Len(queue[s]) + 1
                ELSE recorded[m]
<1>1. c \in Nat
  BY SizesAssumption DEF Chunk
<1>2. PICK ops : ops = IssueOps(c)
  OBVIOUS
<1>3. /\ DOMAIN ops = {"in", "comp", "out"} /\ Lanes = {"in", "comp", "out"}
      /\ ops["in"] = <<OpAt("in", c)>> /\ ops["comp"] = <<OpAt("comp", c)>> /\ ops["out"] = <<OpAt("out", c)>>
  <2>1. ops = [in |-> <<OpAt("in", c)>>, comp |-> <<OpAt("comp", c)>>, out |-> <<OpAt("out", c)>>]
    BY <1>1, <1>2, OverlappedOps
  <2>2. Lanes = {"in", "comp", "out"}
    BY DEF Lanes
  <2>3. QED
    BY <2>1, <2>2
<1>4. \A t \in {"in", "comp", "out"} : ops[t] = <<OpAt(t, c)>> /\ Last(ops[t]) = OpAt(t, c) /\ Len(ops[t]) = 1
  <2>1. \A o : Last(<<o>>) = o /\ Len(<<o>>) = 1
    BY DEF Last
  <2>2. QED
    BY <1>3, <2>1
<1>5. /\ OpAt("in", c).record = "h_end" /\ OpAt("in", c).chunk = c
      /\ OpAt("comp", c).record = "k_end" /\ OpAt("comp", c).chunk = c
      /\ OpAt("out", c).record = "d_end" /\ OpAt("out", c).chunk = c
  <2>1. /\ Op("copy_in", c, Earlier("k_end", c), "h_end").record = "h_end"
        /\ Op("copy_in", c, Earlier("k_end", c), "h_end").chunk = c
    BY DEF Op
  <2>2. /\ Op("kernel", c, {<<"h_end", c>>} \cup Earlier("d_end", c), "k_end").record = "k_end"
        /\ Op("kernel", c, {<<"h_end", c>>} \cup Earlier("d_end", c), "k_end").chunk = c
    BY DEF Op
  <2>3. /\ Op("copy_out", c, {<<"k_end", c>>}, "d_end").record = "d_end"
        /\ Op("copy_out", c, {<<"k_end", c>>}, "d_end").chunk = c
    BY DEF Op
  <2>4. QED
    BY <1>1, <2>1, <2>2, <2>3, OverlappedOps
<1>6. ASSUME NEW s \in Stream
      PROVE  queue'[s] = IF s[1] = pipe /\ s[2] \in Lanes THEN Append(queue[s], OpAt(s[2], c)) ELSE queue[s]
  <2>1. queue'[s] = IF s[1] = pipe /\ s[2] \in DOMAIN ops THEN queue[s] \o ops[s[2]] ELSE queue[s]
    BY <1>2 DEF Enqueue
  <2>2. queue[s] \in Seq(Operation)
    BY DEF PassTypeOK
  <2>3. ASSUME NEW t \in {"in", "comp", "out"}
        PROVE  queue[s] \o ops[t] = Append(queue[s], OpAt(t, c))
    <3>1. OpAt(t, c) \in Operation
      BY <1>1, <1>3, OpAtType
    <3>2. ops[t] = <<OpAt(t, c)>>
      BY <1>4
    <3>3. QED
      BY <2>2, <3>1, <3>2
  <2>4. QED
    BY <1>3, <2>1, <2>3
<1>7. ASSUME NEW m \in Marker
      PROVE  recorded'[m] = IF m[1] = pipe /\ m[3] = c
                THEN LET s == <<pipe, IF m[2] = "h_end" THEN "in" ELSE IF m[2] = "k_end" THEN "comp" ELSE "out">>
                     IN  finished[s] + Len(queue[s]) + 1
                ELSE recorded[m]
  <2>1. PICK maker : maker = {t \in DOMAIN ops : m[1] = pipe /\ Last(ops[t]).record = m[2] /\ Last(ops[t]).chunk = m[3]}
    OBVIOUS
  <2>2. recorded'[m] = IF maker = {} THEN recorded[m]
                       ELSE LET s == <<pipe, CHOOSE t \in maker : TRUE>>
                            IN  finished[s] + Len(queue[s]) + Len(ops[s[2]])
    BY <1>2, <2>1 DEF Enqueue
  <2>3. m[2] \in {"h_end", "k_end", "d_end"}
    BY DEF Marker
  <2>4. CASE m[1] = pipe /\ m[3] = c
    <3>1. PICK t0 : t0 = IF m[2] = "h_end" THEN "in" ELSE IF m[2] = "k_end" THEN "comp" ELSE "out"
      OBVIOUS
    <3>2. t0 \in {"in", "comp", "out"}
      BY <3>1
    <3>3. \A t \in {"in", "comp", "out"} : OpAt(t, c).record = m[2] <=> t = t0
      BY <1>5, <2>3, <3>1
    <3>4. \A t \in {"in", "comp", "out"} : OpAt(t, c).chunk = c
      BY <1>5
    <3>5. maker = {t0}
      BY <1>3, <1>4, <2>1, <2>4, <3>2, <3>3, <3>4
    <3>6. (CHOOSE t \in maker : TRUE) = t0
      BY <3>5
    <3>7. recorded'[m] = finished[<<pipe, t0>>] + Len(queue[<<pipe, t0>>]) + Len(ops[t0])
      BY <2>2, <3>5, <3>6
    <3>8. QED
      BY <1>4, <2>4, <3>1, <3>2, <3>7
  <2>5. CASE ~(m[1] = pipe /\ m[3] = c)
    <3>1. \A t \in {"in", "comp", "out"} : Last(ops[t]).chunk = c
      BY <1>4, <1>5
    <3>2. maker = {}
      BY <1>3, <2>1, <2>5, <3>1
    <3>3. QED
      BY <2>2, <2>5, <3>2
  <2>6. QED
    BY <2>4, <2>5
<1>8. QED
  BY <1>6, <1>7

\* The same for a pass that only copies in: no event is recorded.
LEMMA EnqueuedH2d ==
  ASSUME PassTypeOK, pass.kind = "h2d", NEW pipe \in Pipe, NEW c \in Chunk, Enqueue(pipe, IssueOps(c))
  PROVE  /\ \A s \in Stream : queue'[s] = IF s[1] = pipe /\ s[2] \in Lanes
                                            THEN Append(queue[s], OpAt(s[2], c)) ELSE queue[s]
         /\ \A m \in Marker : recorded'[m] = recorded[m]
<1>1. c \in Nat
  BY SizesAssumption DEF Chunk
<1>2. PICK ops : ops = IssueOps(c)
  OBVIOUS
<1>3. DOMAIN ops = {"in"} /\ Lanes = {"in"} /\ ops["in"] = <<OpAt("in", c)>>
  <2>1. ops = [in |-> <<OpAt("in", c)>>] /\ Lanes = {"in"}
    BY <1>1, <1>2, H2dOps
  <2>2. QED
    BY <2>1
<1>4. OpAt("in", c).record = "none" /\ Last(ops["in"]) = OpAt("in", c)
  <2>1. Op("copy_in", c, {}, "none").record = "none"
    BY DEF Op
  <2>2. QED
    BY <1>1, <1>3, <2>1, H2dOps DEF Last
<1>5. ASSUME NEW s \in Stream
      PROVE  queue'[s] = IF s[1] = pipe /\ s[2] \in Lanes THEN Append(queue[s], OpAt(s[2], c)) ELSE queue[s]
  <2>1. queue'[s] = IF s[1] = pipe /\ s[2] \in DOMAIN ops THEN queue[s] \o ops[s[2]] ELSE queue[s]
    BY <1>2 DEF Enqueue
  <2>2. queue[s] \in Seq(Operation)
    BY DEF PassTypeOK
  <2>3. OpAt("in", c) \in Operation
    BY <1>1, <1>3, OpAtType
  <2>4. queue[s] \o ops["in"] = Append(queue[s], OpAt("in", c))
    BY <1>3, <2>2, <2>3
  <2>5. QED
    BY <1>3, <2>1, <2>4
<1>6. ASSUME NEW m \in Marker
      PROVE  recorded'[m] = recorded[m]
  <2>1. PICK maker : maker = {t \in DOMAIN ops : m[1] = pipe /\ Last(ops[t]).record = m[2] /\ Last(ops[t]).chunk = m[3]}
    OBVIOUS
  <2>2. recorded'[m] = IF maker = {} THEN recorded[m]
                       ELSE LET s == <<pipe, CHOOSE t \in maker : TRUE>>
                            IN  finished[s] + Len(queue[s]) + Len(ops[s[2]])
    BY <1>2, <2>1 DEF Enqueue
  <2>3. m[2] \in {"h_end", "k_end", "d_end"}
    BY DEF Marker
  <2>4. maker = {}
    BY <1>3, <1>4, <2>1, <2>3
  <2>5. QED
    BY <2>2, <2>4
<1>7. QED
  BY <1>5, <1>6

\* The same for a serial pass: three operations behind one another, no event.
LEMMA EnqueuedSerial ==
  ASSUME PassTypeOK, pass.kind = "serial", NEW pipe \in Pipe, NEW c \in Chunk, Enqueue(pipe, IssueOps(c))
  PROVE  /\ \A s \in Stream : queue'[s] = IF s[1] = pipe /\ s[2] \in Lanes
              THEN queue[s] \o <<OpAt("serial", 3 * c), OpAt("serial", 3 * c + 1), OpAt("serial", 3 * c + 2)>>
              ELSE queue[s]
         /\ \A m \in Marker : recorded'[m] = recorded[m]
<1>1. c \in Nat
  BY SizesAssumption DEF Chunk
<1>2. PICK ops : ops = IssueOps(c)
  OBVIOUS
<1>3. PICK three : three = <<OpAt("serial", 3 * c), OpAt("serial", 3 * c + 1), OpAt("serial", 3 * c + 2)>>
  OBVIOUS
<1>4. DOMAIN ops = {"serial"} /\ Lanes = {"serial"} /\ ops["serial"] = three
  <2>1. ops = [serial |-> three] /\ Lanes = {"serial"}
    BY <1>1, <1>2, <1>3, SerialOps
  <2>2. QED
    BY <2>1
<1>5. Last(three).record = "none"
  <2>1. Op("copy_out", c, {}, "none").record = "none"
    BY DEF Op
  <2>2. Last(three) = OpAt("serial", 3 * c + 2)
    BY <1>3 DEF Last
  <2>3. QED
    BY <1>1, <2>1, <2>2, SerialOps
<1>6. ASSUME NEW s \in Stream
      PROVE  queue'[s] = IF s[1] = pipe /\ s[2] \in Lanes THEN queue[s] \o three ELSE queue[s]
  <2>1. queue'[s] = IF s[1] = pipe /\ s[2] \in DOMAIN ops THEN queue[s] \o ops[s[2]] ELSE queue[s]
    BY <1>2 DEF Enqueue
  <2>2. QED
    BY <1>4, <2>1
<1>7. ASSUME NEW m \in Marker
      PROVE  recorded'[m] = recorded[m]
  <2>1. PICK maker : maker = {t \in DOMAIN ops : m[1] = pipe /\ Last(ops[t]).record = m[2] /\ Last(ops[t]).chunk = m[3]}
    OBVIOUS
  <2>2. recorded'[m] = IF maker = {} THEN recorded[m]
                       ELSE LET s == <<pipe, CHOOSE t \in maker : TRUE>>
                            IN  finished[s] + Len(queue[s]) + Len(ops[s[2]])
    BY <1>2, <2>1 DEF Enqueue
  <2>3. m[2] \in {"h_end", "k_end", "d_end"}
    BY DEF Marker
  <2>4. maker = {}
    BY <1>4, <1>5, <2>1, <2>3
  <2>5. QED
    BY <2>2, <2>4
<1>8. QED
  BY <1>3, <1>6, <1>7

\* The operations of a pass are the same as long as pass and encodings are.
LEMMA SameOps ==
  ASSUME pass' = pass, encoded' = encoded, NEW t, NEW m
  PROVE  OpAt(t, m)' = OpAt(t, m) /\ Plan(m)' = Plan(m)
<1>1. \A c : Plan(c)' = Plan(c)
  BY DEF Plan
<1>2. \A what, c, after, record : Op(what, c, after, record)' = Op(what, c, after, record)
  BY <1>1 DEF Op
<1>3. \A c : IssueSerial(c)' = IssueSerial(c)
  BY <1>2 DEF IssueSerial
<1>4. \A c : IssueOverlapped(c)' = IssueOverlapped(c)
  BY <1>2 DEF IssueOverlapped, Earlier
<1>5. \A c : IssueH2d(c)' = IssueH2d(c)
  BY <1>2 DEF IssueH2d
<1>6. QED
  BY <1>1, <1>3, <1>4, <1>5 DEF OpAt

\* The operations q of a stream are those of f from the n-th on.
FollowsFrom(q, f, n) == q \in Seq(Operation) /\ \A i \in 1..Len(q) : q[i] = f[n + i - 1]

\* An operation enqueued behind those of a stream is the next of its pass.
LEMMA QueueGrows ==
  ASSUME NEW q, NEW o \in Operation, NEW n \in Nat, NEW f, FollowsFrom(q, f, n), o = f[n + Len(q)]
  PROVE  /\ FollowsFrom(Append(q, o), f, n)
         /\ Len(Append(q, o)) = Len(q) + 1 /\ Append(q, o) # <<>>
<1>1. PICK q2 : q2 = Append(q, o)
  OBVIOUS
<1>2. q \in Seq(Operation) /\ \A i \in 1..Len(q) : q[i] = f[n + i - 1]
  BY DEF FollowsFrom
<1>3. q2 \in Seq(Operation) /\ Len(q2) = Len(q) + 1 /\ q2 # <<>>
  BY <1>1, <1>2
<1>4. ASSUME NEW i \in 1..Len(q2)
      PROVE  q2[i] = f[n + i - 1]
  <2>1. CASE i \in 1..Len(q)
    BY <1>1, <1>2, <2>1
  <2>2. CASE i = Len(q) + 1
    <3>1. n + i - 1 = n + Len(q) /\ q2[i] = o
      BY <1>1, <1>2, <2>2
    <3>2. QED
      BY <3>1
  <2>3. QED
    BY <1>2, <1>3, <2>1, <2>2
<1>5. QED
  BY <1>1, <1>3, <1>4 DEF FollowsFrom

\* The queues after a chunk is enqueued.
LEMMA IssueQueues ==
  ASSUME PassTypeOK, HostFollows, QueuesFollow, NEW pipe \in Pipe, NEW c \in Chunk, Enqueue(pipe, IssueOps(c)),
         UNCHANGED <<pass, encoded, finished>>,
         Issued(pipe) = c, Issued(pipe)' = c + 1, \A p \in Pipe : p # pipe => Issued(p)' = Issued(p),
         NEW s \in Stream
  PROVE  /\ queue'[s] \in Seq(Operation)
         /\ finished'[s] + Len(queue'[s]) = IssuedTo(s)'
         /\ \A i \in 1..Len(queue'[s]) : queue'[s][i] = OpAt(s[2], finished[s] + i - 1)'
         /\ queue[s] # <<>> => queue'[s] # <<>>
<1>1. c \in Nat /\ Lanes' = Lanes /\ s[1] \in Pipe /\ finished'[s] = finished[s] /\ pass' = pass
  BY SizesAssumption DEF Chunk, Lanes, Stream
<1>2. PICK n \in Nat, q \in Seq(Operation) : n = finished[s] /\ q = queue[s]
  BY DEF PassTypeOK
<1>3. /\ n + Len(q) = IssuedTo(s)
      /\ \A i \in 1..Len(q) : q[i] = OpAt(s[2], n + i - 1)
  BY <1>2 DEF QueuesFollow
<1>4. PICK f : f = [k \in Nat |-> OpAt(s[2], k)]
  OBVIOUS
<1>5. \A k \in Nat : f[k] = OpAt(s[2], k) /\ OpAt(s[2], k)' = OpAt(s[2], k)
  BY <1>4, SameOps
<1>6. \A i \in 1..Len(q) : q[i] = f[n + i - 1]
  BY <1>2, <1>3, <1>5
<1>7. SUFFICES /\ queue'[s] \in Seq(Operation)
               /\ n + Len(queue'[s]) = IssuedTo(s)'
               /\ \A i \in 1..Len(queue'[s]) : queue'[s][i] = f[n + i - 1]
               /\ q # <<>> => queue'[s] # <<>>
  <2>1. ASSUME NEW i \in 1..Len(queue'[s]), queue'[s] \in Seq(Operation)
        PROVE  OpAt(s[2], finished[s] + i - 1)' = f[n + i - 1]
    <3>1. n + i - 1 \in Nat
      BY <2>1
    <3>2. finished'[s] + i - 1 = n + i - 1
      BY <1>1, <1>2
    <3>3. OpAt(s[2], finished[s] + i - 1)' = OpAt(s[2], n + i - 1)'
      BY <3>2
    <3>4. QED
      BY <1>5, <3>1, <3>3
  <2>2. QED
    BY <1>1, <1>2, <2>1
<1>8. CASE s[1] = pipe /\ s[2] \in Lanes /\ pass.kind # "serial"
  <2>1. IssuedTo(s) = c /\ IssuedTo(s)' = c + 1
    BY <1>1, <1>8 DEF IssuedTo
  <2>2. queue'[s] = Append(q, OpAt(s[2], c))
    BY <1>2, <1>8, EnqueuedOverlapped, EnqueuedH2d DEF PassTypeOK, Kinds
  <2>3. OpAt(s[2], c) \in Operation /\ OpAt(s[2], c) = f[n + Len(q)]
    BY <1>1, <1>3, <1>5, <1>8, <2>1, OpAtType
  <2>4. FollowsFrom(queue'[s], f, n) /\ Len(queue'[s]) = Len(q) + 1 /\ queue'[s] # <<>>
    <3>1. PICK o \in Operation : o = OpAt(s[2], c)
      BY <2>3
    <3>2. FollowsFrom(q, f, n) /\ o = f[n + Len(q)]
      BY <1>2, <1>6, <2>3, <3>1 DEF FollowsFrom
    <3>3. FollowsFrom(Append(q, o), f, n) /\ Len(Append(q, o)) = Len(q) + 1 /\ Append(q, o) # <<>>
      BY <1>2, <3>2, QueueGrows
    <3>4. QED
      BY <2>2, <3>1, <3>3
  <2>5. IssuedTo(s)' = n + (Len(q) + 1)
    BY <1>1, <1>2, <1>3, <2>1
  <2>6. QED
    BY <2>4, <2>5 DEF FollowsFrom
<1>9. CASE s[1] = pipe /\ s[2] \in Lanes /\ pass.kind = "serial"
  <2>1. IssuedTo(s) = 3 * c /\ IssuedTo(s)' = 3 * (c + 1)
    BY <1>1, <1>9 DEF IssuedTo
  <2>2. PICK o1, o2, o3 : o1 = OpAt("serial", 3 * c) /\ o2 = OpAt("serial", 3 * c + 1) /\ o3 = OpAt("serial", 3 * c + 2)
    OBVIOUS
  <2>3. s[2] = "serial"
    BY <1>9 DEF Lanes
  <2>4. queue'[s] = q \o <<o1, o2, o3>>
    BY <1>2, <1>9, <2>2, EnqueuedSerial
  <2>5. 3 * c \in Nat /\ 3 * c + 1 \in Nat /\ 3 * c + 2 \in Nat
    BY <1>1
  <2>6. o1 \in Operation /\ o2 \in Operation /\ o3 \in Operation
    BY <1>9, <2>2, <2>3, <2>5, OpAtType
  <2>7. PICK qa, qb : qa = Append(q, o1) /\ qb = Append(qa, o2)
    OBVIOUS
  <2>8. o1 = f[n + Len(q)]
    BY <1>3, <1>5, <2>1, <2>2, <2>3, <2>5
  <2>9. FollowsFrom(qa, f, n) /\ Len(qa) = Len(q) + 1
    <3>1. FollowsFrom(q, f, n)
      BY <1>2, <1>6 DEF FollowsFrom
    <3>2. FollowsFrom(Append(q, o1), f, n) /\ Len(Append(q, o1)) = Len(q) + 1
      BY <1>2, <2>6, <2>8, <3>1, QueueGrows
    <3>3. QED
      BY <2>7, <3>2
  <2>10. n + Len(qa) = 3 * c + 1
    <3>1. Len(q) \in Nat /\ n \in Nat /\ 3 * c \in Nat /\ n + Len(q) = 3 * c
      BY <1>2, <1>3, <2>1, <2>5
    <3>2. QED
      BY ONLY <2>9, <3>1
  <2>11. o2 = f[n + Len(qa)]
    BY <1>5, <2>2, <2>3, <2>5, <2>10
  <2>12. FollowsFrom(qb, f, n) /\ Len(qb) = Len(qa) + 1
    <3>1. FollowsFrom(Append(qa, o2), f, n) /\ Len(Append(qa, o2)) = Len(qa) + 1
      BY <1>2, <2>6, <2>9, <2>11, QueueGrows
    <3>2. QED
      BY <2>7, <3>1
  <2>13. n + Len(qb) = 3 * c + 2
    <3>1. Len(qa) \in Nat /\ n \in Nat /\ 3 * c \in Nat
      BY <1>2, <2>5, <2>9
    <3>2. QED
      BY ONLY <2>10, <2>12, <3>1
  <2>14. o3 = f[n + Len(qb)]
    BY <1>5, <2>2, <2>3, <2>5, <2>13
  <2>15. queue'[s] = Append(qb, o3)
    BY <1>2, <2>4, <2>6, <2>7
  <2>16. FollowsFrom(queue'[s], f, n) /\ Len(queue'[s]) = Len(qb) + 1 /\ queue'[s] # <<>>
    <3>1. /\ FollowsFrom(Append(qb, o3), f, n)
          /\ Len(Append(qb, o3)) = Len(qb) + 1 /\ Append(qb, o3) # <<>>
      BY <1>2, <2>6, <2>12, <2>14, QueueGrows
    <3>2. QED
      BY <2>15, <3>1
  <2>17. n + Len(queue'[s]) = IssuedTo(s)'
    <3>1. Len(qb) \in Nat /\ n \in Nat /\ c \in Nat
      BY <1>1, <1>2, <2>9, <2>12
    <3>2. n + (Len(qb) + 1) = 3 * (c + 1)
      BY ONLY <2>13, <3>1
    <3>3. QED
      BY <2>1, <2>16, <3>2
  <2>18. QED
    BY <2>16, <2>17 DEF FollowsFrom
<1>10. CASE ~(s[1] = pipe /\ s[2] \in Lanes)
  <2>1. IssuedTo(s)' = IssuedTo(s)
    BY <1>1, <1>10 DEF IssuedTo
  <2>2. queue'[s] = q
    BY <1>2, <1>10, EnqueuedOverlapped, EnqueuedH2d, EnqueuedSerial DEF PassTypeOK, Kinds
  <2>3. QED
    BY <1>3, <1>6, <2>1, <2>2
<1>11. QED
  BY <1>8, <1>9, <1>10

\* A chunk is enqueued.
LEMMA IssueKeeps ==
  ASSUME PassInv, Issue
  PROVE  PassInv'
<1>1. /\ PassTypeOK /\ HostFollows /\ QueuesFollow /\ EventsFollow /\ StreamsOrdered
      /\ OverlappedData /\ SerialData /\ CapacityEnough
      /\ UNCHANGED <<pass, waiting, encoded, capacity, finished, running, devIn, devOut, hostOut>>
  BY DEF PassInv, Issue
<1>2. waiting /\ toIssue' \in Seq(Pipe \X Chunk) /\ HostFollows'
  BY NextChunk
<1>3. PICK pipe \in Pipe, c \in Chunk :
              /\ Enqueue(pipe, IssueOps(c))
              /\ Issued(pipe) = c /\ Issued(pipe)' = c + 1
              /\ \A p \in Pipe : p # pipe => Issued(p)' = Issued(p)
  BY NextChunk
<1>4. \A s \in Stream :
         /\ queue'[s] \in Seq(Operation)
         /\ finished'[s] + Len(queue'[s]) = IssuedTo(s)'
         /\ \A i \in 1..Len(queue'[s]) : queue'[s][i] = OpAt(s[2], finished[s] + i - 1)'
         /\ queue[s] # <<>> => queue'[s] # <<>>
  BY <1>1, <1>3, IssueQueues
<1>5. QueuesFollow'
  <2>1. ASSUME NEW s \in Stream
        PROVE  /\ finished'[s] + Len(queue'[s]) = IssuedTo(s)'
               /\ \A i \in 1..Len(queue'[s]) : queue'[s][i] = OpAt(s[2], finished[s] + i - 1)'
               /\ s \in running' => queue'[s] # <<>>
    BY <1>1, <1>4 DEF QueuesFollow
  <2>2. QED
    BY <2>1, Zenon DEF QueuesFollow
<1>6. /\ c \in Nat
      /\ pass.kind = "overlapped" =>
           \A m \in Marker : recorded'[m] = IF m[1] = pipe /\ m[3] = c THEN c + 1 ELSE recorded[m]
      /\ pass.kind # "overlapped" => \A m \in Marker : recorded'[m] = recorded[m]
  <2>1. c \in Nat
    BY SizesAssumption DEF Chunk
  <2>2. ASSUME pass.kind = "overlapped", NEW m \in Marker
        PROVE  recorded'[m] = IF m[1] = pipe /\ m[3] = c THEN c + 1 ELSE recorded[m]
    <3>1. PICK t : t = IF m[2] = "h_end" THEN "in" ELSE IF m[2] = "k_end" THEN "comp" ELSE "out"
      OBVIOUS
    <3>2. recorded'[m] = IF m[1] = pipe /\ m[3] = c THEN finished[<<pipe, t>>] + Len(queue[<<pipe, t>>]) + 1 ELSE recorded[m]
      BY <1>1, <1>3, <2>2, <3>1, EnqueuedOverlapped
    <3>3. t \in {"in", "comp", "out"}
      BY <3>1
    <3>4. <<pipe, t>> \in Stream /\ IssuedTo(<<pipe, t>>) = c
      BY <1>3, <2>2, <3>3 DEF Stream, IssuedTo, Lanes
    <3>5. finished[<<pipe, t>>] + Len(queue[<<pipe, t>>]) = c
      BY <1>1, <3>4 DEF QueuesFollow
    <3>6. QED
      BY <3>2, <3>5
  <2>3. pass.kind # "overlapped" => \A m \in Marker : recorded'[m] = recorded[m]
    BY <1>1, <1>3, EnqueuedH2d, EnqueuedSerial DEF PassTypeOK, Kinds
  <2>4. QED
    BY <2>1, <2>2, <2>3
<1>7. EventsFollow'
  <2>1. SUFFICES ASSUME NEW p \in Pipe, NEW e \in {"h_end", "k_end", "d_end"}, NEW d \in Chunk
                 PROVE  recorded'[<<p, e, d>>] = IF pass'.kind = "overlapped" /\ d < Issued(p)' THEN d + 1 ELSE 0
    BY DEF EventsFollow
  <2>2. PICK m \in Marker : m = <<p, e, d>> /\ m[1] = p /\ m[3] = d
    <3>1. <<p, e, d>> \in Marker
      BY DEF Marker
    <3>2. QED
      BY <3>1
  <2>3. recorded[m] = IF pass.kind = "overlapped" /\ d < Issued(p) THEN d + 1 ELSE 0
    BY <1>1, <2>2 DEF EventsFollow
  <2>4. d \in Nat /\ Issued(p) \in Nat /\ pass' = pass
    BY <1>1, IssuedType, SizesAssumption DEF Chunk
  <2>5. CASE pass.kind = "overlapped" /\ p = pipe /\ d = c
    BY <1>3, <1>6, <2>2, <2>4, <2>5
  <2>6. CASE pass.kind = "overlapped" /\ p = pipe /\ d # c
    <3>1. d < Issued(p) <=> d < Issued(p)'
      BY <1>3, <1>6, <2>4, <2>6
    <3>2. QED
      BY <1>6, <2>2, <2>3, <2>4, <2>6, <3>1
  <2>7. CASE pass.kind = "overlapped" /\ p # pipe
    BY <1>3, <1>6, <2>2, <2>3, <2>4, <2>7
  <2>8. CASE pass.kind # "overlapped"
    BY <1>6, <2>2, <2>3, <2>4, <2>8
  <2>9. QED
    BY <2>5, <2>6, <2>7, <2>8
<1>8. PassTypeOK'
  <2>1. queue' \in [Stream -> Seq(Operation)]
    <3>1. queue' = [s \in Stream |-> queue'[s]]
      BY <1>3 DEF Enqueue
    <3>2. QED
      BY <1>4, <3>1
  <2>2. recorded' \in [Marker -> Nat]
    <3>1. recorded' = [m \in Marker |-> recorded'[m]]
      BY <1>3 DEF Enqueue
    <3>2. \A m \in Marker : recorded'[m] \in Nat
      BY <1>1, <1>6 DEF PassTypeOK
    <3>3. QED
      BY <3>1, <3>2
  <2>3. QED
    BY <1>1, <1>2, <2>1, <2>2 DEF PassTypeOK
<1>9. StreamsOrdered'
  BY <1>1 DEF StreamsOrdered
<1>10. \A d : Sent(d)' = Sent(d) /\ Done(d)' = Done(d)
  BY <1>1, SameOps DEF Sent, Done
<1>11. OverlappedData'
  BY <1>1, <1>10 DEF OverlappedData
<1>12. SerialData'
  BY <1>1, <1>10 DEF SerialData
<1>13. CapacityEnough'
  BY <1>1 DEF CapacityEnough
<1>14. OutputsOfThisPass'
  BY <1>1, <1>2 DEF OutputsOfThisPass
<1>15. QED
  BY <1>2, <1>5, <1>7, <1>8, <1>9, <1>11, <1>12, <1>13, <1>14 DEF PassInv

\* The pass is over: every operation is finished, so every block is there.
LEMMA SyncKeeps ==
  ASSUME PassInv, Sync
  PROVE  PassInv'
<1>1. /\ PassTypeOK /\ HostFollows /\ QueuesFollow /\ OverlappedData /\ SerialData /\ CapacityEnough
      /\ waiting /\ toIssue = <<>> /\ waiting' = FALSE
      /\ \A s \in Stream : queue[s] = <<>>
      /\ finished' = [s \in Stream |-> 0] /\ recorded' = [m \in Marker |-> 0]
      /\ UNCHANGED <<pass, toIssue, encoded, capacity, queue, running, devIn, devOut, hostOut>>
  BY DEF PassInv, Sync, Synchronised
<1>2. running' = {}
  BY <1>1 DEF QueuesFollow, PassTypeOK
<1>3. /\ \A s \in Stream : queue'[s] = <<>> /\ finished'[s] = 0
      /\ \A m \in Marker : recorded'[m] = 0
  BY <1>1
<1>4. PassTypeOK'
  <2>1. finished' \in [Stream -> Nat] /\ recorded' \in [Marker -> Nat]
    BY <1>1
  <2>2. QED
    BY <1>1, <2>1 DEF PassTypeOK
<1>5. HostFollows'
  BY <1>1 DEF HostFollows
<1>6. \A p \in Pipe : Issued(p)' = 0
  BY <1>1 DEF Issued
<1>7. CapacityEnough'
  BY <1>1 DEF CapacityEnough
<1>8. \A s \in Stream : finished[s] = IssuedTo(s)
  BY <1>1 DEF QueuesFollow, PassTypeOK
<1>9. K \in Nat /\ K - Len(toIssue) = K
  BY <1>1, SizesAssumption
<1>10. OutputsOfThisPass'
  <2>1. SUFFICES ASSUME pass.kind # "h2d", NEW i \in 1..K
                 PROVE  hostOut[Order(pass.cards)[i]] = Done(Order(pass.cards)[i][2])
    <3>1. DOMAIN Order(pass.cards) = 1..K
      BY <1>1, <1>9, OrderType DEF PassTypeOK
    <3>2. pass' = pass /\ hostOut' = hostOut
      BY <1>1
    <3>3. ASSUME pass.kind # "h2d", NEW i \in DOMAIN Order(pass.cards)
          PROVE  hostOut[Order(pass.cards)[i]] =
                   [number |-> pass.number, chunk |-> Order(pass.cards)[i][2], encoding |-> "features"]
      BY <2>1, <3>1, <3>3 DEF Done
    <3>4. QED
      BY <3>2, <3>3 DEF OutputsOfThisPass, Order
  <2>2. \A j \in 1..K : Order(pass.cards)[j] = IF pass.cards = 2 THEN <<((j - 1) % 2) + 1, (j - 1) \div 2>> ELSE <<0, j - 1>>
    BY <1>1, OrderType DEF PassTypeOK
  <2>3. PICK p \in Pipe, c \in Chunk : Order(pass.cards)[i] = <<p, c>> /\ c < Issued(p) /\ c \in Nat
    <3>1. CASE pass.cards = 2
      <4>1. PICK j \in 0..K-1 : j = i - 1
        BY <1>9
      <4>2. Order(pass.cards)[i] = <<(j % 2) + 1, j \div 2>>
        BY <2>2, <3>1, <4>1
      <4>3. K % 2 = 0
        BY <1>1, <3>1 DEF HostFollows
      <4>4. Issued(1) = (K + 1) \div 2 /\ Issued(2) = K \div 2
        BY <1>1, <1>9, <3>1 DEF Issued
      <4>5. (j \div 2) < (K + 1) \div 2 /\ (j \div 2) < K \div 2 /\ j \div 2 \in 0..K-1
        BY <1>9, <4>3
      <4>6. CASE j % 2 = 0
        <5>1. Order(pass.cards)[i] = <<1, j \div 2>>
          BY <4>2, <4>6
        <5>2. QED
          BY <4>4, <4>5, <5>1 DEF Pipe, Chunk
      <4>7. CASE j % 2 # 0
        <5>1. j % 2 = 1
          BY <4>7
        <5>2. Order(pass.cards)[i] = <<2, j \div 2>>
          BY <4>2, <5>1
        <5>3. QED
          BY <4>4, <4>5, <5>2 DEF Pipe, Chunk
      <4>8. QED
        BY <4>6, <4>7
    <3>2. CASE pass.cards # 2
      <4>1. pass.cards = 1
        BY <1>1, <3>2 DEF PassTypeOK
      <4>2. Issued(0) = K
        BY <1>1, <1>9, <4>1 DEF Issued
      <4>3. Order(pass.cards)[i] = <<0, i - 1>>
        BY <2>2, <4>1
      <4>4. i - 1 \in 0..K-1 /\ 0 \in Pipe
        BY <1>9 DEF Pipe
      <4>5. QED
        <5>1. PICK j \in Chunk : j = i - 1
          BY <4>4 DEF Chunk
        <5>2. j \in Nat /\ j < K
          BY <1>9, <5>1 DEF Chunk
        <5>3. QED
          BY <4>2, <4>3, <4>4, <5>1, <5>2
    <3>3. QED
      BY <3>1, <3>2
  <2>4. CASE pass.kind = "overlapped"
    <3>1. <<p, "out">> \in Stream /\ IssuedTo(<<p, "out">>) = Issued(p)
      BY <2>4 DEF IssuedTo, Lanes, Stream
    <3>2. c < finished[<<p, "out">>]
      BY <1>8, <2>3, <3>1
    <3>3. hostOut[<<p, c>>] = Done(c)
      BY <1>1, <2>4, <3>2 DEF OverlappedData
    <3>4. QED
      BY <2>3, <3>3
  <2>5. CASE pass.kind = "serial"
    <3>1. p = 0
      <4>1. pass.cards = 1
        BY <1>1, <2>5 DEF HostFollows, PassTypeOK
      <4>2. p # 0 => Issued(p) = 0
        BY <1>1, <4>1, IssuedType
      <4>3. QED
        BY <2>3, <4>2
    <3>2. <<0, "serial">> \in Stream /\ IssuedTo(<<0, "serial">>) = 3 * Issued(0)
      BY <2>5 DEF IssuedTo, Lanes, Stream, Pipe
    <3>3. Issued(0) \in Nat
      BY <1>1, <1>9, <3>1, IssuedType
    <3>4. finished[<<0, "serial">>] >= 3 * c + 3
      BY <1>8, <2>3, <3>1, <3>2, <3>3
    <3>5. hostOut[<<0, c>>] = Done(c)
      BY <1>1, <2>5, <3>4 DEF SerialData
    <3>6. QED
      BY <2>3, <3>1, <3>5
  <2>6. QED
    BY <1>1, <2>1, <2>4, <2>5 DEF PassTypeOK, Kinds
<1>11. QED
  BY <1>2, <1>3, <1>4, <1>5, <1>6, <1>7, <1>10, NothingIssued

-----------------------------------------------------------------------------
(* The cards.                                                              *)

\* The first operation of a stream of an overlapped pass.
LEMMA OverlappedFirst ==
  ASSUME PassInv, pass.kind = "overlapped", NEW s \in Stream, queue[s] # <<>>
  PROVE  LET o == Head(queue[s])
             n == finished[s]
         IN  /\ n \in Chunk /\ n \in Nat /\ n < Issued(s[1]) /\ s[1] \in Pipe
             /\ s = <<s[1], "in">> \/ s = <<s[1], "comp">> \/ s = <<s[1], "out">>
             /\ o \in Operation /\ o.chunk = n /\ o.buffer = n % Buffers /\ o.encoding = Plan(n)
             /\ s[2] = "in" => o.what = "copy_in" /\ o.after = Earlier("k_end", n)
             /\ s[2] = "comp" => o.what = "kernel" /\ o.after = {<<"h_end", n>>} \cup Earlier("d_end", n)
             /\ s[2] = "out" => o.what = "copy_out" /\ o.after = {<<"k_end", n>>}
<1>1. PassTypeOK /\ HostFollows /\ QueuesFollow
  BY DEF PassInv
<1>2. PICK o, n : o = Head(queue[s]) /\ n = finished[s]
  OBVIOUS
<1>3. /\ o = OpAt(s[2], n) /\ o \in Operation /\ s[2] \in {"in", "comp", "out"} /\ s[1] \in Pipe
      /\ n \in Nat /\ n < Issued(s[1])
  BY <1>1, <1>2, FirstOperation DEF Lanes, IssuedTo
<1>4. n \in Chunk
  BY <1>1, <1>3, IssuedType, SizesAssumption DEF Chunk
<1>5. s = <<s[1], s[2]>>
  BY DEF Stream
<1>6. CASE s[2] = "in"
  <2>1. o = Op("copy_in", n, Earlier("k_end", n), "h_end")
    BY <1>3, <1>6, OverlappedOps
  <2>2. /\ o.what = "copy_in" /\ o.after = Earlier("k_end", n)
        /\ o.chunk = n /\ o.buffer = n % Buffers /\ o.encoding = Plan(n)
    BY <2>1 DEF Op
  <2>3. QED
    BY <1>2, <1>3, <1>4, <1>5, <1>6, <2>2
<1>7. CASE s[2] = "comp"
  <2>1. o = Op("kernel", n, {<<"h_end", n>>} \cup Earlier("d_end", n), "k_end")
    BY <1>3, <1>7, OverlappedOps
  <2>2. /\ o.what = "kernel" /\ o.after = {<<"h_end", n>>} \cup Earlier("d_end", n)
        /\ o.chunk = n /\ o.buffer = n % Buffers /\ o.encoding = Plan(n)
    BY <2>1 DEF Op
  <2>3. QED
    BY <1>2, <1>3, <1>4, <1>5, <1>7, <2>2
<1>8. CASE s[2] = "out"
  <2>1. o = Op("copy_out", n, {<<"k_end", n>>}, "d_end")
    BY <1>3, <1>8, OverlappedOps
  <2>2. /\ o.what = "copy_out" /\ o.after = {<<"k_end", n>>}
        /\ o.chunk = n /\ o.buffer = n % Buffers /\ o.encoding = Plan(n)
    BY <2>1 DEF Op
  <2>3. QED
    BY <1>2, <1>3, <1>4, <1>5, <1>8, <2>2
<1>9. QED
  BY <1>3, <1>6, <1>7, <1>8

\* The first operation of the stream of a serial pass.
LEMMA SerialFirst ==
  ASSUME PassInv, pass.kind = "serial", NEW s \in Stream, queue[s] # <<>>
  PROVE  LET o == Head(queue[s])
             n == finished[s]
         IN  /\ s = <<0, "serial">> /\ n \in Nat /\ o \in Operation /\ o.buffer = 0
             /\ \E c \in Chunk :
                  /\ o.chunk = c /\ o.encoding = Plan(c)
                  /\ \/ n = 3 * c /\ o.what = "copy_in"
                     \/ n = 3 * c + 1 /\ o.what = "kernel"
                     \/ n = 3 * c + 2 /\ o.what = "copy_out"
<1>1. PassTypeOK /\ HostFollows /\ QueuesFollow
  BY DEF PassInv
<1>2. PICK o, n : o = Head(queue[s]) /\ n = finished[s]
  OBVIOUS
<1>3. pass.cards = 1
  BY <1>1 DEF HostFollows, PassTypeOK
<1>4. /\ o = OpAt(s[2], n) /\ o \in Operation /\ s[2] = "serial" /\ s[1] = 0
      /\ n \in Nat /\ n < 3 * Issued(s[1])
  BY <1>1, <1>2, <1>3, FirstOperation DEF Lanes, IssuedTo
<1>5. s = <<0, "serial">>
  BY <1>4 DEF Stream
<1>6. PICK c \in Nat : n = 3 * c \/ n = 3 * c + 1 \/ n = 3 * c + 2
  BY <1>4, Thirds
<1>7. c \in Chunk
  <2>1. Issued(0) \in 0..K /\ K \in Nat
    BY <1>1, IssuedType, SizesAssumption DEF Pipe
  <2>2. QED
    BY <1>4, <1>6, <2>1 DEF Chunk
<1>8. CASE n = 3 * c
  <2>1. o = Op("copy_in", c, {}, "none")
    BY <1>4, <1>8, SerialOps
  <2>2. o.what = "copy_in" /\ o.chunk = c /\ o.buffer = 0 /\ o.encoding = Plan(c)
    BY <2>1 DEF Op
  <2>3. QED
    BY <1>2, <1>4, <1>5, <1>7, <1>8, <2>2
<1>9. CASE n = 3 * c + 1
  <2>1. o = Op("kernel", c, {}, "none")
    BY <1>4, <1>9, SerialOps
  <2>2. o.what = "kernel" /\ o.chunk = c /\ o.buffer = 0 /\ o.encoding = Plan(c)
    BY <2>1 DEF Op
  <2>3. QED
    BY <1>2, <1>4, <1>5, <1>7, <1>9, <2>2
<1>10. CASE n = 3 * c + 2
  <2>1. o = Op("copy_out", c, {}, "none")
    BY <1>4, <1>10, SerialOps
  <2>2. o.what = "copy_out" /\ o.chunk = c /\ o.buffer = 0 /\ o.encoding = Plan(c)
    BY <2>1 DEF Op
  <2>3. QED
    BY <1>2, <1>4, <1>5, <1>7, <1>10, <2>2
<1>11. QED
  BY <1>6, <1>8, <1>9, <1>10

\* Whatever an operation is, what it writes are contents of buffers and blocks.
LEMMA StartType ==
  ASSUME PassInv, NEW s \in Stream, StartOp(s)
  PROVE  PassTypeOK'
<1>1. /\ PassTypeOK /\ s \in Stream /\ running' = running \cup {s}
      /\ UNCHANGED <<pass, toIssue, waiting, encoded, capacity, queue, finished, recorded>>
  BY DEF PassInv, StartOp
<1>2. Torn \in Content
  BY DEF Torn, Content
<1>3. /\ devIn' = devIn \/ \E x : devIn' = [devIn EXCEPT ![x] = Torn]
      /\ devOut' = devOut \/ \E x : devOut' = [devOut EXCEPT ![x] = Torn]
      /\ hostOut' = hostOut \/ \E x : hostOut' = [hostOut EXCEPT ![x] = Torn]
  BY DEF StartOp
<1>4. devIn' \in [Place -> Content] /\ devOut' \in [Place -> Content] /\ hostOut' \in [Pipe \X Chunk -> Content]
  <2>1. devIn \in [Place -> Content] /\ devOut \in [Place -> Content] /\ hostOut \in [Pipe \X Chunk -> Content]
    BY <1>1 DEF PassTypeOK
  <2>2. \A x : /\ [devIn EXCEPT ![x] = Torn] \in [Place -> Content]
               /\ [devOut EXCEPT ![x] = Torn] \in [Place -> Content]
               /\ [hostOut EXCEPT ![x] = Torn] \in [Pipe \X Chunk -> Content]
    BY <1>2, <2>1
  <2>3. QED
    BY <1>3, <2>1, <2>2
<1>5. QED
  BY <1>1, <1>4 DEF PassTypeOK

\* Writing a buffer of a pipeline leaves the others alone.
LEMMA WrittenPlace ==
  ASSUME NEW f \in [Place -> Content], NEW p \in Pipe, NEW q \in Pipe, NEW a \in Nat, NEW b \in Nat, NEW v
  PROVE  /\ [f EXCEPT ![<<p, a % Buffers>>] = v][<<p, a % Buffers>>] = v
         /\ q # p \/ b % Buffers # a % Buffers =>
              [f EXCEPT ![<<p, a % Buffers>>] = v][<<q, b % Buffers>>] = f[<<q, b % Buffers>>]
<1>1. <<p, a % Buffers>> \in Place /\ <<q, b % Buffers>> \in Place
  BY BufferOf DEF Place
<1>2. q # p \/ b % Buffers # a % Buffers => <<p, a % Buffers>> # <<q, b % Buffers>>
  OBVIOUS
<1>3. QED
  BY <1>1, <1>2

\* Writing the block of a chunk leaves the others alone.
LEMMA WrittenBlock ==
  ASSUME NEW f \in [Pipe \X Chunk -> Content], NEW p \in Pipe, NEW q \in Pipe, NEW a \in Chunk, NEW b \in Chunk, NEW v
  PROVE  /\ [f EXCEPT ![<<p, a>>] = v][<<p, a>>] = v
         /\ q # p \/ b # a => [f EXCEPT ![<<p, a>>] = v][<<q, b>>] = f[<<q, b>>]
OBVIOUS

\* A transfer or kernel begins in an overlapped pass.
LEMMA StartOverlapped ==
  ASSUME PassInv, NEW s \in Stream, StartOp(s), pass.kind = "overlapped"
  PROVE  StreamsOrdered' /\ OverlappedData'
<1>1. /\ PassTypeOK /\ HostFollows /\ EventsFollow /\ StreamsOrdered /\ OverlappedData
      /\ s \notin running /\ queue[s] # <<>> /\ running' = running \cup {s}
      /\ UNCHANGED <<pass, toIssue, waiting, encoded, capacity, queue, finished, recorded>>
      /\ pass' = pass /\ encoded' = encoded /\ finished' = finished
  BY DEF PassInv, StartOp
<1>2. PICK p, n, o : p = s[1] /\ n = finished[s] /\ o = Head(queue[s])
  OBVIOUS
<1>3. /\ n \in Chunk /\ n \in Nat /\ n < Issued(p) /\ p \in Pipe
      /\ s = <<p, "in">> \/ s = <<p, "comp">> \/ s = <<p, "out">>
      /\ o.chunk = n /\ o.buffer = n % Buffers
      /\ s[2] = "in" => o.what = "copy_in" /\ o.after = Earlier("k_end", n)
      /\ s[2] = "comp" => o.what = "kernel" /\ o.after = {<<"h_end", n>>} \cup Earlier("d_end", n)
      /\ s[2] = "out" => o.what = "copy_out" /\ o.after = {<<"k_end", n>>}
  BY <1>1, <1>2, OverlappedFirst
<1>4. /\ devIn' = IF o.what = "copy_in" THEN [devIn EXCEPT ![<<p, n % Buffers>>] = Torn] ELSE devIn
      /\ devOut' = IF o.what = "kernel" THEN [devOut EXCEPT ![<<p, n % Buffers>>] = Torn] ELSE devOut
      /\ hostOut' = IF o.what = "copy_out" THEN [hostOut EXCEPT ![<<p, n>>] = Torn] ELSE hostOut
      /\ \A w \in o.after : Reached(p, w[1], w[2])
  BY <1>2, <1>3 DEF StartOp
<1>5. Buffers \in Nat \ {0} /\ K \in Nat \ {0} /\ Issued(p) \in 0..K
  BY <1>1, <1>3, IssuedType, SizesAssumption
<1>6. \A q \in Pipe : /\ finished[<<q, "in">>] \in Nat /\ finished[<<q, "comp">>] \in Nat
                      /\ finished[<<q, "out">>] \in Nat
  BY <1>1 DEF PassTypeOK, Stream
<1>7. ASSUME NEW e \in {"h_end", "k_end", "d_end"}, NEW m \in Chunk, m <= n, Reached(p, e, m)
      PROVE  finished[<<p, IF e = "h_end" THEN "in" ELSE IF e = "k_end" THEN "comp" ELSE "out">>] > m
  <2>1. m \in Nat /\ m < Issued(p)
    BY <1>3, <1>5, <1>7 DEF Chunk
  <2>2. recorded[<<p, e, m>>] = m + 1
    BY <1>1, <1>3, <1>7, <2>1 DEF EventsFollow
  <2>3. Recorder(e) = IF e = "h_end" THEN "in" ELSE IF e = "k_end" THEN "comp" ELSE "out"
    BY <1>7, Zenon DEF Recorder
  <2>4. finished[<<p, Recorder(e)>>] >= m + 1
    BY <1>7, <2>2 DEF Reached
  <2>5. finished[<<p, Recorder(e)>>] \in Nat
    BY <1>3, <1>6, <1>7, <2>3
  <2>6. QED
    BY <2>1, <2>3, <2>4, <2>5
<1>8. n >= Buffers => n - Buffers \in Chunk /\ n - Buffers <= n /\ n - Buffers \in Nat
  BY <1>3, <1>5 DEF Chunk
<1>9. \A c, d \in Chunk : c % Buffers = d % Buffers /\ c < d => d - c >= Buffers
  <2>1. \A c \in Chunk : c \in Nat
    BY <1>5 DEF Chunk
  <2>2. QED
    BY <2>1, SameBuffer
<1>10. \A c : Sent(c)' = Sent(c) /\ Done(c)' = Done(c)
  BY <1>1, SameOps DEF Sent, Done
<1>11. \A c \in Chunk : c \in Nat
  BY <1>5 DEF Chunk
<1>12. \A q \in Pipe : LET in   == finished[<<q, "in">>]
                          comp == finished[<<q, "comp">>]
                          out  == finished[<<q, "out">>]
                      IN  /\ out <= comp /\ comp <= in /\ in <= comp + Buffers /\ comp <= out + Buffers
                          /\ <<q, "in">> \in running => in < comp + Buffers
                          /\ <<q, "comp">> \in running => comp < in /\ comp < out + Buffers
                          /\ <<q, "out">> \in running => out < comp
  BY <1>1 DEF StreamsOrdered
<1>13. \A q \in Pipe, c \in Chunk :
         /\ finished[<<q, "comp">>] <= c /\ c < finished[<<q, "in">>] => devIn[<<q, c % Buffers>>] = Sent(c)
         /\ finished[<<q, "out">>] <= c /\ c < finished[<<q, "comp">>] => devOut[<<q, c % Buffers>>] = Done(c)
         /\ c < finished[<<q, "out">>] => hostOut[<<q, c>>] = Done(c)
  BY <1>1 DEF OverlappedData
<1>14. /\ s = <<p, "in">> => finished[<<p, "in">>] < finished[<<p, "comp">>] + Buffers
       /\ s = <<p, "comp">> => /\ finished[<<p, "comp">>] < finished[<<p, "in">>]
                               /\ finished[<<p, "comp">>] < finished[<<p, "out">>] + Buffers
       /\ s = <<p, "out">> => finished[<<p, "out">>] < finished[<<p, "comp">>]
  <2>0. finished[<<p, "comp">>] \in Nat /\ n \in Nat
    BY <1>3, <1>6
  <2>1. CASE s = <<p, "in">>
    <3>0. n = finished[<<p, "in">>]
      BY <1>2, <2>1
    <3>1. CASE n >= Buffers
      <4>1. <<"k_end", n - Buffers>> \in o.after
        BY <1>3, <2>1, <3>1 DEF Earlier
      <4>2. Reached(p, "k_end", n - Buffers)
        BY <1>4, <4>1
      <4>3. finished[<<p, "comp">>] > n - Buffers
        BY <1>7, <1>8, <3>1, <4>2
      <4>4. QED
        BY <1>5, <2>1, <2>0, <3>0, <4>3
    <3>2. CASE ~(n >= Buffers)
      BY <1>5, <2>1, <2>0, <3>0, <3>2
    <3>3. QED
      BY <3>1, <3>2
  <2>2. CASE s = <<p, "comp">>
    <3>1. Reached(p, "h_end", n)
      BY <1>3, <1>4, <2>2
    <3>2. finished[<<p, "in">>] > n
      BY <1>3, <1>7, <3>1
    <3>3. CASE n >= Buffers
      <4>1. <<"d_end", n - Buffers>> \in o.after
        BY <1>3, <2>2, <3>3 DEF Earlier
      <4>2. Reached(p, "d_end", n - Buffers)
        BY <1>4, <4>1
      <4>3. finished[<<p, "out">>] > n - Buffers
        BY <1>7, <1>8, <3>3, <4>2
      <4>4. QED
        BY <1>2, <1>3, <1>5, <1>6, <2>2, <3>2, <4>3
    <3>4. CASE ~(n >= Buffers)
      BY <1>2, <1>3, <1>5, <1>6, <2>2, <3>2, <3>4
    <3>5. QED
      BY <3>3, <3>4
  <2>3. CASE s = <<p, "out">>
    <3>1. Reached(p, "k_end", n)
      <4>1. <<"k_end", n>> \in o.after
        BY <1>3, <2>3
      <4>2. QED
        BY <1>4, <4>1
    <3>2. finished[<<p, "comp">>] > n
      BY <1>3, <1>7, <3>1
    <3>3. QED
      BY <1>2, <1>3, <1>6, <2>3, <3>2
  <2>4. QED
    BY <2>1, <2>2, <2>3
<1>15. StreamsOrdered'
  <2>1. ASSUME NEW q \in Pipe
        PROVE  LET in   == finished'[<<q, "in">>]
                   comp == finished'[<<q, "comp">>]
                   out  == finished'[<<q, "out">>]
               IN  /\ out <= comp /\ comp <= in /\ in <= comp + Buffers /\ comp <= out + Buffers
                   /\ <<q, "in">> \in running' => in < comp + Buffers
                   /\ <<q, "comp">> \in running' => comp < in /\ comp < out + Buffers
                   /\ <<q, "out">> \in running' => out < comp
    <3>1. \A t : <<q, t>> \in running' => <<q, t>> \in running \/ <<q, t>> = s
      BY <1>1
    <3>2. \A t : <<q, t>> = s => q = p /\ s = <<p, t>>
      BY <1>2
    <3>3. QED
      BY <1>1, <1>12, <1>14, <3>1, <3>2
  <2>2. QED
    BY <2>1, Zenon DEF StreamsOrdered
<1>16. OverlappedData'
  <2>1. SUFFICES ASSUME NEW q \in Pipe, NEW c \in Chunk
                 PROVE  /\ finished[<<q, "comp">>] <= c /\ c < finished[<<q, "in">>] => devIn'[<<q, c % Buffers>>] = Sent(c)
                        /\ finished[<<q, "out">>] <= c /\ c < finished[<<q, "comp">>] => devOut'[<<q, c % Buffers>>] = Done(c)
                        /\ c < finished[<<q, "out">>] => hostOut'[<<q, c>>] = Done(c)
    BY <1>1, <1>10 DEF OverlappedData
  <2>2. c \in Nat
    BY <1>11
  <2>3. CASE s = <<p, "in">>
    <3>1. devIn' = [devIn EXCEPT ![<<p, n % Buffers>>] = Torn] /\ devOut' = devOut /\ hostOut' = hostOut
      BY <1>3, <1>4, <2>3
    <3>2. ASSUME finished[<<q, "comp">>] <= c, c < finished[<<q, "in">>]
          PROVE  q # p \/ c % Buffers # n % Buffers
      <4>1. SUFFICES ASSUME q = p, c % Buffers = n % Buffers PROVE FALSE
        OBVIOUS
      <4>2. c < n /\ n < finished[<<p, "comp">>] + Buffers /\ finished[<<p, "comp">>] <= c
        BY <1>2, <1>14, <2>3, <3>2, <4>1
      <4>3. n - c >= Buffers
        BY <1>3, <1>9, <4>1, <4>2
      <4>4. finished[<<p, "comp">>] \in Nat
        BY <1>3, <1>6
      <4>5. QED
        BY <1>3, <1>5, <2>2, <4>2, <4>3, <4>4
    <3>3. ASSUME finished[<<q, "comp">>] <= c, c < finished[<<q, "in">>]
          PROVE  devIn'[<<q, c % Buffers>>] = devIn[<<q, c % Buffers>>]
      BY <1>1, <1>3, <2>2, <3>1, <3>2, <3>3, WrittenPlace DEF PassTypeOK
    <3>4. QED
      BY <1>13, <3>1, <3>3
  <2>4. CASE s = <<p, "comp">>
    <3>1. devOut' = [devOut EXCEPT ![<<p, n % Buffers>>] = Torn] /\ devIn' = devIn /\ hostOut' = hostOut
      BY <1>3, <1>4, <2>4
    <3>2. ASSUME finished[<<q, "out">>] <= c, c < finished[<<q, "comp">>]
          PROVE  q # p \/ c % Buffers # n % Buffers
      <4>1. SUFFICES ASSUME q = p, c % Buffers = n % Buffers PROVE FALSE
        OBVIOUS
      <4>2. c < n /\ n < finished[<<p, "out">>] + Buffers /\ finished[<<p, "out">>] <= c
        BY <1>2, <1>14, <2>4, <3>2, <4>1
      <4>3. n - c >= Buffers
        BY <1>3, <1>9, <4>1, <4>2
      <4>4. finished[<<p, "out">>] \in Nat
        BY <1>3, <1>6
      <4>5. QED
        BY <1>3, <1>5, <2>2, <4>2, <4>3, <4>4
    <3>3. ASSUME finished[<<q, "out">>] <= c, c < finished[<<q, "comp">>]
          PROVE  devOut'[<<q, c % Buffers>>] = devOut[<<q, c % Buffers>>]
      BY <1>1, <1>3, <2>2, <3>1, <3>2, <3>3, WrittenPlace DEF PassTypeOK
    <3>4. QED
      BY <1>13, <3>1, <3>3
  <2>5. CASE s = <<p, "out">>
    <3>1. hostOut' = [hostOut EXCEPT ![<<p, n>>] = Torn] /\ devIn' = devIn /\ devOut' = devOut
      BY <1>3, <1>4, <2>5
    <3>2. ASSUME c < finished[<<q, "out">>]
          PROVE  q # p \/ c # n
      BY <1>2, <1>3, <2>2, <2>5, <3>2
    <3>3. ASSUME c < finished[<<q, "out">>]
          PROVE  hostOut'[<<q, c>>] = hostOut[<<q, c>>]
      BY <1>1, <1>3, <3>1, <3>2, <3>3, WrittenBlock DEF PassTypeOK
    <3>4. QED
      BY <1>13, <3>1, <3>3
  <2>6. QED
    BY <1>3, <2>3, <2>4, <2>5
<1>17. QED
  BY <1>15, <1>16

\* An operation begins in a serial pass.
LEMMA StartSerial ==
  ASSUME PassInv, NEW s \in Stream, StartOp(s), pass.kind = "serial"
  PROVE  SerialData'
<1>1. /\ PassTypeOK /\ SerialData /\ queue[s] # <<>>
      /\ pass' = pass /\ encoded' = encoded /\ finished' = finished
  BY DEF PassInv, StartOp
<1>2. PICK n, o : n = finished[s] /\ o = Head(queue[s])
  OBVIOUS
<1>3. s = <<0, "serial">> /\ n \in Nat /\ o.buffer = 0
  BY <1>1, <1>2, SerialFirst
<1>4. PICK d \in Chunk : /\ o.chunk = d
                         /\ \/ n = 3 * d /\ o.what = "copy_in"
                            \/ n = 3 * d + 1 /\ o.what = "kernel"
                            \/ n = 3 * d + 2 /\ o.what = "copy_out"
  BY <1>1, <1>2, SerialFirst
<1>5. /\ o.what # "copy_in" => devIn' = devIn
      /\ o.what # "kernel" => devOut' = devOut
      /\ o.what # "copy_out" => hostOut' = hostOut
      /\ o.what = "copy_out" => hostOut' = [hostOut EXCEPT ![<<0, d>>] = Torn]
  BY <1>2, <1>3, <1>4 DEF StartOp
<1>6. \A c : Sent(c)' = Sent(c) /\ Done(c)' = Done(c)
  BY <1>1, SameOps DEF Sent, Done
<1>7. SUFFICES ASSUME NEW c \in Chunk
               PROVE  /\ n = 3 * c + 1 => devIn'[<<0, 0>>] = Sent(c)
                      /\ n = 3 * c + 2 => devOut'[<<0, 0>>] = Done(c)
                      /\ n >= 3 * c + 3 => hostOut'[<<0, c>>] = Done(c)
  BY <1>1, <1>2, <1>3, <1>6 DEF SerialData
<1>8. c \in Nat /\ d \in Nat /\ 0 \in Pipe
  BY SizesAssumption DEF Chunk, Pipe
<1>9. /\ n = 3 * c + 1 => devIn[<<0, 0>>] = Sent(c)
      /\ n = 3 * c + 2 => devOut[<<0, 0>>] = Done(c)
      /\ n >= 3 * c + 3 => hostOut[<<0, c>>] = Done(c)
  BY <1>1, <1>2, <1>3 DEF SerialData
<1>10. CASE n = 3 * d /\ o.what = "copy_in"
  BY <1>5, <1>8, <1>9, <1>10
<1>11. CASE n = 3 * d + 1 /\ o.what = "kernel"
  BY <1>5, <1>8, <1>9, <1>11
<1>12. CASE n = 3 * d + 2 /\ o.what = "copy_out"
  <2>1. n >= 3 * c + 3 => c # d
    BY <1>8, <1>12
  <2>2. n >= 3 * c + 3 => hostOut'[<<0, c>>] = hostOut[<<0, c>>]
    BY <1>1, <1>5, <1>8, <1>12, <2>1, WrittenBlock DEF PassTypeOK
  <2>3. QED
    BY <1>5, <1>9, <1>12, <2>2
<1>13. QED
  BY <1>4, <1>10, <1>11, <1>12

\* A transfer or kernel begins.
LEMMA StartKeeps ==
  ASSUME PassInv, NEW s \in Stream, StartOp(s)
  PROVE  PassInv'
<1>1. /\ PassTypeOK /\ HostFollows /\ QueuesFollow /\ EventsFollow /\ CapacityEnough
      /\ queue[s] # <<>> /\ running' = running \cup {s}
      /\ UNCHANGED <<pass, toIssue, waiting, encoded, capacity, queue, finished, recorded>>
  BY DEF PassInv, StartOp
<1>2. waiting
  BY <1>1, FirstOperation
<1>3. PassTypeOK'
  BY StartType
<1>4. HostFollows' /\ EventsFollow' /\ CapacityEnough'
  <2>1. \A p : Issued(p)' = Issued(p)
    BY <1>1 DEF Issued
  <2>2. QED
    BY <1>1, <2>1 DEF HostFollows, EventsFollow, CapacityEnough
<1>5. QueuesFollow'
  <2>1. \A r : IssuedTo(r)' = IssuedTo(r)
    BY <1>1 DEF IssuedTo, Issued, Lanes
  <2>2. \A t, m : OpAt(t, m)' = OpAt(t, m)
    BY <1>1, SameOps
  <2>3. \A r \in Stream : r \in running' => queue'[r] # <<>>
    BY <1>1 DEF QueuesFollow
  <2>4. ASSUME NEW r \in Stream
        PROVE  /\ finished'[r] + Len(queue'[r]) = IssuedTo(r)'
               /\ \A i \in 1..Len(queue'[r]) : queue'[r][i] = OpAt(r[2], finished[r] + i - 1)'
               /\ r \in running' => queue'[r] # <<>>
    <3>1. finished'[r] = finished[r] /\ queue'[r] = queue[r]
      BY <1>1
    <3>2. \A i : OpAt(r[2], finished[r] + i - 1)' = OpAt(r[2], finished[r] + i - 1)
      BY <1>1, SameOps
    <3>3. QED
      BY <1>1, <2>1, <2>3, <3>1, <3>2 DEF QueuesFollow
  <2>5. QED
    BY <2>4, Zenon DEF QueuesFollow
<1>6. OutputsOfThisPass'
  BY <1>1, <1>2 DEF OutputsOfThisPass
<1>7. StreamsOrdered' /\ OverlappedData'
  <2>1. pass.kind # "overlapped" => StreamsOrdered' /\ OverlappedData'
    BY <1>1 DEF StreamsOrdered, OverlappedData
  <2>2. QED
    BY <2>1, StartOverlapped
<1>8. SerialData'
  <2>1. pass.kind # "serial" => SerialData'
    BY <1>1 DEF SerialData
  <2>2. QED
    BY <2>1, StartSerial
<1>9. QED
  BY <1>3, <1>4, <1>5, <1>6, <1>7, <1>8 DEF PassInv

\* What an operation that ends does to the streams.
LEMMA EndStep ==
  ASSUME PassInv, NEW s \in Stream, EndOp(s)
  PROVE  /\ queue[s] # <<>> /\ running' = running \ {s} /\ waiting
         /\ pass' = pass /\ encoded' = encoded /\ finished[s] \in Nat
         /\ \A r \in Stream : finished'[r] = IF r = s THEN finished[s] + 1 ELSE finished[r]
         /\ PassTypeOK' /\ HostFollows' /\ QueuesFollow' /\ EventsFollow' /\ CapacityEnough' /\ OutputsOfThisPass'
<1>1. /\ PassTypeOK /\ HostFollows /\ QueuesFollow /\ EventsFollow /\ CapacityEnough
      /\ s \in running /\ running' = running \ {s}
      /\ queue' = [queue EXCEPT ![s] = Tail(@)] /\ finished' = [finished EXCEPT ![s] = @ + 1]
      /\ UNCHANGED <<pass, toIssue, waiting, encoded, capacity, recorded>>
  BY DEF PassInv, EndOp
<1>2. queue[s] # <<>>
  BY <1>1 DEF QueuesFollow
<1>3. waiting
  BY <1>1, <1>2, FirstOperation
<1>4. queue \in [Stream -> Seq(Operation)] /\ finished \in [Stream -> Nat] /\ running \subseteq Stream
  BY <1>1 DEF PassTypeOK
<1>5. /\ \A r \in Stream : finished'[r] = IF r = s THEN finished[s] + 1 ELSE finished[r]
      /\ \A r \in Stream : queue'[r] = IF r = s THEN Tail(queue[s]) ELSE queue[r]
  BY <1>1, <1>4
<1>6. PICK q \in Seq(Operation), n \in Nat : q = queue[s] /\ n = finished[s]
  BY <1>4
<1>7. /\ Tail(q) \in Seq(Operation) /\ Len(Tail(q)) = Len(q) - 1 /\ Len(q) \in Nat \ {0}
      /\ \A i \in 1..Len(q)-1 : Tail(q)[i] = q[i + 1] /\ i + 1 \in 1..Len(q)
  BY <1>2, <1>6
<1>8. PassTypeOK'
  <2>1. queue' \in [Stream -> Seq(Operation)] /\ finished' \in [Stream -> Nat]
    BY <1>1, <1>4, <1>6, <1>7
  <2>2. Head(q) \in Operation
    BY <1>2, <1>6
  <2>3. PICK o, place : o = Head(q) /\ place = <<s[1], o.buffer>>
    OBVIOUS
  <2>4. place \in Place /\ o.chunk \in Nat /\ o.encoding \in {"int32", "int16"}
    BY <2>2, <2>3 DEF Place, Operation, Stream
  <2>5. devIn \in [Place -> Content] /\ devOut \in [Place -> Content] /\ hostOut \in [Pipe \X Chunk -> Content] /\ pass.number \in Nat
    BY <1>1 DEF PassTypeOK
  <2>6. [number |-> pass.number, chunk |-> o.chunk, encoding |-> o.encoding] \in Content
    BY <2>4, <2>5 DEF Content
  <2>7. Features(o, devIn[place]) \in Content
    BY <2>4, <2>5 DEF Features, Content, Torn
  <2>8. devOut[place] \in Content
    BY <2>4, <2>5
  <2>9. /\ devIn' = devIn \/ devIn' = [devIn EXCEPT ![place] = [number |-> pass.number, chunk |-> o.chunk, encoding |-> o.encoding]]
        /\ devOut' = devOut \/ devOut' = [devOut EXCEPT ![place] = Features(o, devIn[place])]
        /\ hostOut' = hostOut \/ hostOut' = [hostOut EXCEPT ![<<s[1], o.chunk>>] = devOut[place]]
    BY <1>6, <2>3 DEF EndOp
  <2>10. devIn' \in [Place -> Content]
    BY <2>5, <2>6, <2>9
  <2>11. devOut' \in [Place -> Content]
    BY <2>5, <2>7, <2>9
  <2>12. hostOut' \in [Pipe \X Chunk -> Content]
    BY <2>5, <2>8, <2>9
  <2>13. QED
    BY <1>1, <2>1, <2>10, <2>11, <2>12 DEF PassTypeOK
<1>9. HostFollows' /\ EventsFollow' /\ CapacityEnough'
  <2>1. \A p : Issued(p)' = Issued(p)
    BY <1>1 DEF Issued
  <2>2. QED
    BY <1>1, <2>1 DEF HostFollows, EventsFollow, CapacityEnough
<1>10. QueuesFollow'
  <2>1. ASSUME NEW r \in Stream
        PROVE  /\ finished'[r] + Len(queue'[r]) = IssuedTo(r)'
               /\ \A i \in 1..Len(queue'[r]) : queue'[r][i] = OpAt(r[2], finished[r] + i - 1)'
               /\ r \in running' => queue'[r] # <<>>
    <3>1. IssuedTo(r)' = IssuedTo(r)
      BY <1>1 DEF IssuedTo, Issued, Lanes
    <3>2. /\ finished[r] + Len(queue[r]) = IssuedTo(r)
          /\ \A i \in 1..Len(queue[r]) : queue[r][i] = OpAt(r[2], finished[r] + i - 1)
          /\ r \in running => queue[r] # <<>>
      BY <1>1 DEF QueuesFollow
    <3>3. CASE r = s
      <4>1. finished'[r] = n + 1 /\ queue'[r] = Tail(q)
        BY <1>5, <1>6, <3>3
      <4>2. finished'[r] + Len(queue'[r]) = IssuedTo(r)'
        BY <1>6, <1>7, <3>1, <3>2, <3>3, <4>1
      <4>3. ASSUME NEW i \in 1..Len(q)-1
            PROVE  Tail(q)[i] = OpAt(r[2], finished[r] + i - 1)'
        <5>1. Tail(q)[i] = OpAt(r[2], n + (i + 1) - 1)
          BY <1>6, <1>7, <3>2, <3>3
        <5>2. n + (i + 1) - 1 = n + 1 + i - 1
          BY <1>7
        <5>3. OpAt(r[2], finished[r] + i - 1)' = OpAt(r[2], n + 1 + i - 1)'
          BY <4>1
        <5>4. OpAt(r[2], n + 1 + i - 1)' = OpAt(r[2], n + 1 + i - 1)
          BY <1>1, SameOps
        <5>5. QED
          BY <5>1, <5>2, <5>3, <5>4
      <4>4. r \notin running'
        BY <1>1, <3>3
      <4>5. QED
        BY <1>7, <4>1, <4>2, <4>3, <4>4
    <3>4. CASE r # s
      <4>1. finished'[r] = finished[r] /\ queue'[r] = queue[r] /\ (r \in running' => r \in running)
        BY <1>1, <1>5, <3>4
      <4>2. \A i : OpAt(r[2], finished[r] + i - 1)' = OpAt(r[2], finished[r] + i - 1)
        BY <1>1, <4>1, SameOps
      <4>3. QED
        BY <3>1, <3>2, <4>1, <4>2
    <3>5. QED
      BY <3>3, <3>4
  <2>2. QED
    BY <2>1, Zenon DEF QueuesFollow
<1>11. OutputsOfThisPass'
  BY <1>1, <1>3 DEF OutputsOfThisPass
<1>12. QED
  BY <1>1, <1>2, <1>3, <1>4, <1>5, <1>8, <1>9, <1>10, <1>11

\* A transfer or kernel ends in an overlapped pass.
LEMMA EndOverlapped ==
  ASSUME PassInv, NEW s \in Stream, EndOp(s), pass.kind = "overlapped"
  PROVE  StreamsOrdered' /\ OverlappedData'
<1>1. /\ PassTypeOK /\ HostFollows /\ StreamsOrdered /\ OverlappedData /\ s \in running
      /\ pass' = pass /\ encoded' = encoded
  BY DEF PassInv, EndOp
<1>2. /\ queue[s] # <<>> /\ running' = running \ {s}
      /\ \A r \in Stream : finished'[r] = IF r = s THEN finished[s] + 1 ELSE finished[r]
  BY EndStep
<1>3. PICK p, n, o : p = s[1] /\ n = finished[s] /\ o = Head(queue[s])
  OBVIOUS
<1>4. /\ n \in Chunk /\ n \in Nat /\ p \in Pipe
      /\ s = <<p, "in">> \/ s = <<p, "comp">> \/ s = <<p, "out">>
      /\ o.chunk = n /\ o.buffer = n % Buffers /\ o.encoding = Plan(n)
      /\ s[2] = "in" => o.what = "copy_in"
      /\ s[2] = "comp" => o.what = "kernel"
      /\ s[2] = "out" => o.what = "copy_out"
  BY <1>2, <1>3, OverlappedFirst
<1>5. /\ devIn' = IF o.what = "copy_in" THEN [devIn EXCEPT ![<<p, n % Buffers>>] = Sent(n)] ELSE devIn
      /\ devOut' = IF o.what = "kernel"
                     THEN [devOut EXCEPT ![<<p, n % Buffers>>] = Features(o, devIn[<<p, n % Buffers>>])] ELSE devOut
      /\ hostOut' = IF o.what = "copy_out"
                      THEN [hostOut EXCEPT ![<<p, n>>] = devOut[<<p, n % Buffers>>]] ELSE hostOut
  BY <1>3, <1>4 DEF EndOp, Sent
<1>6. Buffers \in Nat \ {0} /\ \A c \in Chunk : c \in Nat
  BY SizesAssumption DEF Chunk
<1>7. \A q \in Pipe : /\ finished[<<q, "in">>] \in Nat /\ finished[<<q, "comp">>] \in Nat
                      /\ finished[<<q, "out">>] \in Nat
                      /\ <<q, "in">> \in Stream /\ <<q, "comp">> \in Stream /\ <<q, "out">> \in Stream
  BY <1>1 DEF PassTypeOK, Stream
<1>8. \A c, d \in Chunk : c % Buffers = d % Buffers /\ c < d => d - c >= Buffers
  BY <1>6, SameBuffer
<1>9. \A c : Sent(c)' = Sent(c) /\ Done(c)' = Done(c)
  BY <1>1, SameOps DEF Sent, Done
<1>10. \A q \in Pipe : LET in   == finished[<<q, "in">>]
                          comp == finished[<<q, "comp">>]
                          out  == finished[<<q, "out">>]
                      IN  /\ out <= comp /\ comp <= in /\ in <= comp + Buffers /\ comp <= out + Buffers
                          /\ <<q, "in">> \in running => in < comp + Buffers
                          /\ <<q, "comp">> \in running => comp < in /\ comp < out + Buffers
                          /\ <<q, "out">> \in running => out < comp
  BY <1>1 DEF StreamsOrdered
<1>11. \A q \in Pipe, c \in Chunk :
         /\ finished[<<q, "comp">>] <= c /\ c < finished[<<q, "in">>] => devIn[<<q, c % Buffers>>] = Sent(c)
         /\ finished[<<q, "out">>] <= c /\ c < finished[<<q, "comp">>] => devOut[<<q, c % Buffers>>] = Done(c)
         /\ c < finished[<<q, "out">>] => hostOut[<<q, c>>] = Done(c)
  BY <1>1 DEF OverlappedData
<1>12. StreamsOrdered'
  <2>1. ASSUME NEW q \in Pipe
        PROVE  LET in   == finished'[<<q, "in">>]
                   comp == finished'[<<q, "comp">>]
                   out  == finished'[<<q, "out">>]
               IN  /\ out <= comp /\ comp <= in /\ in <= comp + Buffers /\ comp <= out + Buffers
                   /\ <<q, "in">> \in running' => in < comp + Buffers
                   /\ <<q, "comp">> \in running' => comp < in /\ comp < out + Buffers
                   /\ <<q, "out">> \in running' => out < comp
    <3>1. \A t : <<q, t>> \in running' => <<q, t>> \in running /\ <<q, t>> # s
      BY <1>2
    <3>2. CASE q # p
      <4>1. /\ finished'[<<q, "in">>] = finished[<<q, "in">>]
            /\ finished'[<<q, "comp">>] = finished[<<q, "comp">>]
            /\ finished'[<<q, "out">>] = finished[<<q, "out">>]
        BY <1>2, <1>4, <1>7, <3>2
      <4>2. QED
        BY <1>10, <3>1, <4>1
    <3>3. CASE q = p /\ s = <<p, "in">>
      <4>1. /\ finished'[<<q, "in">>] = finished[<<q, "in">>] + 1
            /\ finished'[<<q, "comp">>] = finished[<<q, "comp">>]
            /\ finished'[<<q, "out">>] = finished[<<q, "out">>]
        BY <1>2, <1>7, <3>3
      <4>2. QED
        BY <1>1, <1>6, <1>7, <1>10, <3>1, <3>3, <4>1
    <3>4. CASE q = p /\ s = <<p, "comp">>
      <4>1. /\ finished'[<<q, "in">>] = finished[<<q, "in">>]
            /\ finished'[<<q, "comp">>] = finished[<<q, "comp">>] + 1
            /\ finished'[<<q, "out">>] = finished[<<q, "out">>]
        BY <1>2, <1>7, <3>4
      <4>2. QED
        BY <1>1, <1>6, <1>7, <1>10, <3>1, <3>4, <4>1
    <3>5. CASE q = p /\ s = <<p, "out">>
      <4>1. /\ finished'[<<q, "in">>] = finished[<<q, "in">>]
            /\ finished'[<<q, "comp">>] = finished[<<q, "comp">>]
            /\ finished'[<<q, "out">>] = finished[<<q, "out">>] + 1
        BY <1>2, <1>7, <3>5
      <4>2. QED
        BY <1>1, <1>6, <1>7, <1>10, <3>1, <3>5, <4>1
    <3>6. QED
      BY <1>4, <3>2, <3>3, <3>4, <3>5
  <2>2. QED
    BY <2>1, Zenon DEF StreamsOrdered
<1>13. OverlappedData'
  <2>1. SUFFICES ASSUME NEW q \in Pipe, NEW c \in Chunk
                 PROVE  /\ finished'[<<q, "comp">>] <= c /\ c < finished'[<<q, "in">>] => devIn'[<<q, c % Buffers>>] = Sent(c)
                        /\ finished'[<<q, "out">>] <= c /\ c < finished'[<<q, "comp">>] => devOut'[<<q, c % Buffers>>] = Done(c)
                        /\ c < finished'[<<q, "out">>] => hostOut'[<<q, c>>] = Done(c)
    BY <1>1, <1>9 DEF OverlappedData
  <2>2. c \in Nat /\ devIn \in [Place -> Content] /\ devOut \in [Place -> Content] /\ hostOut \in [Pipe \X Chunk -> Content]
    BY <1>1, <1>6 DEF PassTypeOK
  <2>3. CASE s = <<p, "in">>
    <3>1. devIn' = [devIn EXCEPT ![<<p, n % Buffers>>] = Sent(n)] /\ devOut' = devOut /\ hostOut' = hostOut
      BY <1>4, <1>5, <2>3
    <3>2. /\ finished'[<<q, "in">>] = IF q = p THEN n + 1 ELSE finished[<<q, "in">>]
          /\ finished'[<<q, "comp">>] = finished[<<q, "comp">>]
          /\ finished'[<<q, "out">>] = finished[<<q, "out">>]
      BY <1>2, <1>3, <1>7, <2>3
    <3>3. n = finished[<<p, "in">>] /\ n < finished[<<p, "comp">>] + Buffers
      BY <1>1, <1>3, <1>4, <1>10, <2>3
    <3>4. ASSUME finished[<<q, "comp">>] <= c, c < finished'[<<q, "in">>]
          PROVE  devIn'[<<q, c % Buffers>>] = Sent(c)
      <4>1. CASE q = p /\ c = n
        <5>1. [devIn EXCEPT ![<<p, n % Buffers>>] = Sent(n)][<<p, n % Buffers>>] = Sent(n)
          <6>1. <<p, n % Buffers>> \in Place
            BY <1>4, BufferOf DEF Place
          <6>2. QED
            BY <2>2, <6>1
        <5>2. QED
          BY <3>1, <4>1, <5>1
      <4>2. CASE q = p /\ c # n
        <5>1. c < n /\ finished[<<p, "comp">>] <= c
          BY <1>4, <2>2, <3>2, <3>4, <4>2
        <5>2. c % Buffers # n % Buffers
          <6>1. SUFFICES ASSUME c % Buffers = n % Buffers PROVE FALSE
            OBVIOUS
          <6>2. n - c >= Buffers
            BY <1>4, <1>8, <5>1, <6>1
          <6>3. finished[<<p, "comp">>] \in Nat
            BY <1>4, <1>7
          <6>4. QED
            BY <1>4, <1>6, <2>2, <3>3, <5>1, <6>2, <6>3
        <5>3. devIn'[<<q, c % Buffers>>] = devIn[<<q, c % Buffers>>]
          BY <1>4, <2>2, <3>1, <5>2, WrittenPlace
        <5>4. QED
          BY <1>11, <3>3, <4>2, <5>1, <5>3
      <4>3. CASE q # p
        <5>1. devIn'[<<q, c % Buffers>>] = devIn[<<q, c % Buffers>>]
          BY <1>4, <2>2, <3>1, <4>3, WrittenPlace
        <5>2. QED
          BY <1>11, <3>2, <3>4, <4>3, <5>1
      <4>4. QED
        BY <4>1, <4>2, <4>3
    <3>5. QED
      BY <1>11, <3>1, <3>2, <3>4
  <2>4. CASE s = <<p, "comp">>
    <3>1. /\ devOut' = [devOut EXCEPT ![<<p, n % Buffers>>] = Features(o, devIn[<<p, n % Buffers>>])]
          /\ devIn' = devIn /\ hostOut' = hostOut
      BY <1>4, <1>5, <2>4
    <3>2. /\ finished'[<<q, "in">>] = finished[<<q, "in">>]
          /\ finished'[<<q, "comp">>] = IF q = p THEN n + 1 ELSE finished[<<q, "comp">>]
          /\ finished'[<<q, "out">>] = finished[<<q, "out">>]
      BY <1>2, <1>3, <1>7, <2>4
    <3>3. n = finished[<<p, "comp">>] /\ n < finished[<<p, "out">>] + Buffers /\ n < finished[<<p, "in">>]
      BY <1>1, <1>3, <1>4, <1>10, <2>4
    <3>4. Features(o, devIn[<<p, n % Buffers>>]) = Done(n)
      <4>1. devIn[<<p, n % Buffers>>] = Sent(n)
        <5>1. finished[<<p, "comp">>] <= n /\ n < finished[<<p, "in">>]
          BY <1>4, <3>3
        <5>2. QED
          BY <1>4, <1>11, <5>1
      <4>2. o.chunk = n /\ o.encoding = Plan(n)
        BY <1>4
      <4>3. QED
        BY <4>1, <4>2 DEF Features, Sent, Done
    <3>5. finished'[<<q, "comp">>] <= c => finished[<<q, "comp">>] <= c
      BY <1>4, <2>2, <3>2, <3>3
    <3>6. ASSUME finished[<<q, "out">>] <= c, c < finished'[<<q, "comp">>]
          PROVE  devOut'[<<q, c % Buffers>>] = Done(c)
      <4>1. CASE q = p /\ c = n
        <5>1. [devOut EXCEPT ![<<p, n % Buffers>>] = Done(n)][<<p, n % Buffers>>] = Done(n)
          <6>1. <<p, n % Buffers>> \in Place
            BY <1>4, BufferOf DEF Place
          <6>2. QED
            BY <2>2, <6>1
        <5>2. QED
          BY <3>1, <3>4, <4>1, <5>1
      <4>2. CASE q = p /\ c # n
        <5>1. c < n /\ finished[<<p, "out">>] <= c
          BY <1>4, <2>2, <3>2, <3>6, <4>2
        <5>2. c % Buffers # n % Buffers
          <6>1. SUFFICES ASSUME c % Buffers = n % Buffers PROVE FALSE
            OBVIOUS
          <6>2. n - c >= Buffers
            BY <1>4, <1>8, <5>1, <6>1
          <6>3. finished[<<p, "out">>] \in Nat
            BY <1>4, <1>7
          <6>4. QED
            BY <1>4, <1>6, <2>2, <3>3, <5>1, <6>2, <6>3
        <5>3. devOut'[<<q, c % Buffers>>] = devOut[<<q, c % Buffers>>]
          BY <1>4, <2>2, <3>1, <5>2, WrittenPlace
        <5>4. QED
          BY <1>11, <3>3, <4>2, <5>1, <5>3
      <4>3. CASE q # p
        <5>1. devOut'[<<q, c % Buffers>>] = devOut[<<q, c % Buffers>>]
          BY <1>4, <2>2, <3>1, <4>3, WrittenPlace
        <5>2. QED
          BY <1>11, <3>2, <3>6, <4>3, <5>1
      <4>4. QED
        BY <4>1, <4>2, <4>3
    <3>7. QED
      BY <1>11, <3>1, <3>2, <3>5, <3>6
  <2>5. CASE s = <<p, "out">>
    <3>1. /\ hostOut' = [hostOut EXCEPT ![<<p, n>>] = devOut[<<p, n % Buffers>>]]
          /\ devIn' = devIn /\ devOut' = devOut
      BY <1>4, <1>5, <2>5
    <3>2. /\ finished'[<<q, "in">>] = finished[<<q, "in">>]
          /\ finished'[<<q, "comp">>] = finished[<<q, "comp">>]
          /\ finished'[<<q, "out">>] = IF q = p THEN n + 1 ELSE finished[<<q, "out">>]
      BY <1>2, <1>3, <1>7, <2>5
    <3>3. n = finished[<<p, "out">>] /\ n < finished[<<p, "comp">>]
      BY <1>1, <1>3, <1>4, <1>10, <2>5
    <3>4. devOut[<<p, n % Buffers>>] = Done(n)
      <4>1. finished[<<p, "out">>] <= n /\ n < finished[<<p, "comp">>]
        BY <1>4, <3>3
      <4>2. QED
        BY <1>4, <1>11, <4>1
    <3>5. finished'[<<q, "out">>] <= c => finished[<<q, "out">>] <= c
      BY <1>4, <2>2, <3>2, <3>3
    <3>6. ASSUME c < finished'[<<q, "out">>]
          PROVE  hostOut'[<<q, c>>] = Done(c)
      <4>1. CASE q = p /\ c = n
        BY <1>4, <2>2, <3>1, <3>4, <4>1, WrittenBlock
      <4>2. CASE ~(q = p /\ c = n)
        <5>1. hostOut'[<<q, c>>] = hostOut[<<q, c>>]
          BY <1>4, <2>2, <3>1, <4>2, WrittenBlock
        <5>2. c < finished[<<q, "out">>]
          BY <1>4, <2>2, <3>2, <3>3, <3>6, <4>2
        <5>3. QED
          BY <1>11, <5>1, <5>2
      <4>3. QED
        BY <4>1, <4>2
    <3>7. QED
      BY <1>11, <3>1, <3>2, <3>5, <3>6
  <2>6. QED
    BY <1>4, <2>3, <2>4, <2>5
<1>14. QED
  BY <1>12, <1>13

\* An operation ends in a serial pass.
LEMMA EndSerial ==
  ASSUME PassInv, NEW s \in Stream, EndOp(s), pass.kind = "serial"
  PROVE  SerialData'
<1>1. PassTypeOK /\ SerialData /\ pass' = pass /\ encoded' = encoded
  BY DEF PassInv, EndOp
<1>2. /\ queue[s] # <<>>
      /\ \A r \in Stream : finished'[r] = IF r = s THEN finished[s] + 1 ELSE finished[r]
  BY EndStep
<1>3. PICK n, o : n = finished[s] /\ o = Head(queue[s])
  OBVIOUS
<1>4. s = <<0, "serial">> /\ n \in Nat /\ o.buffer = 0
  BY <1>2, <1>3, SerialFirst
<1>5. PICK d \in Chunk : /\ o.chunk = d /\ o.encoding = Plan(d)
                         /\ \/ n = 3 * d /\ o.what = "copy_in"
                            \/ n = 3 * d + 1 /\ o.what = "kernel"
                            \/ n = 3 * d + 2 /\ o.what = "copy_out"
  BY <1>2, <1>3, SerialFirst
<1>6. finished'[<<0, "serial">>] = n + 1
  BY <1>2, <1>3, <1>4
<1>7. \A c : Sent(c)' = Sent(c) /\ Done(c)' = Done(c)
  BY <1>1, SameOps DEF Sent, Done
<1>8. /\ devIn' = IF o.what = "copy_in" THEN [devIn EXCEPT ![<<0, 0>>] = Sent(d)] ELSE devIn
      /\ devOut' = IF o.what = "kernel" THEN [devOut EXCEPT ![<<0, 0>>] = Features(o, devIn[<<0, 0>>])] ELSE devOut
      /\ hostOut' = IF o.what = "copy_out" THEN [hostOut EXCEPT ![<<0, d>>] = devOut[<<0, 0>>]] ELSE hostOut
  BY <1>3, <1>4, <1>5 DEF EndOp, Sent
<1>9. SUFFICES ASSUME NEW c \in Chunk
               PROVE  /\ n + 1 = 3 * c + 1 => devIn'[<<0, 0>>] = Sent(c)
                      /\ n + 1 = 3 * c + 2 => devOut'[<<0, 0>>] = Done(c)
                      /\ n + 1 >= 3 * c + 3 => hostOut'[<<0, c>>] = Done(c)
  BY <1>1, <1>6, <1>7 DEF SerialData
<1>10. c \in Nat /\ d \in Nat /\ 0 \in Pipe /\ <<0, 0>> \in Place
  BY SizesAssumption DEF Chunk, Pipe, Place
<1>11. \A b \in Chunk : /\ n = 3 * b + 1 => devIn[<<0, 0>>] = Sent(b)
                        /\ n = 3 * b + 2 => devOut[<<0, 0>>] = Done(b)
                        /\ n >= 3 * b + 3 => hostOut[<<0, b>>] = Done(b)
  BY <1>1, <1>3, <1>4 DEF SerialData
<1>12. devIn \in [Place -> Content] /\ devOut \in [Place -> Content] /\ hostOut \in [Pipe \X Chunk -> Content]
  BY <1>1 DEF PassTypeOK
<1>13. CASE n = 3 * d /\ o.what = "copy_in"
  <2>1. devIn'[<<0, 0>>] = Sent(d) /\ hostOut' = hostOut
    BY <1>8, <1>10, <1>12, <1>13
  <2>2. /\ n + 1 = 3 * c + 1 => c = d
        /\ n + 1 # 3 * c + 2
        /\ n + 1 >= 3 * c + 3 => n >= 3 * c + 3
    BY <1>10, <1>13
  <2>3. QED
    BY <1>11, <2>1, <2>2
<1>14. CASE n = 3 * d + 1 /\ o.what = "kernel"
  <2>1. Features(o, devIn[<<0, 0>>]) = Done(d)
    <3>1. devIn[<<0, 0>>] = Sent(d)
      BY <1>11, <1>14
    <3>2. QED
      BY <1>5, <3>1 DEF Features, Sent, Done
  <2>2. devOut'[<<0, 0>>] = Done(d) /\ hostOut' = hostOut
    BY <1>8, <1>10, <1>12, <1>14, <2>1
  <2>3. /\ n + 1 # 3 * c + 1
        /\ n + 1 = 3 * c + 2 => c = d
        /\ n + 1 >= 3 * c + 3 => n >= 3 * c + 3
    BY <1>10, <1>14
  <2>4. QED
    BY <1>11, <2>2, <2>3
<1>15. CASE n = 3 * d + 2 /\ o.what = "copy_out"
  <2>1. devOut[<<0, 0>>] = Done(d)
    BY <1>11, <1>15
  <2>2. /\ n + 1 # 3 * c + 1
        /\ n + 1 # 3 * c + 2
        /\ n + 1 >= 3 * c + 3 => c = d \/ n >= 3 * c + 3
    BY <1>4, <1>10, <1>15
  <2>3. hostOut' = [hostOut EXCEPT ![<<0, d>>] = devOut[<<0, 0>>]]
    BY <1>8, <1>15
  <2>4. c = d => hostOut'[<<0, c>>] = Done(c)
    BY <1>10, <1>12, <2>1, <2>3, WrittenBlock
  <2>5. c # d => hostOut'[<<0, c>>] = hostOut[<<0, c>>]
    BY <1>10, <1>12, <2>3, WrittenBlock
  <2>6. QED
    BY <1>11, <2>2, <2>4, <2>5
<1>16. QED
  BY <1>5, <1>13, <1>14, <1>15

\* A transfer or kernel ends.
LEMMA EndKeeps ==
  ASSUME PassInv, NEW s \in Stream, EndOp(s)
  PROVE  PassInv'
<1>1. pass' = pass
  BY EndStep
<1>2. StreamsOrdered' /\ OverlappedData'
  <2>1. pass.kind # "overlapped" => StreamsOrdered' /\ OverlappedData'
    BY <1>1 DEF StreamsOrdered, OverlappedData
  <2>2. QED
    BY <2>1, EndOverlapped
<1>3. SerialData'
  <2>1. pass.kind # "serial" => SerialData'
    BY <1>1 DEF SerialData
  <2>2. QED
    BY <2>1, EndSerial
<1>4. QED
  BY <1>2, <1>3, EndStep DEF PassInv

-----------------------------------------------------------------------------
(* The theorems.                                                           *)

\* The invariant holds as long as the pipeline runs.
THEOREM PassInvariant == PipelineSpec => []PassInv
<1>1. PipelineInit => PassInv
  BY InitPassInv
<1>2. PassInv /\ [PipelineNext]_pipelineVars => PassInv'
  <2>1. SUFFICES ASSUME PassInv, [PipelineNext]_pipelineVars
                 PROVE  PassInv'
    OBVIOUS
  <2>2. ASSUME NEW kind \in Kinds, NEW cards \in {1, 2}, NEW encoding \in {"int32", "int16"},
               Begin(kind, cards, encoding)
        PROVE  PassInv'
    BY <2>1, <2>2, BeginKeeps
  <2>3. CASE Issue
    BY <2>1, <2>3, IssueKeeps
  <2>4. CASE Sync
    BY <2>1, <2>4, SyncKeeps
  <2>5. CASE BuildInt16
    BY <2>1, <2>5, BuildInt16Keeps
  <2>6. ASSUME NEW s \in Stream, StartOp(s)
        PROVE  PassInv'
    BY <2>1, <2>6, StartKeeps
  <2>7. ASSUME NEW s \in Stream, EndOp(s)
        PROVE  PassInv'
    BY <2>1, <2>7, EndKeeps
  <2>8. CASE UNCHANGED pipelineVars
    <3>1. UNCHANGED <<pass, toIssue, waiting, encoded, capacity, queue, finished, running,
                      recorded, devIn, devOut, hostOut>>
      BY <2>8 DEF pipelineVars
    <3>2. /\ \A r : IssuedTo(r)' = IssuedTo(r) /\ \A q : Issued(q)' = Issued(q)
          /\ \A t, m : OpAt(t, m)' = OpAt(t, m)
          /\ \A c : Sent(c)' = Sent(c) /\ Done(c)' = Done(c)
      BY <3>1, SameOps DEF IssuedTo, Issued, Lanes, Sent, Done
    <3>3. PassTypeOK' /\ HostFollows' /\ CapacityEnough' /\ OutputsOfThisPass' /\ StreamsOrdered'
      BY <2>1, <3>1 DEF PassInv, PassTypeOK, HostFollows, CapacityEnough, OutputsOfThisPass, StreamsOrdered
    <3>4. QueuesFollow'
      <4>1. \A r, i : OpAt(r[2], finished[r] + i - 1)' = OpAt(r[2], finished[r] + i - 1)
        BY <3>1, SameOps
      <4>2. QED
        BY <2>1, <3>1, <3>2, <4>1 DEF PassInv, QueuesFollow
    <3>5. EventsFollow' /\ OverlappedData' /\ SerialData'
      BY <2>1, <3>1, <3>2 DEF PassInv, EventsFollow, OverlappedData, SerialData
    <3>6. QED
      BY <3>3, <3>4, <3>5 DEF PassInv
  <2>9. QED
    BY <2>1, <2>2, <2>3, <2>4, <2>5, <2>6, <2>7, <2>8 DEF PipelineNext, Host, Device
<1>3. QED
  BY <1>1, <1>2, PTL DEF PipelineSpec

\* Two operations under way do not share a buffer that one of them writes.
LEMMA ApartNow ==
  ASSUME PassInv
  PROVE  BuffersNotShared
<1>1. SUFFICES ASSUME NEW s \in running, NEW t \in running, s # t
               PROVE  Uses(s).write \cap (Uses(t).read \cup Uses(t).write) = {}
  BY DEF BuffersNotShared
<1>2. /\ PassTypeOK /\ StreamsOrdered /\ HostFollows /\ QueuesFollow
      /\ s \in Stream /\ t \in Stream /\ queue[s] # <<>> /\ queue[t] # <<>>
  BY DEF PassInv, PassTypeOK, QueuesFollow
<1>3. ASSUME NEW r \in Stream
      PROVE  LET o == Head(queue[r])
             IN  /\ o.what = "copy_in"  => Uses(r) = [read |-> {}, write |-> {<<"in", r[1], o.buffer>>}]
                 /\ o.what = "kernel"   => Uses(r) = [read |-> {<<"in", r[1], o.buffer>>}, write |-> {<<"out", r[1], o.buffer>>}]
                 /\ o.what = "copy_out" => Uses(r) = [read |-> {<<"out", r[1], o.buffer>>}, write |-> {}]
  <2>1. PICK what : what = Head(queue[r]).what
    OBVIOUS
  <2>2. CASE what = "copy_in"
    BY <2>1, <2>2, Zenon DEF Uses
  <2>3. CASE what = "kernel"
    BY <2>1, <2>3, Zenon DEF Uses
  <2>4. CASE what = "copy_out"
    BY <2>1, <2>4, Zenon DEF Uses
  <2>5. QED
    BY <2>1, <2>2, <2>3, <2>4
<1>4. CASE pass.kind = "overlapped"
  <2>1. PICK p, q, a, b : p = s[1] /\ q = t[1] /\ a = finished[s] /\ b = finished[t]
    OBVIOUS
  <2>2. /\ a \in Chunk /\ a \in Nat /\ p \in Pipe
        /\ s = <<p, "in">> \/ s = <<p, "comp">> \/ s = <<p, "out">>
        /\ s[2] = "in" => Uses(s) = [read |-> {}, write |-> {<<"in", p, a % Buffers>>}]
        /\ s[2] = "comp" => Uses(s) = [read |-> {<<"in", p, a % Buffers>>}, write |-> {<<"out", p, a % Buffers>>}]
        /\ s[2] = "out" => Uses(s) = [read |-> {<<"out", p, a % Buffers>>}, write |-> {}]
    BY <1>2, <1>3, <1>4, <2>1, OverlappedFirst
  <2>3. /\ b \in Chunk /\ b \in Nat /\ q \in Pipe
        /\ t = <<q, "in">> \/ t = <<q, "comp">> \/ t = <<q, "out">>
        /\ t[2] = "in" => Uses(t) = [read |-> {}, write |-> {<<"in", q, b % Buffers>>}]
        /\ t[2] = "comp" => Uses(t) = [read |-> {<<"in", q, b % Buffers>>}, write |-> {<<"out", q, b % Buffers>>}]
        /\ t[2] = "out" => Uses(t) = [read |-> {<<"out", q, b % Buffers>>}, write |-> {}]
    BY <1>2, <1>3, <1>4, <2>1, OverlappedFirst
  <2>4. Buffers \in Nat \ {0}
    BY SizesAssumption
  <2>5. ASSUME p = q, s = <<p, "in">>, t = <<p, "comp">>
        PROVE  a % Buffers # b % Buffers
    <3>1. b < a /\ a < b + Buffers
      BY <1>2, <1>4, <2>1, <2>2, <2>5 DEF StreamsOrdered
    <3>2. QED
      BY <2>2, <2>3, <2>4, <3>1, SameBuffer
  <2>6. ASSUME p = q, s = <<p, "comp">>, t = <<p, "out">>
        PROVE  a % Buffers # b % Buffers
    <3>1. b < a /\ a < b + Buffers
      BY <1>2, <1>4, <2>1, <2>2, <2>6 DEF StreamsOrdered
    <3>2. QED
      BY <2>2, <2>3, <2>4, <3>1, SameBuffer
  <2>7. CASE s = <<p, "in">>
    <3>1. Uses(s).write = {<<"in", p, a % Buffers>>}
      BY <2>2, <2>7
    <3>2. CASE t = <<q, "in">>
      <4>1. p # q /\ Uses(t).read = {} /\ Uses(t).write = {<<"in", q, b % Buffers>>}
        BY <1>1, <2>3, <2>7, <3>2
      <4>2. QED
        BY <3>1, <4>1
    <3>3. CASE t = <<q, "comp">>
      <4>1. Uses(t).read = {<<"in", q, b % Buffers>>} /\ Uses(t).write = {<<"out", q, b % Buffers>>}
        BY <2>3, <3>3
      <4>2. p # q \/ a % Buffers # b % Buffers
        BY <2>5, <2>7, <3>3
      <4>3. QED
        BY <3>1, <4>1, <4>2
    <3>4. CASE t = <<q, "out">>
      <4>1. Uses(t).read = {<<"out", q, b % Buffers>>} /\ Uses(t).write = {}
        BY <2>3, <3>4
      <4>2. QED
        BY <3>1, <4>1
    <3>5. QED
      BY <2>3, <3>2, <3>3, <3>4
  <2>8. CASE s = <<p, "comp">>
    <3>1. Uses(s).write = {<<"out", p, a % Buffers>>}
      BY <2>2, <2>8
    <3>2. CASE t = <<q, "in">>
      <4>1. Uses(t).read = {} /\ Uses(t).write = {<<"in", q, b % Buffers>>}
        BY <2>3, <3>2
      <4>2. QED
        BY <3>1, <4>1
    <3>3. CASE t = <<q, "comp">>
      <4>1. p # q /\ Uses(t).read = {<<"in", q, b % Buffers>>} /\ Uses(t).write = {<<"out", q, b % Buffers>>}
        BY <1>1, <2>3, <2>8, <3>3
      <4>2. QED
        BY <3>1, <4>1
    <3>4. CASE t = <<q, "out">>
      <4>1. Uses(t).read = {<<"out", q, b % Buffers>>} /\ Uses(t).write = {}
        BY <2>3, <3>4
      <4>2. p # q \/ a % Buffers # b % Buffers
        BY <2>6, <2>8, <3>4
      <4>3. QED
        BY <3>1, <4>1, <4>2
    <3>5. QED
      BY <2>3, <3>2, <3>3, <3>4
  <2>9. CASE s = <<p, "out">>
    BY <2>2, <2>9
  <2>10. QED
    BY <2>2, <2>7, <2>8, <2>9
<1>5. CASE pass.kind = "serial"
  BY <1>1, <1>2, <1>5, SerialFirst
<1>6. CASE pass.kind = "h2d"
  <2>1. ASSUME NEW r \in Stream, queue[r] # <<>>
        PROVE  r = <<r[1], "in">> /\ Head(queue[r]).what = "copy_in"
    <3>1. Head(queue[r]) = OpAt(r[2], finished[r]) /\ r[2] = "in" /\ finished[r] \in Nat
      BY <1>2, <1>6, <2>1, FirstOperation DEF Lanes
    <3>2. Op("copy_in", finished[r], {}, "none").what = "copy_in"
      BY DEF Op
    <3>3. QED
      BY <1>6, <3>1, <3>2, H2dOps DEF Stream
  <2>2. s[1] # t[1]
    BY <1>1, <1>2, <2>1
  <2>3. /\ Uses(s).write = {<<"in", s[1], Head(queue[s]).buffer>>}
        /\ Uses(t).write = {<<"in", t[1], Head(queue[t]).buffer>>} /\ Uses(t).read = {}
    BY <1>2, <1>3, <2>1
  <2>4. QED
    BY <2>2, <2>3
<1>7. QED
  BY <1>2, <1>4, <1>5, <1>6 DEF PassTypeOK, Kinds

\* A block that is copied in is no larger than its buffer.
LEMMA FitsNow ==
  ASSUME PassInv
  PROVE  CopiesFit
<1>1. SUFFICES ASSUME NEW s \in running
               PROVE  BlockBytes(Head(queue[s]).chunk) <= capacity
  BY DEF CopiesFit
<1>2. PassTypeOK /\ HostFollows /\ QueuesFollow /\ CapacityEnough /\ s \in Stream /\ queue[s] # <<>>
  BY DEF PassInv, PassTypeOK, QueuesFollow
<1>3. Head(queue[s]).chunk \in Chunk
  <2>1. CASE pass.kind = "overlapped"
    BY <1>2, <2>1, OverlappedFirst
  <2>2. CASE pass.kind = "serial"
    BY <1>2, <2>2, SerialFirst
  <2>3. CASE pass.kind = "h2d"
    <3>1. /\ Head(queue[s]) = OpAt(s[2], finished[s]) /\ s[2] = "in" /\ s[1] \in Pipe
          /\ finished[s] \in Nat /\ finished[s] < Issued(s[1])
      BY <1>2, <2>3, FirstOperation DEF Lanes, IssuedTo
    <3>2. Op("copy_in", finished[s], {}, "none").chunk = finished[s]
      BY DEF Op
    <3>3. finished[s] \in Chunk
      BY <1>2, <3>1, IssuedType, SizesAssumption DEF Chunk
    <3>4. QED
      BY <2>3, <3>1, <3>2, <3>3, H2dOps
  <2>4. QED
    BY <1>2, <2>1, <2>2, <2>3 DEF PassTypeOK, Kinds
<1>4. PICK c \in Chunk : c = Head(queue[s]).chunk
  BY <1>3
<1>5. Block32[c] <= capacity /\ (encoded /\ c \notin Overflow => Block16[c] <= capacity)
  BY <1>2 DEF CapacityEnough
<1>6. Plan(c) = "int16" => encoded /\ c \notin Overflow
  BY DEF Plan
<1>7. QED
  BY <1>4, <1>5, <1>6 DEF BlockBytes

\* After every pass the blocks are those of the pass and of their chunks, no two
\* operations ever use a buffer one of them writes, and no copy is longer than its
\* buffer: for any number of chunks and buffers, any sizes and any timing.
THEOREM PassesApart == PipelineSpec => []PassesKeepApart
<1>1. PassInv => PassesKeepApart
  BY ApartNow, FitsNow DEF PassInv, PassesKeepApart
<1>2. QED
  BY <1>1, PassInvariant, PTL

-----------------------------------------------------------------------------
(* Slippage.                                                               *)

\* A side of a snapshot.
BookSide == [1..Levels -> [px : Nat, sz : Nat]]

\* The sizes of the machine and of a book.
LEMMA WarpSizes ==
  /\ WarpSize \in Nat \ {0} /\ Levels \in Nat \ {0} /\ WarpSize <= Levels /\ Levels <= 2 * WarpSize
  /\ \A k \in 1..(2 * WarpSize) : Target[k] \in Nat
<1>1. QED
  BY SlippageAssumption

\* Each offset is twice the one before.
LEMMA OffsetsDouble ==
  /\ Offset \in [0..WarpSize -> Nat] /\ Offset[0] = 1
  /\ \A k \in 1..WarpSize : Offset[k] = 2 * Offset[k - 1]
<1> DEFINE Doubles(f) == f = [k \in 0..WarpSize |-> IF k = 0 THEN 1 ELSE 2 * f[k - 1]]
<1>1. \E f : Doubles(f)
  <2> DEFINE step == [a \in Nat |-> 2 * a]
  <2>1. step \in [Nat -> Nat]
    OBVIOUS
  <2>2. \A a \in Nat : step[a] = 2 * a
    OBVIOUS
  <2> HIDE DEF step
  <2>3. PICK f \in [0..WarpSize -> Nat] : Steps(f, WarpSize, 1, step)
    BY <2>1, WarpSizes, StepsExist
  <2>4. \A k \in 0..WarpSize : k # 0 => f[k - 1] \in Nat
    BY WarpSizes
  <2>5. \A k \in 0..WarpSize : f[k] = IF k = 0 THEN 1 ELSE 2 * f[k - 1]
    BY <2>2, <2>3, <2>4 DEF Steps
  <2>6. QED
    BY <2>5
<1>2. Offset = CHOOSE f : Doubles(f)
  BY DEF Offset
<1>3. Doubles(Offset)
  BY <1>1, <1>2
<1>4. DOMAIN Offset = 0..WarpSize /\ \A k \in 0..WarpSize : Offset[k] = IF k = 0 THEN 1 ELSE 2 * Offset[k - 1]
  BY <1>3
<1> HIDE DEF Doubles
<1> DEFINE T == {k \in Nat : k <= WarpSize => Offset[k] \in Nat}
<1>5. 0 \in T
  BY <1>4, WarpSizes
<1>6. ASSUME NEW k \in T PROVE k + 1 \in T
  <2>1. k + 1 <= WarpSize => Offset[k] \in Nat /\ Offset[k + 1] = 2 * Offset[k]
    BY <1>4, WarpSizes
  <2>2. QED
    BY <2>1
<1>7. T = Nat
  BY <1>5, <1>6, Induction
<1>8. \A k \in 0..WarpSize : Offset[k] \in Nat
  BY <1>7, WarpSizes
<1>9. Offset = [k \in 0..WarpSize |-> Offset[k]]
  BY <1>3 DEF Doubles
<1>10. Offset \in [0..WarpSize -> Nat]
  BY <1>8, <1>9
<1>11. \A k \in 1..WarpSize : k \in 0..WarpSize /\ k # 0
  BY WarpSizes
<1>12. QED
  BY <1>4, <1>10, <1>11, WarpSizes

\* The last offset reaches across the warp.
LEMMA ShufflesReach ==
  Shuffles \in 0..WarpSize /\ Offset[Shuffles] >= WarpSize
<1> DEFINE T == {k \in Nat : k <= WarpSize => Offset[k] >= k + 1}
<1>1. 0 \in T
  BY OffsetsDouble
<1>2. ASSUME NEW k \in T PROVE k + 1 \in T
  <2>1. k + 1 <= WarpSize => Offset[k] \in Nat /\ Offset[k + 1] = 2 * Offset[k]
    BY OffsetsDouble, WarpSizes
  <2>2. QED
    BY <2>1, WarpSizes
<1>3. T = Nat
  BY <1>1, <1>2, Induction
<1>4. Offset[WarpSize] >= WarpSize
  <2>1. WarpSize \in T
    BY <1>3, WarpSizes
  <2>2. Offset[WarpSize] \in Nat
    BY WarpSizes, OffsetsDouble
  <2>3. Offset[WarpSize] >= WarpSize + 1
    BY <2>1, WarpSizes
  <2>4. QED
    BY <2>2, <2>3, WarpSizes
<1> DEFINE S == {k \in 0..WarpSize : Offset[k] >= WarpSize}
<1>5. WarpSize \in S /\ S \in SUBSET Nat
  BY <1>4, WarpSizes
<1>6. PICK m \in S : \A n \in S : m <= n
  BY <1>5, LeastNatural
<1>7. Shuffles \in S
  BY <1>6 DEF Shuffles, Min
<1>8. QED
  BY <1>7

\* What the lanes have when the sums of so many lanes, up to their own, are in.
Partial(c, off) == [l \in WarpLane |-> c[l + 1] - c[IF l + 1 >= off THEN l + 1 - off ELSE 0]]

\* A shuffle makes it twice as many.
LEMMA ShuffleDoubles ==
  ASSUME NEW c \in [0..WarpSize -> Int], NEW off \in Nat \ {0}
  PROVE  ShuffledBy(off, Partial(c, off)) = Partial(c, 2 * off)
<1> DEFINE v == Partial(c, off)
<1>1. ASSUME NEW l \in WarpLane
      PROVE  (IF l >= off THEN v[l] + v[l - off] ELSE v[l]) = c[l + 1] - c[IF l + 1 >= 2 * off THEN l + 1 - 2 * off ELSE 0]
  <2>1. l \in Nat /\ l + 1 \in 0..WarpSize /\ c[l + 1] \in Int /\ c[0] \in Int
    BY WarpSizes DEF WarpLane
  <2>2. CASE l >= off
    <3>1. PICK i \in Nat : i = l - off
      BY <2>1, <2>2
    <3>2. i \in WarpLane /\ i + 1 \in 0..WarpSize /\ l + 1 - off = i + 1
      BY <2>1, <3>1, WarpSizes DEF WarpLane
    <3>3. v[l] = c[l + 1] - c[i + 1]
      BY <2>1, <2>2, <3>2 DEF Partial
    <3>4. PICK e : e = IF i + 1 >= off THEN i + 1 - off ELSE 0
      OBVIOUS
    <3>5. v[i] = c[i + 1] - c[e]
      BY <3>2, <3>4 DEF Partial
    <3>6. e \in 0..WarpSize
      BY <3>1, <3>2, <3>4, WarpSizes
    <3>7. (IF l + 1 >= 2 * off THEN l + 1 - 2 * off ELSE 0) = e
      BY <2>1, <3>1, <3>4
    <3> HIDE DEF v
    <3>8. c[i + 1] \in Int /\ c[e] \in Int
      BY <3>2, <3>6
    <3>9. QED
      BY <2>1, <2>2, <3>1, <3>3, <3>5, <3>7, <3>8
  <2>3. CASE l < off
    <3>1. ~(l + 1 >= 2 * off) /\ (l + 1 >= off => l + 1 - off = 0)
      BY <2>1, <2>3
    <3>2. v[l] = c[l + 1] - c[0]
      BY <2>1, <3>1 DEF Partial
    <3>3. QED
      BY <2>1, <2>3, <3>1, <3>2
  <2>4. QED
    BY <2>1, <2>2, <2>3
<1>2. QED
  BY <1>1 DEF ShuffledBy, Partial

\* The lanes end with the sums up to their own.
LEMMA ShuffleUpSums ==
  ASSUME NEW value \in [WarpLane -> Int], NEW c \in [0..WarpSize -> Int],
         \A l \in WarpLane : c[l + 1] = c[l] + value[l]
  PROVE  \A l \in WarpLane : ShuffleUp(value)[l] = c[l + 1] - c[0]
<1> DEFINE Shuffling(v) == v = [k \in 0..Shuffles |-> IF k = 0 THEN value ELSE ShuffledBy(Offset[k - 1], v[k - 1])]
           h == [k \in 0..Shuffles |-> Partial(c, Offset[k])]
<1>1. Shuffles \in Nat /\ Shuffles <= WarpSize /\ Offset[Shuffles] >= WarpSize /\ Offset[Shuffles] \in Nat
  BY ShufflesReach, OffsetsDouble, WarpSizes
<1>2. \A k \in 0..Shuffles : h[k] = Partial(c, Offset[k])
  OBVIOUS
<1>3. Partial(c, Offset[0]) = value
  <2>1. ASSUME NEW l \in WarpLane PROVE c[l + 1] - c[IF l + 1 >= 1 THEN l + 1 - 1 ELSE 0] = value[l]
    <3>1. l \in Nat /\ l \in 0..WarpSize /\ l + 1 \in 0..WarpSize /\ l + 1 - 1 = l
      BY WarpSizes DEF WarpLane
    <3>2. c[l] \in Int /\ value[l] \in Int /\ c[l + 1] = c[l] + value[l]
      BY <3>1
    <3>3. QED
      BY <3>1, <3>2
  <2>2. Offset[0] = 1
    BY OffsetsDouble
  <2>3. QED
    BY <2>1, <2>2 DEF Partial
<1>4. ASSUME NEW k \in 1..Shuffles PROVE Partial(c, Offset[k]) = ShuffledBy(Offset[k - 1], Partial(c, Offset[k - 1]))
  <2>1. k - 1 \in 0..WarpSize /\ k \in 1..WarpSize
    BY <1>1, WarpSizes
  <2>2. PICK o \in Nat : o = Offset[k - 1]
    BY <2>1, OffsetsDouble
  <2>3. Offset[k] = 2 * o
    BY <2>1, <2>2, OffsetsDouble
  <2>4. o # 0
    <3> DEFINE T == {n \in Nat : n <= WarpSize => Offset[n] # 0}
    <3>1. 0 \in T
      BY OffsetsDouble
    <3>2. ASSUME NEW n \in T PROVE n + 1 \in T
      <4>1. n + 1 <= WarpSize => Offset[n] \in Nat /\ Offset[n + 1] = 2 * Offset[n]
        BY OffsetsDouble, WarpSizes
      <4>2. QED
        BY <4>1, WarpSizes
    <3>3. T = Nat
      BY <3>1, <3>2, Induction
    <3>4. QED
      BY <2>1, <2>2, <3>3, WarpSizes
  <2>5. QED
    BY <2>2, <2>3, <2>4, ShuffleDoubles
<1> HIDE DEF h
<1>5. h = [k \in 0..Shuffles |-> IF k = 0 THEN value ELSE ShuffledBy(Offset[k - 1], h[k - 1])]
  <2>1. \A k \in 0..Shuffles : Partial(c, Offset[k]) = IF k = 0 THEN value ELSE ShuffledBy(Offset[k - 1], h[k - 1])
    BY <1>1, <1>2, <1>3, <1>4
  <2>2. QED
    BY <2>1 DEF h
<1> DEFINE v == CHOOSE f : Shuffling(f)
<1>6. ShuffleUp(value) = v[Shuffles]
  BY DEF ShuffleUp
<1>7. Shuffling(v)
  BY <1>5
<1>8. \A k \in 0..Shuffles : v[k] = IF k = 0 THEN value ELSE ShuffledBy(Offset[k - 1], v[k - 1])
  BY <1>7
<1>9. \A k \in 0..Shuffles : h[k] = IF k = 0 THEN value ELSE ShuffledBy(Offset[k - 1], h[k - 1])
  BY <1>5
<1> HIDE DEF v, Shuffling
<1> DEFINE T == {k \in Nat : k <= Shuffles => v[k] = h[k]}
<1>10. 0 \in T
  BY <1>1, <1>8, <1>9
<1>11. ASSUME NEW k \in T PROVE k + 1 \in T
  <2>1. SUFFICES ASSUME k + 1 <= Shuffles PROVE v[k + 1] = h[k + 1]
    OBVIOUS
  <2>2. k + 1 \in 0..Shuffles /\ k + 1 # 0 /\ (k + 1) - 1 = k /\ v[k] = h[k]
    BY <1>1, <2>1
  <2>3. QED
    BY <1>8, <1>9, <2>2
<1>12. v[Shuffles] = Partial(c, Offset[Shuffles])
  <2>1. T = Nat
    BY <1>10, <1>11, Induction
  <2>2. v[Shuffles] = h[Shuffles] /\ Shuffles \in 0..Shuffles
    BY <1>1, <2>1
  <2>3. QED
    BY <1>2, <2>2
<1>13. ASSUME NEW l \in WarpLane PROVE Partial(c, Offset[Shuffles])[l] = c[l + 1] - c[0]
  <2>1. PICK o \in Nat : o = Offset[Shuffles]
    BY <1>1
  <2>2. l \in Nat /\ l + 1 <= o
    BY <1>1, <2>1, WarpSizes DEF WarpLane
  <2>3. l + 1 >= o => l + 1 - o = 0
    BY <2>2
  <2>4. QED
    BY <2>1, <2>3 DEF Partial
<1>14. QED
  BY <1>6, <1>12, <1>13

\* The sums of the levels.
LEMMA CumsumFacts ==
  ASSUME NEW value \in [1..Levels -> Nat]
  PROVE  /\ Cumsum(value) \in [0..Levels -> Nat] /\ Cumsum(value)[0] = 0
         /\ \A l \in 1..Levels : Cumsum(value)[l] = Cumsum(value)[l - 1] + value[l]
<1> DEFINE Totals(c) == c = [l \in 0..Levels |-> IF l = 0 THEN 0 ELSE c[l - 1] + value[l]]
<1>1. Levels \in Nat
  BY WarpSizes
<1>2. \E c : Totals(c)
  <2> DEFINE w == [a \in Nat |-> a]
  <2>1. value \in Seq(Nat) /\ Len(value) = Levels
    BY <1>1
  <2>2. w \in [Nat -> Int]
    OBVIOUS
  <2>3. PICK c : Sums(w, value, c)
    BY <2>1, <2>2, TotalIsSum
  <2>4. c \in [0..Levels -> Int] /\ c[0] = 0 /\ \A l \in 1..Levels : c[l] = c[l - 1] + value[l]
    BY <2>1, <2>3 DEF Sums
  <2>5. \A l \in 0..Levels : l = 0 \/ l \in 1..Levels
    BY <1>1
  <2>6. Totals(c)
    BY <2>4, <2>5
  <2>7. QED
    BY <2>6
<1>3. Cumsum(value) = CHOOSE c : Totals(c)
  BY DEF Cumsum
<1>4. Totals(Cumsum(value))
  BY <1>2, <1>3
<1> DEFINE c == Cumsum(value)
<1>5. /\ c = [l \in 0..Levels |-> c[l]]
      /\ \A l \in 0..Levels : c[l] = IF l = 0 THEN 0 ELSE c[l - 1] + value[l]
  BY <1>4
<1> HIDE DEF c, Totals
<1> DEFINE T == {l \in Nat : l <= Levels => c[l] \in Nat}
<1>6. 0 \in T
  BY <1>1, <1>5
<1>7. ASSUME NEW l \in T PROVE l + 1 \in T
  <2>1. SUFFICES ASSUME l + 1 <= Levels PROVE c[l + 1] \in Nat
    OBVIOUS
  <2>2. PICK k \in 1..Levels : k = l + 1 /\ k - 1 = l
    BY <1>1, <2>1
  <2>3. c[l] \in Nat /\ value[k] \in Nat
    BY <1>1, <2>2
  <2>4. k \in 0..Levels /\ k # 0
    BY <1>1
  <2>5. c[k] = c[k - 1] + value[k]
    BY ONLY <1>5, <2>4
  <2>6. QED
    BY <2>2, <2>3, <2>5
<1>8. T = Nat
  BY <1>6, <1>7, Induction
<1>9. \A l \in 0..Levels : c[l] \in Nat
  BY <1>1, <1>8
<1>10. \A l \in 1..Levels : l \in 0..Levels /\ l # 0
  BY <1>1
<1>11. c \in [0..Levels -> Nat]
  BY <1>5, <1>9
<1>12. c[0] = 0 /\ \A l \in 1..Levels : c[l] = c[l - 1] + value[l]
  <2>1. 0 \in 0..Levels
    BY <1>1
  <2>2. c[0] = 0
    BY ONLY <1>5, <2>1
  <2>3. ASSUME NEW l \in 1..Levels PROVE c[l] = c[l - 1] + value[l]
    BY ONLY <1>5, <1>10
  <2>4. QED
    BY <2>2, <2>3
<1>13. QED
  BY <1>11, <1>12 DEF c

\* They never decrease.
LEMMA CumsumGrows ==
  ASSUME NEW value \in [1..Levels -> Nat], NEW i \in 0..Levels, NEW j \in 0..Levels, i <= j
  PROVE  Cumsum(value)[i] <= Cumsum(value)[j]
<1> DEFINE c == Cumsum(value)
           T == {d \in Nat : i + d <= Levels => c[i] <= c[i + d]}
<1>1. /\ Levels \in Nat /\ c \in [0..Levels -> Nat]
      /\ \A l \in 1..Levels : c[l] = c[l - 1] + value[l]
  BY WarpSizes, CumsumFacts
<1> HIDE DEF c
<1>2. 0 \in T
  BY <1>1
<1>3. ASSUME NEW d \in T PROVE d + 1 \in T
  <2>1. SUFFICES ASSUME i + (d + 1) <= Levels PROVE c[i] <= c[i + (d + 1)]
    OBVIOUS
  <2>2. PICK k \in 1..Levels : k = i + (d + 1) /\ k - 1 = i + d
    BY <1>1, <2>1
  <2>3. c[k] = c[k - 1] + value[k] /\ value[k] \in Nat /\ c[k - 1] \in Nat /\ c[i] \in Nat
    BY <1>1, <2>2
  <2>4. c[i] <= c[k - 1]
    BY <1>1, <2>1, <2>2
  <2>5. QED
    BY <2>2, <2>3, <2>4
<1>4. T = Nat
  BY <1>2, <1>3, Induction
<1>5. PICK d \in Nat : d = j - i
  BY <1>1
<1>6. i + d = j
  BY <1>1, <1>5
<1>7. i + d <= Levels => c[i] <= c[i + d]
  BY <1>4
<1>8. QED
  BY <1>1, <1>6, <1>7 DEF c

\* The levels before the first one that is not valid.
LEMMA LeadingFacts ==
  ASSUME NEW levels \in BookSide
  PROVE  /\ LeadingValid(levels) \in 0..Levels
         /\ \A l \in 1..LeadingValid(levels) : Valid(levels[l])
         /\ LeadingValid(levels) < Levels => ~Valid(levels[LeadingValid(levels) + 1])
<1> DEFINE S == {m \in 0..Levels : \A l \in 1..m : Valid(levels[l])}
           D == {d \in Nat : Levels - d \in S}
<1>1. Levels \in Nat
  BY WarpSizes
<1>2. 0 \in S /\ Levels \in D
  BY <1>1
<1>3. PICK d \in D : \A e \in D : d <= e
  BY <1>2, LeastNatural
<1>4. PICK m : m = Levels - d
  OBVIOUS
<1>5. m \in S /\ m \in Nat /\ m <= Levels
  BY <1>1, <1>3, <1>4
<1>6. ASSUME NEW n \in S PROVE m >= n
  <2>1. Levels - n \in D
    BY <1>1
  <2>2. QED
    BY <1>1, <1>3, <1>4, <2>1
<1>7. LeadingValid(levels) \in S /\ \A n \in S : LeadingValid(levels) >= n
  BY <1>5, <1>6 DEF LeadingValid, Max
<1>8. ASSUME LeadingValid(levels) < Levels, Valid(levels[LeadingValid(levels) + 1]) PROVE FALSE
  <2>1. PICK k : k = LeadingValid(levels)
    OBVIOUS
  <2>2. k \in Nat /\ k + 1 \in 0..Levels /\ \A l \in 1..k : Valid(levels[l])
    BY <1>1, <1>7, <1>8, <2>1
  <2>3. \A l \in 1..(k + 1) : l = k + 1 \/ l \in 1..k
    BY <2>2
  <2>4. k + 1 \in S
    BY <1>8, <2>1, <2>2, <2>3
  <2>5. QED
    BY <1>7, <2>1, <2>2, <2>4
<1>9. QED
  BY <1>7, <1>8

\* What counts of the levels is a number of each.
LEMMA CountedTypes ==
  ASSUME NEW levels \in BookSide, NEW m \in Nat
  PROVE  /\ Notional(levels, m) \in [1..Levels -> Nat]
         /\ Quantity(levels, m) \in [1..Levels -> Nat]
<1>1. ASSUME NEW l \in 1..Levels PROVE levels[l].px \in Nat /\ levels[l].sz \in Nat /\ levels[l].px * levels[l].sz \in Nat
  <2>1. PICK a \in Nat, b \in Nat : a = levels[l].px /\ b = levels[l].sz
    BY DEF BookSide
  <2>2. a * b \in Nat
    OBVIOUS
  <2>3. QED
    BY <2>1, <2>2
<1>2. QED
  BY <1>1 DEF Notional, Quantity

\* The walk stops at level j + 1 of m valid ones, or has passed all of them.
StopsAfter(levels, target, j) ==
  LET m == LeadingValid(levels)
      n == Cumsum(Notional(levels, m))
  IN  /\ j \in 0..m
      /\ \A i \in 1..j : n[i] < target
      /\ j < m => n[j + 1] >= target

\* How it ends then.
EndsAfter(levels, target, j) ==
  LET m == LeadingValid(levels)
      n == Cumsum(Notional(levels, m))
      q == Cumsum(Quantity(levels, m))
  IN  IF j < m THEN [n |-> n[j], q |-> q[j], used |-> j + 1, full |-> TRUE, stop |-> TRUE,
                     rest |-> target - n[j], px |-> levels[j + 1].px]
      ELSE [n |-> n[m], q |-> q[m], used |-> m, full |-> FALSE, stop |-> m < Levels, rest |-> 0, px |-> 0]

\* A walk that stops so ends so: level by level it has the sums, and then it keeps what it has.
LEMMA WalkFollows ==
  ASSUME NEW levels \in BookSide, NEW target \in Nat, NEW j, StopsAfter(levels, target, j)
  PROVE  WalkEnd(levels, target) = EndsAfter(levels, target, j)
<1> DEFINE m == LeadingValid(levels)
           n == Cumsum(Notional(levels, m))
           q == Cumsum(Quantity(levels, m))
           Passed(l) == [n |-> n[l], q |-> q[l], used |-> l, full |-> FALSE, stop |-> FALSE, rest |-> 0, px |-> 0]
           Filled == [n |-> n[j], q |-> q[j], used |-> j + 1, full |-> TRUE, stop |-> TRUE,
                      rest |-> target - n[j], px |-> levels[j + 1].px]
           Ended == [n |-> n[m], q |-> q[m], used |-> m, full |-> FALSE, stop |-> TRUE, rest |-> 0, px |-> 0]
           At(l) == IF l <= j THEN Passed(l) ELSE IF j < m THEN Filled ELSE Ended
           Walking(w) == w = [l \in 0..Levels |-> IF l = 0 THEN Unfilled ELSE Walked(w[l - 1], levels[l], target)]
<1>1. Levels \in Nat /\ m \in Nat /\ m <= Levels /\ j \in Nat /\ j <= m
  BY WarpSizes, LeadingFacts DEF StopsAfter
<1>2. /\ \A l \in 1..m : Valid(levels[l])
      /\ m < Levels => ~Valid(levels[m + 1])
  BY LeadingFacts
<1>3. /\ n \in [0..Levels -> Nat] /\ q \in [0..Levels -> Nat] /\ n[0] = 0 /\ q[0] = 0
      /\ \A l \in 1..Levels : /\ n[l] = n[l - 1] + Notional(levels, m)[l]
                              /\ q[l] = q[l - 1] + Quantity(levels, m)[l]
  BY <1>1, CountedTypes, CumsumFacts
<1>4. \A l \in 1..m : /\ n[l] = n[l - 1] + levels[l].px * levels[l].sz
                      /\ q[l] = q[l - 1] + levels[l].sz
  <2>1. \A l \in 1..m : l \in 1..Levels
    BY <1>1
  <2>2. \A l \in 1..Levels : l <= m => /\ Notional(levels, m)[l] = levels[l].px * levels[l].sz
                                       /\ Quantity(levels, m)[l] = levels[l].sz
    BY DEF Notional, Quantity
  <2>3. \A l \in 1..m : l <= m
    BY <1>1
  <2> HIDE DEF m, n, q
  <2>4. QED
    BY <1>3, <2>1, <2>2, <2>3
<1>5. (\A i \in 1..j : n[i] < target) /\ (j < m => n[j + 1] >= target)
  BY DEF StopsAfter
<1> HIDE DEF m, n, q
<1>6. At(0) = Unfilled
  BY <1>1, <1>3 DEF Unfilled
<1>7. ASSUME NEW l \in 1..Levels PROVE At(l) = Walked(At(l - 1), levels[l], target)
  <2>1. CASE l <= j
    <3>1. l - 1 <= j /\ l \in 1..m /\ l \in 1..j /\ l \in Nat
      BY <1>1, <2>1
    <3>2. At(l - 1) = Passed(l - 1) /\ At(l) = Passed(l)
      BY <2>1, <3>1
    <3>3. PICK x : x = levels[l].px * levels[l].sz
      OBVIOUS
    <3>4. PICK v : v = levels[l]
      OBVIOUS
    <3>5. Valid(v) /\ n[l] = n[l - 1] + x /\ q[l] = q[l - 1] + v.sz /\ x = v.px * v.sz
      BY <1>2, <1>4, <3>1, <3>3, <3>4
    <3>6. n[l] \in Nat /\ target \in Nat /\ n[l] < target
      BY <1>3, <1>5, <3>1
    <3>7. ~(n[l - 1] + x >= target)
      BY <3>5, <3>6
    <3>8. (l - 1) + 1 = l
      BY <3>1
    <3>9. Walked(Passed(l - 1), v, target) = Passed(l)
      BY ONLY <3>5, <3>7, <3>8 DEF Walked
    <3>10. QED
      BY <3>2, <3>4, <3>9
  <2>2. CASE l = j + 1
    <3>1. l - 1 <= j /\ ~(l <= j) /\ l - 1 = j /\ l \in Nat
      BY <1>1, <2>2
    <3>2. At(l - 1) = Passed(j)
      BY <3>1
    <3>3. PICK v : v = levels[l]
      OBVIOUS
    <3>4. CASE j < m
      <4>1. l \in 1..m
        BY <1>1, <2>2, <3>4
      <4>2. Valid(v) /\ n[l] = n[j] + v.px * v.sz /\ n[l] >= target
        BY <1>2, <1>4, <1>5, <2>2, <3>1, <3>3, <3>4, <4>1
      <4>3. n[j] + v.px * v.sz >= target
        BY <4>2
      <4>4. Walked(Passed(j), v, target) = [n |-> n[j], q |-> q[j], used |-> j + 1, full |-> TRUE, stop |-> TRUE,
                                            rest |-> target - n[j], px |-> v.px]
        BY ONLY <4>2, <4>3 DEF Walked
      <4>5. At(l) = Filled /\ levels[j + 1] = v
        BY <2>2, <3>1, <3>3, <3>4
      <4>6. QED
        BY <3>2, <3>3, <4>4, <4>5
    <3>5. CASE ~(j < m)
      <4>1. j = m /\ m < Levels
        BY <1>1, <2>2, <3>5
      <4>2. ~Valid(v)
        BY <1>2, <2>2, <3>3, <4>1
      <4>3. Walked(Passed(j), v, target) = [n |-> n[j], q |-> q[j], used |-> j, full |-> FALSE, stop |-> TRUE,
                                            rest |-> 0, px |-> 0]
        BY ONLY <4>2 DEF Walked
      <4>4. At(l) = Ended
        BY <3>1, <3>5
      <4>5. QED
        BY <3>2, <3>3, <4>1, <4>3, <4>4
    <3>6. QED
      BY <3>4, <3>5
  <2>3. CASE l > j + 1
    <3>1. ~(l - 1 <= j) /\ ~(l <= j)
      BY <1>1, <2>3
    <3>2. At(l - 1) = At(l) /\ At(l).stop
      BY <3>1
    <3>3. Walked(At(l - 1), levels[l], target) = At(l - 1)
      BY <3>2 DEF Walked
    <3>4. QED
      BY <3>2, <3>3
  <2>4. QED
    BY <1>1, <2>1, <2>2, <2>3
<1> DEFINE h == [l \in 0..Levels |-> At(l)]
<1>8. \A l \in 0..Levels : h[l] = At(l)
  OBVIOUS
<1> HIDE DEF At
<1>9. \A l \in 0..Levels : At(l) = IF l = 0 THEN Unfilled ELSE Walked(h[l - 1], levels[l], target)
  <2>1. ASSUME NEW l \in 0..Levels, l # 0 PROVE At(l) = Walked(h[l - 1], levels[l], target)
    <3>1. l \in 1..Levels /\ l - 1 \in 0..Levels
      BY <1>1, <2>1
    <3>2. QED
      BY <1>7, <1>8, <3>1
  <2>2. QED
    BY <1>6, <2>1
<1>10. Walking(h)
  BY <1>9
<1> HIDE DEF h
<1> DEFINE w == CHOOSE f : Walking(f)
<1>11. WalkEnd(levels, target) = w[Levels]
  BY DEF WalkEnd
<1>12. Walking(w)
  BY <1>10
<1>13. \A l \in 0..Levels : w[l] = IF l = 0 THEN Unfilled ELSE Walked(w[l - 1], levels[l], target)
  BY <1>12
<1>14. \A l \in 0..Levels : h[l] = IF l = 0 THEN Unfilled ELSE Walked(h[l - 1], levels[l], target)
  BY <1>10
<1> HIDE DEF w, Walking
<1> DEFINE T == {l \in Nat : l <= Levels => w[l] = h[l]}
<1>15. 0 \in T
  BY <1>1, <1>13, <1>14
<1>16. ASSUME NEW l \in T PROVE l + 1 \in T
  <2>1. SUFFICES ASSUME l + 1 <= Levels PROVE w[l + 1] = h[l + 1]
    OBVIOUS
  <2>2. l + 1 \in 0..Levels /\ l + 1 # 0 /\ (l + 1) - 1 = l /\ w[l] = h[l]
    BY <1>1, <2>1
  <2>3. QED
    BY <1>13, <1>14, <2>2
<1>17. T = Nat
  BY <1>15, <1>16, Induction
<1>18. WalkEnd(levels, target) = At(Levels)
  BY <1>1, <1>8, <1>11, <1>17
<1>19. CASE j < m
  <2>1. At(Levels) = Filled
    BY <1>1, <1>19 DEF At
  <2>2. QED
    BY <1>18, <1>19, <2>1 DEF EndsAfter, m, n, q
<1>20. CASE ~(j < m)
  <2>1. j = m
    BY <1>1, <1>20
  <2>2. At(Levels) = [n |-> n[m], q |-> q[m], used |-> m, full |-> FALSE, stop |-> m < Levels, rest |-> 0, px |-> 0]
    <3>1. CASE Levels <= j
      <4>1. m = Levels /\ ~(m < Levels)
        BY <1>1, <2>1, <3>1
      <4>2. At(Levels) = Passed(Levels)
        BY <3>1 DEF At
      <4>3. n[Levels] = n[m] /\ q[Levels] = q[m] /\ (m < Levels) = FALSE
        BY <4>1
      <4>4. QED
        BY <4>1, <4>2, <4>3
    <3>2. CASE ~(Levels <= j)
      <4>1. m < Levels
        BY <1>1, <2>1, <3>2
      <4>2. QED
        BY <1>20, <3>2, <4>1 DEF At
    <3>3. QED
      BY <3>1, <3>2
  <2>3. QED
    BY <1>18, <1>20, <2>2 DEF EndsAfter, m, n, q
<1>21. QED
  BY <1>19, <1>20

\* The sums of the levels, as they are stored.
SumsOf(levels) ==
  LET m == LeadingValid(levels)
  IN  [l \in 1..Levels |-> [n |-> Cumsum(Notional(levels, m))[l], q |-> Cumsum(Quantity(levels, m))[l], px |-> levels[l].px]]

\* An order that is looked up in the sums gets what the walk gets.
LEMMA LookedUpIsWalked ==
  ASSUME NEW levels \in BookSide, NEW target \in Nat, NEW j, StopsAfter(levels, target, j),
         NEW sums, \A l \in 1..Levels : sums[l] = SumsOf(levels)[l]
  PROVE  Resolved(sums, LeadingValid(levels), j, target) = Walk(levels, target)
<1> DEFINE m == LeadingValid(levels)
           n == Cumsum(Notional(levels, m))
           q == Cumsum(Quantity(levels, m))
<1>1. Levels \in Nat /\ m \in Nat /\ m <= Levels /\ j \in Nat /\ j <= m
  BY WarpSizes, LeadingFacts DEF StopsAfter
<1>2. n[0] = 0 /\ q[0] = 0
  BY <1>1, CountedTypes, CumsumFacts
<1>3. ASSUME NEW l \in 1..Levels PROVE sums[l].n = n[l] /\ sums[l].q = q[l] /\ sums[l].px = levels[l].px
  <2>1. SumsOf(levels)[l] = [n |-> n[l], q |-> q[l], px |-> levels[l].px]
    BY DEF SumsOf
  <2> HIDE DEF n, q, m
  <2>2. sums[l] = [n |-> n[l], q |-> q[l], px |-> levels[l].px]
    BY <2>1
  <2>3. QED
    BY <2>2
<1>4. WalkEnd(levels, target) = EndsAfter(levels, target, j)
  BY WalkFollows
<1> DEFINE before(l) == IF l > 0 THEN sums[l] ELSE [n |-> 0, q |-> 0, px |-> 0]
<1>5. ASSUME NEW l \in 0..m PROVE before(l).n = n[l] /\ before(l).q = q[l]
  <2> HIDE DEF m, n, q
  <2>1. l = 0 \/ (l > 0 /\ l \in 1..Levels)
    BY <1>1
  <2>2. QED
    BY <1>2, <1>3, <2>1
<1>6. CASE j < m
  <2>1. j + 1 \in 1..Levels /\ j \in 0..m
    BY <1>1, <1>6
  <2>2. Resolved(sums, m, j, target) = Result(j + 1, TRUE, target, q[j], target - n[j], levels[j + 1].px)
    <3> HIDE DEF m, n, q
    <3>1. Resolved(sums, m, j, target) = Result(j + 1, TRUE, target, before(j).q, target - before(j).n, sums[j + 1].px)
      BY <1>6 DEF Resolved
    <3>2. sums[j + 1].px = levels[j + 1].px
      BY <1>3, <2>1
    <3> HIDE DEF before
    <3>3. QED
      BY <1>5, <2>1, <3>1, <3>2
  <2>3. Walk(levels, target) = Result(j + 1, TRUE, target, q[j], target - n[j], levels[j + 1].px)
    <3> HIDE DEF n, q
    <3>1. EndsAfter(levels, target, j) = [n |-> n[j], q |-> q[j], used |-> j + 1, full |-> TRUE, stop |-> TRUE,
                     rest |-> target - n[j], px |-> levels[j + 1].px]
      BY <1>6 DEF EndsAfter, n, q
    <3>2. QED
      BY <1>4, <3>1 DEF Walk
  <2>4. QED
    BY <2>2, <2>3
<1>7. CASE ~(j < m)
  <2>1. m \in 0..m
    BY <1>1
  <2>2. Resolved(sums, m, j, target) = Result(m, FALSE, n[m], q[m], 0, 0)
    <3> HIDE DEF m, n, q
    <3>1. Resolved(sums, m, j, target) = Result(m, FALSE, before(m).n, before(m).q, 0, 0)
      BY <1>7 DEF Resolved
    <3> HIDE DEF before
    <3>2. QED
      BY <1>5, <2>1, <3>1
  <2>3. Walk(levels, target) = Result(m, FALSE, n[m], q[m], 0, 0)
    <3> HIDE DEF n, q
    <3>1. EndsAfter(levels, target, j) = [n |-> n[m], q |-> q[m], used |-> m, full |-> FALSE, stop |-> m < Levels, rest |-> 0, px |-> 0]
      BY <1>7 DEF EndsAfter, n, q
    <3>2. QED
      BY <1>4, <3>1 DEF Walk
  <2>4. QED
    BY <2>2, <2>3
<1>8. QED
  BY <1>6, <1>7

\* A target that is searched for is found where the walk stops: below it are the first j sums.
LEMMA StopsSomewhere ==
  ASSUME NEW levels \in BookSide, NEW target \in Nat
  PROVE  \E j \in 0..LeadingValid(levels) :
           /\ StopsAfter(levels, target, j)
           /\ {l \in 1..LeadingValid(levels) : Below(SumsOf(levels)[l].n, target)} = 1..j
<1> DEFINE m == LeadingValid(levels)
           value == Notional(levels, m)
           n == Cumsum(value)
           D == {d \in Nat : d <= m /\ (d < m => n[d + 1] >= target)}
<1>1. Levels \in Nat /\ m \in Nat /\ m <= Levels
  BY WarpSizes, LeadingFacts
<1>2. value \in [1..Levels -> Nat] /\ n \in [0..Levels -> Nat]
  BY <1>1, CountedTypes, CumsumFacts
<1>3. \A a, b \in 0..Levels : a <= b => n[a] <= n[b]
  BY <1>2, CumsumGrows
<1>4. \A l \in 1..Levels : SumsOf(levels)[l].n = n[l]
  BY DEF SumsOf
<1>5. StopsAfter(levels, target, 0) \/ TRUE
  OBVIOUS
<1>6. \A j : StopsAfter(levels, target, j) <=>
        (j \in 0..m /\ (\A i \in 1..j : n[i] < target) /\ (j < m => n[j + 1] >= target))
  BY DEF StopsAfter
<1> HIDE DEF m, n, value
<1>7. PICK j \in D : \A d \in D : j <= d
  <2>1. m \in D
    BY <1>1
  <2>2. QED
    BY <2>1, LeastNatural
<1>8. j \in Nat /\ j <= m /\ (j < m => n[j + 1] >= target)
  BY <1>7
<1>9. ASSUME NEW i \in 1..j PROVE n[i] < target
  <2>1. PICK d \in Nat : d = i - 1
    BY <1>8
  <2>2. d + 1 = i /\ d < j /\ i \in 0..Levels
    BY <1>1, <1>8, <2>1
  <2>3. ~(j <= d) /\ d <= m
    BY <1>1, <1>8, <2>2
  <2>4. ~(n[i] >= target)
    <3>1. SUFFICES ASSUME n[d + 1] >= target PROVE FALSE
      BY <2>2
    <3>2. d \in D
      BY <2>3, <3>1
    <3>3. QED
      BY <1>7, <2>3, <3>2
  <2>5. QED
    BY <1>2, <2>2, <2>4
<1>10. ASSUME NEW l \in 1..m PROVE Below(n[l], target) <=> l \in 1..j
  <2>1. CASE l <= j
    BY <1>8, <1>9, <2>1 DEF Below
  <2>2. CASE l > j
    <3>1. j + 1 \in 0..Levels /\ l \in 0..Levels /\ j + 1 <= l /\ j < m
      BY <1>1, <1>8, <2>2
    <3>2. n[j + 1] >= target /\ n[j + 1] <= n[l] /\ n[j + 1] \in Nat /\ n[l] \in Nat
      BY <1>2, <1>3, <1>8, <3>1
    <3>3. QED
      BY <1>1, <1>8, <2>2, <3>2 DEF Below
  <2>3. QED
    BY <1>1, <1>8, <2>1, <2>2
<1>11. {l \in 1..m : Below(SumsOf(levels)[l].n, target)} = 1..j
  <2>1. \A l \in 1..m : l \in 1..Levels
    BY <1>1
  <2>2. \A l \in 1..j : l \in 1..m
    BY <1>1, <1>8
  <2>3. QED
    BY <1>4, <1>10, <2>1, <2>2
<1>12. StopsAfter(levels, target, j)
  BY <1>1, <1>6, <1>8, <1>9
<1>13. QED
  BY <1>1, <1>8, <1>11, <1>12 DEF m

\* The reference counts the sums below the target.
LEMMA NumpyIsWalked ==
  ASSUME NEW levels \in BookSide, NEW target \in Nat
  PROVE  SideNumpy(levels, target) = Walk(levels, target)
<1>1. PICK j \in 0..LeadingValid(levels) :
        /\ StopsAfter(levels, target, j)
        /\ {l \in 1..LeadingValid(levels) : Below(SumsOf(levels)[l].n, target)} = 1..j
  BY StopsSomewhere
<1>2. j \in Nat /\ Cardinality(1..j) = j
  <2>1. j \in Nat
    BY LeadingFacts, WarpSizes
  <2>2. QED
    BY <2>1, FS_Interval
<1>3. SideNumpy(levels, target) = Resolved(SumsOf(levels), LeadingValid(levels), j, target)
  <2>1. SideNumpy(levels, target) =
          Resolved(SumsOf(levels), LeadingValid(levels),
                   Cardinality({l \in 1..LeadingValid(levels) : Below(SumsOf(levels)[l].n, target)}), target)
    BY DEF SideNumpy, SumsOf
  <2>2. QED
    BY <1>1, <1>2, <2>1
<1>4. QED
  BY <1>1, <1>3, LookedUpIsWalked

\* The lanes' scans are the sums of their levels.
LEMMA LanesHaveSums ==
  ASSUME NEW value \in [1..Levels -> Nat], NEW l \in WarpLane
  PROVE  /\ Inclusive(Lower(value), Upper(value))[1][l] = Cumsum(value)[l + 1]
         /\ l + 1 + WarpSize <= Levels =>
              Inclusive(Lower(value), Upper(value))[2][l] = Cumsum(value)[l + 1 + WarpSize]
<1> DEFINE c == Cumsum(value)
           first == [k \in 0..WarpSize |-> c[k]]
           rest == [k \in 0..WarpSize |-> IF k + WarpSize <= Levels THEN c[k + WarpSize] ELSE c[Levels]]
<1>1. /\ WarpSize \in Nat \ {0} /\ Levels \in Nat /\ WarpSize <= Levels /\ Levels <= 2 * WarpSize
      /\ c \in [0..Levels -> Nat] /\ c[0] = 0
      /\ \A k \in 1..Levels : c[k] = c[k - 1] + value[k]
  BY WarpSizes, CumsumFacts
<1> HIDE DEF c
<1>0. WarpSize \in Nat /\ Levels \in Nat
  BY <1>1
<1>2. ASSUME NEW i \in WarpLane
      PROVE  /\ i \in 0..WarpSize /\ i + 1 \in 0..WarpSize /\ i + 1 \in 1..Levels
             /\ i \in Nat /\ (i + 1) - 1 = i /\ i + 1 <= WarpSize
  BY <1>1 DEF WarpLane
<1>3. first \in [0..WarpSize -> Int] /\ rest \in [0..WarpSize -> Int]
  <2>1. \A k \in 0..WarpSize : k \in 0..Levels /\ c[k] \in Int
    BY <1>1
  <2>2. \A k \in 0..WarpSize : (IF k + WarpSize <= Levels THEN c[k + WarpSize] ELSE c[Levels]) \in Int
    BY <1>1
  <2>3. QED
    BY <2>1, <2>2
<1>4. Lower(value) \in [WarpLane -> Int] /\ Upper(value) \in [WarpLane -> Int]
  <2>1. \A i \in WarpLane : value[i + 1] \in Int
    BY <1>2
  <2>2. ASSUME NEW i \in WarpLane, i + 1 + WarpSize <= Levels PROVE value[i + 1 + WarpSize] \in Int
    <3>1. i \in Nat
      BY <1>2
    <3>2. i + 1 + WarpSize \in 1..Levels
      BY ONLY <1>0, <2>2, <3>1
    <3>3. QED
      BY <3>2
  <2>3. QED
    BY <2>1, <2>2 DEF Lower, Upper
<1>5. ASSUME NEW i \in WarpLane PROVE first[i + 1] = first[i] + Lower(value)[i]
  <2>1. c[i + 1] = c[i] + value[i + 1]
    BY <1>1, <1>2
  <2>2. QED
    BY <1>2, <2>1 DEF Lower
<1>6. ASSUME NEW i \in WarpLane PROVE rest[i + 1] = rest[i] + Upper(value)[i]
  <2>1. rest[i] = (IF i + WarpSize <= Levels THEN c[i + WarpSize] ELSE c[Levels]) /\
        rest[i + 1] = (IF i + 1 + WarpSize <= Levels THEN c[i + 1 + WarpSize] ELSE c[Levels])
    BY <1>2
  <2>2. Upper(value)[i] = IF i + 1 + WarpSize <= Levels THEN value[i + 1 + WarpSize] ELSE 0
    BY DEF Upper
  <2>3. CASE i + 1 + WarpSize <= Levels
    <3>1. PICK k \in 1..Levels : k = i + 1 + WarpSize /\ k - 1 = i + WarpSize
      <4>1. i \in Nat
        BY <1>2
      <4>2. i + 1 + WarpSize \in 1..Levels /\ (i + 1 + WarpSize) - 1 = i + WarpSize
        BY ONLY <1>0, <2>3, <4>1
      <4>3. QED
        BY <4>2
    <3>2. c[k] = c[k - 1] + value[k]
      BY <1>1
    <3>3. i + WarpSize <= Levels
      BY <1>1, <1>2, <2>3
    <3> HIDE DEF rest
    <3>4. QED
      BY <2>1, <2>2, <2>3, <3>1, <3>2, <3>3
  <2>4. CASE ~(i + 1 + WarpSize <= Levels)
    <3>1. i + WarpSize <= Levels => i + WarpSize = Levels
      <4>1. i \in Nat
        BY <1>2
      <4>2. QED
        BY ONLY <1>0, <2>4, <4>1
    <3>2. c[Levels] \in Nat
      BY <1>1
    <3> HIDE DEF rest
    <3>3. rest[i] = c[Levels] /\ rest[i + 1] = c[Levels] /\ Upper(value)[i] = 0
      BY <2>1, <2>2, <2>4, <3>1
    <3>4. QED
      BY <3>2, <3>3
  <2>5. QED
    BY <2>3, <2>4
<1>7. first[0] = 0 /\ rest[0] = c[WarpSize] /\ \A k \in 0..WarpSize : first[k] = c[k]
  BY <1>1
<1>8. \A i \in WarpLane : i + 1 + WarpSize <= Levels => rest[i + 1] = c[i + 1 + WarpSize]
  BY <1>2
<1> HIDE DEF first, rest
<1>9. \A i \in WarpLane : ShuffleUp(Lower(value))[i] = first[i + 1] - first[0]
  BY <1>3, <1>4, <1>5, ShuffleUpSums
<1>10. \A i \in WarpLane : ShuffleUp(Upper(value))[i] = rest[i + 1] - rest[0]
  BY <1>3, <1>4, <1>6, ShuffleUpSums
<1>11. ASSUME NEW i \in WarpLane PROVE ShuffleUp(Lower(value))[i] = c[i + 1]
  <2>1. c[i + 1] \in Nat
    BY <1>1, <1>2
  <2>2. QED
    BY <1>2, <1>7, <1>9, <2>1
<1>12. ShuffleUp(Lower(value))[WarpSize - 1] = c[WarpSize]
  <2>1. WarpSize - 1 \in WarpLane /\ (WarpSize - 1) + 1 = WarpSize
    BY <1>1 DEF WarpLane
  <2>2. QED
    BY <1>11, <2>1
<1>13. Inclusive(Lower(value), Upper(value))[1][l] = c[l + 1]
  BY <1>11 DEF Inclusive
<1>14. ASSUME l + 1 + WarpSize <= Levels
       PROVE  Inclusive(Lower(value), Upper(value))[2][l] = c[l + 1 + WarpSize]
  <2>1. Inclusive(Lower(value), Upper(value))[2][l] = ShuffleUp(Upper(value))[l] + c[WarpSize]
    BY <1>12 DEF Inclusive
  <2>2. rest[l + 1] = c[l + 1 + WarpSize] /\ c[l + 1 + WarpSize] \in Nat /\ c[WarpSize] \in Nat
    <3>1. l \in Nat
      BY <1>2
    <3>2. l + 1 + WarpSize \in 0..Levels /\ WarpSize \in 0..Levels
      BY <1>1, <1>14, <3>1
    <3>3. QED
      BY <1>1, <1>8, <1>14, <3>2
  <2>3. QED
    BY <1>7, <1>10, <2>1, <2>2
<1>15. QED
  BY <1>13, <1>14 DEF c

\* The sums are numbers that never decrease.
LEMMA SumsGrow ==
  ASSUME NEW levels \in BookSide
  PROVE  /\ \A i \in 1..Levels : SumsOf(levels)[i].n \in Nat
         /\ \A i, j \in 1..Levels : i <= j => SumsOf(levels)[i].n <= SumsOf(levels)[j].n
<1> DEFINE value == Notional(levels, LeadingValid(levels))
           n == Cumsum(value)
<1>1. value \in [1..Levels -> Nat] /\ n \in [0..Levels -> Nat] /\ Levels \in Nat
  <2>1. LeadingValid(levels) \in Nat /\ Levels \in Nat
    BY LeadingFacts, WarpSizes
  <2>2. value \in [1..Levels -> Nat]
    BY <2>1, CountedTypes
  <2>3. QED
    BY <2>1, <2>2, CumsumFacts
<1>2. \A i \in 1..Levels : SumsOf(levels)[i].n = n[i]
  BY DEF SumsOf
<1>3. \A i, j \in 0..Levels : i <= j => n[i] <= n[j]
  BY <1>1, CumsumGrows
<1>4. \A i \in 1..Levels : i \in 0..Levels
  BY <1>1
<1> HIDE DEF n, value
<1>5. QED
  BY <1>1, <1>2, <1>3, <1>4

\* The types of the warp's state.
SlippageTypeOK ==
  /\ snapshot \in [Side -> BookSide] /\ side \in Side
  /\ laneAt \in [WarpLane -> {"scan", "publish", "meet", "search", "done"}]
  /\ search \in [WarpLane -> [rep : {0, 1}, lo : Nat, hi : Nat]]
  /\ DOMAIN stored = Side \X (1..2 * WarpSize)

\* A lane gets past a shuffle or a __syncwarp with all the others.
LanesTogether ==
  \/ \A l \in WarpLane : laneAt[l] = "scan"
  \/ \A l \in WarpLane : laneAt[l] \in {"publish", "meet"}
  \/ \A l \in WarpLane : laneAt[l] \in {"search", "done"}

\* From its scan on a lane has the sums of its two levels.
RegistersHold ==
  \A l \in WarpLane : laneAt[l] # "scan" =>
    /\ mine[l].m = LeadingValid(snapshot[side])
    /\ mine[l].lower = SumsOf(snapshot[side])[l + 1]
    /\ l + 1 + WarpSize <= Levels => mine[l].upper = SumsOf(snapshot[side])[l + 1 + WarpSize]

\* A lane that has published has them in shared memory.
SharedHolds ==
  \A l \in WarpLane : laneAt[l] \in {"meet", "search", "done"} =>
    /\ shared[l + 1] = SumsOf(snapshot[side])[l + 1]
    /\ l + 1 + WarpSize <= Levels => shared[l + 1 + WarpSize] = SumsOf(snapshot[side])[l + 1 + WarpSize]

\* The target k lies between lo and hi.
Between(s, k) ==
  LET m    == LeadingValid(snapshot[side])
      sums == SumsOf(snapshot[side])
  IN  /\ s.lo <= s.hi /\ s.hi <= m
      /\ \A i \in 1..s.lo : sums[i].n < Target[k]
      /\ \A i \in s.hi + 1..m : sums[i].n >= Target[k]

SearchesHold ==
  \A l \in WarpLane : laneAt[l] \in {"meet", "search"} => Between(search[l], l + 1 + search[l].rep * WarpSize)

SlippageInv ==
  SlippageTypeOK /\ LanesTogether /\ RegistersHold /\ SharedHolds /\ SearchesHold /\ WarpWalksTheBook

\* A lane's levels and targets are there.
LEMMA LanePlaces ==
  ASSUME NEW l \in WarpLane
  PROVE  /\ l \in Nat /\ l + 1 \in 1..Levels /\ l + 1 <= WarpSize
         /\ l + 1 + WarpSize <= Levels => l + 1 + WarpSize \in 1..Levels
         /\ \A rep \in {0, 1} : l + 1 + rep * WarpSize \in 1..(2 * WarpSize)
<1>1. WarpSize \in Nat /\ Levels \in Nat /\ WarpSize <= Levels
  BY WarpSizes
<1>2. l \in Nat /\ l + 1 <= WarpSize
  BY <1>1 DEF WarpLane
<1>3. ASSUME NEW rep \in {0, 1} PROVE l + 1 + rep * WarpSize \in 1..(2 * WarpSize)
  <2>1. rep * WarpSize = 0 \/ rep * WarpSize = WarpSize
    BY <1>1
  <2>2. QED
    BY ONLY <1>1, <1>2, <2>1
<1>4. l + 1 \in 1..Levels /\ (l + 1 + WarpSize <= Levels => l + 1 + WarpSize \in 1..Levels)
  BY ONLY <1>1, <1>2
<1>5. QED
  BY <1>2, <1>3, <1>4

\* A search begins with the whole side.
LEMMA WholeIsBetween ==
  ASSUME SlippageTypeOK, NEW s, s.lo = 0, s.hi = LeadingValid(snapshot[side]), NEW k
  PROVE  Between(s, k)
<1>1. snapshot[side] \in BookSide
  BY DEF SlippageTypeOK
<1>2. LeadingValid(snapshot[side]) \in Nat
  BY <1>1, LeadingFacts, WarpSizes
<1>3. PICK m \in Nat : m = LeadingValid(snapshot[side])
  BY <1>2
<1>4. 1..0 = {} /\ m + 1..m = {}
  OBVIOUS
<1>5. QED
  BY <1>3, <1>4 DEF Between

\* What was stored stays what the walk gets.
LEMMA StoredStays ==
  ASSUME WarpWalksTheBook, UNCHANGED <<snapshot, stored>>
  PROVE  WarpWalksTheBook'
BY DEF WarpWalksTheBook, Walk, Result, MidOk

\* When all lanes have met, shared memory has all sums.
LEMMA AllShared ==
  ASSUME SharedHolds, \A l \in WarpLane : laneAt[l] \in {"search", "done"}
  PROVE  \A i \in 1..Levels : shared[i] = SumsOf(snapshot[side])[i]
<1>1. SUFFICES ASSUME NEW i \in 1..Levels
               PROVE  shared[i] = SumsOf(snapshot[side])[i]
  OBVIOUS
<1>2. WarpSize \in Nat \ {0} /\ Levels \in Nat /\ Levels <= 2 * WarpSize
  BY WarpSizes
<1>3. CASE i <= WarpSize
  <2>1. PICK l \in WarpLane : l + 1 = i
    <3>1. i - 1 \in WarpLane /\ (i - 1) + 1 = i
      BY <1>2, <1>3 DEF WarpLane
    <3>2. QED
      BY <3>1
  <2>2. QED
    BY <2>1 DEF SharedHolds
<1>4. CASE ~(i <= WarpSize)
  <2>1. PICK l \in WarpLane : l + 1 + WarpSize = i
    <3>1. i - 1 - WarpSize \in WarpLane /\ (i - 1 - WarpSize) + 1 + WarpSize = i
      BY <1>2, <1>4 DEF WarpLane
    <3>2. QED
      BY <3>1
  <2>2. i <= Levels
    BY <1>2
  <2>3. QED
    BY <2>1, <2>2 DEF SharedHolds
<1>5. QED
  BY <1>3, <1>4

\* The scan leaves every lane with the sums of its levels.
LEMMA ScanHolds ==
  ASSUME SlippageInv, Scan
  PROVE  SlippageInv'
<1> DEFINE levels == snapshot[side]
           m == LeadingValid(levels)
           sumN == Inclusive(Lower(Notional(levels, m)), Upper(Notional(levels, m)))
           sumQ == Inclusive(Lower(Quantity(levels, m)), Upper(Quantity(levels, m)))
<1>1. /\ UNCHANGED <<snapshot, side, shared, search, stored>>
      /\ laneAt' = [l \in WarpLane |-> "publish"]
  BY DEF Scan
<1>2. \A l \in WarpLane : laneAt'[l] = "publish"
  BY <1>1
<1>3. SlippageTypeOK'
  BY <1>1 DEF SlippageInv, SlippageTypeOK
<1>4. LanesTogether'
  BY <1>2 DEF LanesTogether
<1>5. SharedHolds' /\ SearchesHold'
  BY <1>2 DEF SharedHolds, SearchesHold
<1>6. WarpWalksTheBook'
  BY <1>1, StoredStays DEF SlippageInv
<1>7. RegistersHold'
  <2>1. levels \in BookSide /\ m \in Nat
    BY LeadingFacts, WarpSizes DEF SlippageInv, SlippageTypeOK
  <2>2. /\ Notional(levels, m) \in [1..Levels -> Nat]
        /\ Quantity(levels, m) \in [1..Levels -> Nat]
    BY <2>1, CountedTypes
  <2>3. ASSUME NEW l \in WarpLane
        PROVE  /\ mine'[l].m = m
               /\ mine'[l].lower = SumsOf(levels)[l + 1]
               /\ l + 1 + WarpSize <= Levels => mine'[l].upper = SumsOf(levels)[l + 1 + WarpSize]
    <3>1. mine'[l] = [m |-> m, lower |-> [n |-> sumN[1][l], q |-> sumQ[1][l], px |-> levels[l + 1].px],
                      upper |-> [n |-> sumN[2][l], q |-> sumQ[2][l], px |-> Loaded(levels, l + 1 + WarpSize).px]]
      BY DEF Scan
    <3>2. /\ sumN[1][l] = Cumsum(Notional(levels, m))[l + 1]
          /\ sumQ[1][l] = Cumsum(Quantity(levels, m))[l + 1]
          /\ l + 1 + WarpSize <= Levels => /\ sumN[2][l] = Cumsum(Notional(levels, m))[l + 1 + WarpSize]
                                           /\ sumQ[2][l] = Cumsum(Quantity(levels, m))[l + 1 + WarpSize]
      BY <2>2, LanesHaveSums
    <3> DEFINE record(k) == [n |-> Cumsum(Notional(levels, m))[k], q |-> Cumsum(Quantity(levels, m))[k], px |-> levels[k].px]
    <3>3. \A k \in 1..Levels : SumsOf(levels)[k] = record(k)
      BY DEF SumsOf
    <3>4. l + 1 \in 1..Levels /\ (l + 1 + WarpSize <= Levels => l + 1 + WarpSize \in 1..Levels)
      BY LanePlaces
    <3> HIDE DEF sumN, sumQ, m, levels
    <3>5. mine'[l].lower = record(l + 1)
      BY <3>1, <3>2
    <3>6. l + 1 + WarpSize <= Levels => mine'[l].upper = record(l + 1 + WarpSize)
      BY <3>1, <3>2 DEF Loaded
    <3> HIDE DEF record
    <3>7. QED
      BY <3>1, <3>3, <3>4, <3>5, <3>6
  <2>4. QED
    BY <1>1, <2>3 DEF RegistersHold
<1>8. QED
  BY <1>3, <1>4, <1>5, <1>6, <1>7 DEF SlippageInv

\* What a lane writes is its own: the places of no other lane.
LEMMA PublishHolds ==
  ASSUME SlippageInv, NEW l \in WarpLane, Publish(l)
  PROVE  SlippageInv'
<1>1. /\ UNCHANGED <<snapshot, side, mine, stored>>
      /\ laneAt[l] = "publish"
      /\ laneAt' = [laneAt EXCEPT ![l] = "meet"]
      /\ search' = [search EXCEPT ![l] = WholeRange(mine[l].m)]
      /\ \A i \in 1..Levels : shared'[i] = IF i = l + 1 THEN mine[l].lower
                                           ELSE IF i = l + 1 + WarpSize THEN mine[l].upper ELSE shared[i]
  BY DEF Publish
<1>2. /\ SlippageTypeOK /\ LanesTogether /\ RegistersHold /\ SharedHolds /\ SearchesHold /\ WarpWalksTheBook
  BY DEF SlippageInv
<1>3. mine[l].m = LeadingValid(snapshot[side]) /\ mine[l].m \in Nat
  <2>1. mine[l].m = LeadingValid(snapshot[side]) /\ snapshot[side] \in BookSide
    BY <1>1, <1>2 DEF RegistersHold, SlippageTypeOK
  <2>2. QED
    BY <2>1, LeadingFacts, WarpSizes
<1>4. SlippageTypeOK'
  <2>1. search' \in [WarpLane -> [rep : {0, 1}, lo : Nat, hi : Nat]]
    BY <1>1, <1>2, <1>3 DEF SlippageTypeOK, WholeRange
  <2>2. QED
    BY <1>1, <1>2, <2>1 DEF SlippageTypeOK
<1>5. \A i \in WarpLane : laneAt'[i] = (IF i = l THEN "meet" ELSE laneAt[i])
                       /\ search'[i] = (IF i = l THEN WholeRange(mine[l].m) ELSE search[i])
  BY <1>1, <1>2 DEF SlippageTypeOK
<1>6. \A i \in WarpLane : laneAt[i] \in {"publish", "meet"}
  BY <1>1, <1>2 DEF LanesTogether
<1>7. LanesTogether'
  BY <1>5, <1>6 DEF LanesTogether
<1>8. RegistersHold'
  BY <1>1, <1>2, <1>5, <1>6 DEF RegistersHold
<1>9. SharedHolds'
  <2>1. SUFFICES ASSUME NEW i \in WarpLane, laneAt'[i] \in {"meet", "search", "done"}
                 PROVE  /\ shared'[i + 1] = SumsOf(snapshot[side])[i + 1]
                        /\ i + 1 + WarpSize <= Levels =>
                             shared'[i + 1 + WarpSize] = SumsOf(snapshot[side])[i + 1 + WarpSize]
    BY <1>1 DEF SharedHolds
  <2>2. /\ i \in Nat /\ i + 1 \in 1..Levels /\ i + 1 <= WarpSize
        /\ i + 1 + WarpSize <= Levels => i + 1 + WarpSize \in 1..Levels
        /\ l \in Nat /\ l + 1 <= WarpSize /\ WarpSize \in Nat
    BY LanePlaces, WarpSizes
  <2>3. CASE i = l
    <3>1. i + 1 + WarpSize # i + 1
      BY <2>2, WarpSizes
    <3>2. /\ mine[l].lower = SumsOf(snapshot[side])[l + 1]
          /\ l + 1 + WarpSize <= Levels => mine[l].upper = SumsOf(snapshot[side])[l + 1 + WarpSize]
      BY <1>1, <1>2 DEF RegistersHold
    <3>3. QED
      BY <1>1, <2>2, <2>3, <3>1, <3>2
  <2>4. CASE i # l
    <3>1. laneAt[i] \in {"meet", "search", "done"}
      BY <1>5, <2>1, <2>4
    <3>2. /\ shared[i + 1] = SumsOf(snapshot[side])[i + 1]
          /\ i + 1 + WarpSize <= Levels =>
               shared[i + 1 + WarpSize] = SumsOf(snapshot[side])[i + 1 + WarpSize]
      BY <1>2, <3>1 DEF SharedHolds
    <3>3. i + 1 # l + 1 /\ i + 1 # l + 1 + WarpSize /\ i + 1 + WarpSize # l + 1 /\ i + 1 + WarpSize # l + 1 + WarpSize
      BY ONLY <2>2, <2>4
    <3>4. QED
      BY <1>1, <2>2, <3>2, <3>3
  <2>5. QED
    BY <2>3, <2>4
<1>10. SearchesHold'
  <2>1. SUFFICES ASSUME NEW i \in WarpLane, laneAt'[i] \in {"meet", "search"}
                 PROVE  Between(search'[i], i + 1 + search'[i].rep * WarpSize)
    BY <1>1 DEF SearchesHold, Between
  <2>2. CASE i = l
    <3>1. search'[i].lo = 0 /\ search'[i].hi = LeadingValid(snapshot[side])
      BY <1>3, <1>5, <2>2 DEF WholeRange
    <3>2. PICK s, k : s = search'[i] /\ k = i + 1 + search'[i].rep * WarpSize
      OBVIOUS
    <3>3. QED
      BY <1>2, <3>1, <3>2, WholeIsBetween
  <2>3. CASE i # l
    BY <1>2, <1>5, <2>1, <2>3 DEF SearchesHold
  <2>4. QED
    BY <2>2, <2>3
<1>11. WarpWalksTheBook'
  BY <1>1, <1>2, StoredStays
<1>12. QED
  BY <1>4, <1>7, <1>8, <1>9, <1>10, <1>11 DEF SlippageInv

\* All lanes have met.
LEMMA MeetHolds ==
  ASSUME SlippageInv, Meet
  PROVE  SlippageInv'
<1>1. /\ UNCHANGED <<snapshot, side, mine, shared, search, stored>>
      /\ \A l \in WarpLane : laneAt[l] = "meet"
      /\ laneAt' = [l \in WarpLane |-> "search"]
  BY DEF Meet
<1>2. /\ SlippageTypeOK /\ LanesTogether /\ RegistersHold /\ SharedHolds /\ SearchesHold /\ WarpWalksTheBook
  BY DEF SlippageInv
<1>3. \A l \in WarpLane : laneAt'[l] = "search"
  BY <1>1
<1>4. SlippageTypeOK'
  BY <1>1, <1>2 DEF SlippageTypeOK
<1>5. LanesTogether'
  BY <1>3 DEF LanesTogether
<1>6. RegistersHold' /\ SharedHolds'
  BY <1>1, <1>2, <1>3 DEF RegistersHold, SharedHolds
<1>7. SearchesHold'
  BY <1>1, <1>2, <1>3 DEF SearchesHold, Between
<1>8. WarpWalksTheBook'
  BY <1>1, <1>2, StoredStays
<1>9. QED
  BY <1>4, <1>5, <1>6, <1>7, <1>8 DEF SlippageInv

\* Half of what is between lo and hi goes.
LEMMA HalveHolds ==
  ASSUME SlippageInv, NEW l \in WarpLane, Halve(l)
  PROVE  SlippageInv'
<1> DEFINE s == search[l]
           k == l + 1 + s.rep * WarpSize
           mid == (s.lo + s.hi) \div 2
           m == LeadingValid(snapshot[side])
           sums == SumsOf(snapshot[side])
<1>1. /\ UNCHANGED <<snapshot, side, laneAt, mine, shared, stored>>
      /\ laneAt[l] = "search" /\ s.lo < s.hi
      /\ search' = [search EXCEPT ![l] = IF Below(shared[mid + 1].n, Target[k]) THEN [s EXCEPT !.lo = mid + 1]
                                         ELSE [s EXCEPT !.hi = mid]]
  BY DEF Halve
<1>2. /\ SlippageTypeOK /\ LanesTogether /\ RegistersHold /\ SharedHolds /\ SearchesHold /\ WarpWalksTheBook
  BY DEF SlippageInv
<1>3. s \in [rep : {0, 1}, lo : Nat, hi : Nat] /\ snapshot[side] \in BookSide
  BY <1>2 DEF SlippageTypeOK
<1>4. mid \in Nat /\ s.lo <= mid /\ mid < s.hi
  <2>1. PICK a \in Nat, b \in Nat : a = s.lo /\ b = s.hi
    BY <1>3
  <2>2. (a + b) \div 2 \in Nat /\ a <= (a + b) \div 2 /\ (a + b) \div 2 < b
    BY <1>1, <2>1
  <2>3. QED
    BY <2>1, <2>2
<1>5. Between(s, k)
  BY <1>1, <1>2 DEF SearchesHold
<1>6. /\ s.hi <= m /\ m \in Nat /\ m <= Levels /\ Levels \in Nat
      /\ \A i \in 1..s.lo : sums[i].n < Target[k]
      /\ \A i \in s.hi + 1..m : sums[i].n >= Target[k]
  BY <1>3, <1>5, LeadingFacts, WarpSizes DEF Between
<1>7. \A i \in WarpLane : laneAt[i] \in {"search", "done"}
  BY <1>1, <1>2 DEF LanesTogether
<1>8. k \in 1..(2 * WarpSize) /\ Target[k] \in Nat
  BY <1>3, LanePlaces, WarpSizes
<1>9. /\ \A i \in 1..Levels : sums[i].n \in Nat
      /\ \A i, j \in 1..Levels : i <= j => sums[i].n <= sums[j].n
  BY <1>3, SumsGrow
<1>10. shared[mid + 1] = sums[mid + 1] /\ mid + 1 \in 1..Levels
  <2>1. mid + 1 \in 1..Levels
    BY <1>3, <1>4, <1>6
  <2>2. QED
    BY <1>2, <1>7, <2>1, AllShared
<1> HIDE DEF mid, m, sums, k
<1>11. PICK r : /\ r \in [rep : {0, 1}, lo : Nat, hi : Nat] /\ r.rep = s.rep
                /\ search' = [search EXCEPT ![l] = r]
                /\ r.lo <= r.hi /\ r.hi <= m
                /\ \A i \in 1..r.lo : sums[i].n < Target[k]
                /\ \A i \in r.hi + 1..m : sums[i].n >= Target[k]
  <2>1. CASE Below(shared[mid + 1].n, Target[k])
    <3> DEFINE r == [s EXCEPT !.lo = mid + 1]
    <3>1. r \in [rep : {0, 1}, lo : Nat, hi : Nat] /\ r.rep = s.rep /\ r.lo = mid + 1 /\ r.hi = s.hi
      BY <1>3, <1>4
    <3>2. search' = [search EXCEPT ![l] = r]
      BY <1>1, <2>1
    <3>3. \A i \in 1..(mid + 1) : sums[i].n < Target[k]
      <4>1. SUFFICES ASSUME NEW i \in 1..(mid + 1) PROVE sums[i].n < Target[k]
        OBVIOUS
      <4>2. i \in 1..Levels /\ i <= mid + 1
        BY <1>4, <1>6, <1>10
      <4>3. sums[i].n <= sums[mid + 1].n /\ sums[mid + 1].n < Target[k]
        BY <1>9, <1>10, <2>1, <4>2 DEF Below
      <4>4. QED
        BY <1>8, <1>9, <1>10, <4>2, <4>3
    <3>4. r.lo <= r.hi /\ r.hi <= m
      BY <1>3, <1>4, <1>6, <3>1
    <3> HIDE DEF r
    <3>5. QED
      BY <1>6, <3>1, <3>2, <3>3, <3>4
  <2>2. CASE ~Below(shared[mid + 1].n, Target[k])
    <3> DEFINE r == [s EXCEPT !.hi = mid]
    <3>1. r \in [rep : {0, 1}, lo : Nat, hi : Nat] /\ r.rep = s.rep /\ r.lo = s.lo /\ r.hi = mid
      BY <1>3, <1>4
    <3>2. search' = [search EXCEPT ![l] = r]
      BY <1>1, <2>2
    <3>3. \A i \in mid + 1..m : sums[i].n >= Target[k]
      <4>1. SUFFICES ASSUME NEW i \in mid + 1..m PROVE sums[i].n >= Target[k]
        OBVIOUS
      <4>2. i \in 1..Levels /\ mid + 1 <= i
        BY <1>4, <1>6
      <4>3. sums[mid + 1].n <= sums[i].n /\ ~(sums[mid + 1].n < Target[k])
        BY <1>9, <1>10, <2>2, <4>2 DEF Below
      <4>4. QED
        BY <1>8, <1>9, <1>10, <4>2, <4>3
    <3>4. r.lo <= r.hi /\ r.hi <= m
      BY <1>3, <1>4, <1>6, <3>1
    <3> HIDE DEF r
    <3>5. QED
      BY <1>6, <3>1, <3>2, <3>3, <3>4
  <2>3. QED
    BY <2>1, <2>2
<1>12. \A i \in WarpLane : search'[i] = IF i = l THEN r ELSE search[i]
  BY <1>2, <1>11 DEF SlippageTypeOK
<1>13. SlippageTypeOK'
  <2>1. search' \in [WarpLane -> [rep : {0, 1}, lo : Nat, hi : Nat]]
    BY <1>2, <1>11 DEF SlippageTypeOK
  <2>2. QED
    BY <1>1, <1>2, <2>1 DEF SlippageTypeOK
<1>14. LanesTogether' /\ RegistersHold' /\ SharedHolds'
  BY <1>1, <1>2 DEF LanesTogether, RegistersHold, SharedHolds
<1>15. Between(r, k)
  BY <1>11 DEF Between, m, sums
<1>16. SearchesHold'
  <2>1. SUFFICES ASSUME NEW i \in WarpLane, laneAt[i] \in {"meet", "search"}
                 PROVE  Between(search'[i], i + 1 + search'[i].rep * WarpSize)
    BY <1>1 DEF SearchesHold, Between
  <2>2. CASE i = l
    BY <1>11, <1>12, <1>15, <2>2 DEF k
  <2>3. CASE i # l
    BY <1>2, <1>12, <2>1, <2>3 DEF SearchesHold
  <2>4. QED
    BY <2>2, <2>3
<1>17. WarpWalksTheBook'
  BY <1>1, <1>2, StoredStays
<1>18. QED
  BY <1>13, <1>14, <1>16, <1>17 DEF SlippageInv

\* When lo and hi have met, the target is where the walk stops.
LEMMA StoreOrderHolds ==
  ASSUME SlippageInv, NEW l \in WarpLane, StoreOrder(l)
  PROVE  SlippageInv'
<1> DEFINE s == search[l]
           k == l + 1 + s.rep * WarpSize
           m == LeadingValid(snapshot[side])
           result == Resolved(shared, mine[l].m, s.lo, Target[k])
<1>1. /\ UNCHANGED <<snapshot, side, mine, shared>>
      /\ laneAt[l] = "search" /\ s.lo >= s.hi
      /\ stored' = [stored EXCEPT ![<<side, k>>] = result]
      /\ IF s.rep = 0
         THEN search' = [search EXCEPT ![l] = [WholeRange(mine[l].m) EXCEPT !.rep = 1]] /\ UNCHANGED laneAt
         ELSE laneAt' = [laneAt EXCEPT ![l] = "done"] /\ UNCHANGED search
  BY DEF StoreOrder
<1>2. /\ SlippageTypeOK /\ LanesTogether /\ RegistersHold /\ SharedHolds /\ SearchesHold /\ WarpWalksTheBook
  BY DEF SlippageInv
<1>3. s \in [rep : {0, 1}, lo : Nat, hi : Nat] /\ snapshot[side] \in BookSide /\ side \in Side
  BY <1>2 DEF SlippageTypeOK
<1>4. mine[l].m = m /\ m \in Nat
  <2>1. mine[l].m = m
    BY <1>1, <1>2 DEF RegistersHold
  <2>2. m \in Nat
    BY <1>3, LeadingFacts, WarpSizes
  <2>3. QED
    BY <2>1, <2>2
<1>5. k \in 1..(2 * WarpSize) /\ Target[k] \in Nat
  BY <1>3, LanePlaces, WarpSizes
<1>6. \A i \in WarpLane : laneAt[i] \in {"search", "done"}
  BY <1>1, <1>2 DEF LanesTogether
<1>7. result = Walk(snapshot[side], Target[k])
  <2>1. Between(s, k)
    BY <1>1, <1>2 DEF SearchesHold
  <2>2. PICK j \in Nat : j = s.lo /\ j = s.hi
    BY <1>1, <1>3, <2>1 DEF Between
  <2>3. /\ j <= m
        /\ \A i \in 1..j : SumsOf(snapshot[side])[i].n < Target[k]
        /\ \A i \in j + 1..m : SumsOf(snapshot[side])[i].n >= Target[k]
    BY <2>1, <2>2 DEF Between
  <2>4. m <= Levels /\ Levels \in Nat
    BY <1>3, LeadingFacts, WarpSizes
  <2>5. \A i \in 1..Levels : SumsOf(snapshot[side])[i].n = Cumsum(Notional(snapshot[side], m))[i]
    BY DEF SumsOf
  <2>6. StopsAfter(snapshot[side], Target[k], j)
    <3> HIDE DEF k
    <3>1. \A i \in 1..j : i \in 1..Levels
      BY <1>4, <2>3, <2>4
    <3>2. j < m => j + 1 \in j + 1..m /\ j + 1 \in 1..Levels
      BY <1>4, <2>4
    <3>3. j \in 0..m
      BY <1>4, <2>3
    <3>4. (\A i \in 1..j : Cumsum(Notional(snapshot[side], m))[i] < Target[k])
      BY <2>3, <2>5, <3>1
    <3>5. j < m => Cumsum(Notional(snapshot[side], m))[j + 1] >= Target[k]
      BY <2>3, <2>5, <3>2
    <3>6. QED
      BY <3>3, <3>4, <3>5 DEF StopsAfter
  <2>7. \A i \in 1..Levels : shared[i] = SumsOf(snapshot[side])[i]
    BY <1>2, <1>6, AllShared
  <2>7a. PICK sums : sums = shared
    OBVIOUS
  <2>8. PICK levels \in BookSide, target \in Nat : levels = snapshot[side] /\ target = Target[k]
    BY <1>3, <1>5
  <2>9. Resolved(sums, LeadingValid(levels), j, target) = Walk(levels, target)
    BY <2>6, <2>7, <2>7a, <2>8, LookedUpIsWalked
  <2>10. QED
    BY <1>4, <2>2, <2>7a, <2>8, <2>9
<1> HIDE DEF result, k
<1>8. WarpWalksTheBook'
  <2>1. SUFFICES ASSUME NEW o \in DOMAIN stored, stored'[o] # None
                 PROVE  stored'[o] = Walk(snapshot[o[1]], Target[o[2]])
    <3>1. DOMAIN stored' = DOMAIN stored
      BY <1>1
    <3>2. QED
      BY <1>1, <3>1 DEF WarpWalksTheBook, Walk, Result, MidOk
  <2>2. CASE o = <<side, k>>
    BY <1>1, <1>7, <2>1, <2>2
  <2>3. CASE o # <<side, k>>
    BY <1>1, <1>2, <2>1, <2>3 DEF WarpWalksTheBook
  <2>4. QED
    BY <2>2, <2>3
<1>9. DOMAIN stored' = Side \X (1..2 * WarpSize)
  BY <1>1, <1>2 DEF SlippageTypeOK
<1>10. CASE s.rep = 0
  <2> DEFINE r == [WholeRange(mine[l].m) EXCEPT !.rep = 1]
  <2>1. r \in [rep : {0, 1}, lo : Nat, hi : Nat] /\ r.lo = 0 /\ r.hi = m
    BY <1>4 DEF WholeRange
  <2>2. search' = [search EXCEPT ![l] = r] /\ UNCHANGED laneAt
    BY <1>1, <1>10
  <2> HIDE DEF r
  <2>3. \A i \in WarpLane : search'[i] = IF i = l THEN r ELSE search[i]
    BY <1>2, <2>2 DEF SlippageTypeOK
  <2>4. search' \in [WarpLane -> [rep : {0, 1}, lo : Nat, hi : Nat]]
    BY <1>2, <2>1, <2>2 DEF SlippageTypeOK
  <2>5. SlippageTypeOK'
    BY <1>1, <1>2, <1>9, <2>2, <2>4 DEF SlippageTypeOK
  <2>6. LanesTogether' /\ RegistersHold' /\ SharedHolds'
    BY <1>1, <1>2, <2>2 DEF LanesTogether, RegistersHold, SharedHolds
  <2>7. SearchesHold'
    <3>1. SUFFICES ASSUME NEW i \in WarpLane, laneAt[i] \in {"meet", "search"}
                   PROVE  Between(search'[i], i + 1 + search'[i].rep * WarpSize)
      BY <1>1, <2>2 DEF SearchesHold, Between
    <3>2. CASE i = l
      <4>1. PICK t : t = i + 1 + r.rep * WarpSize
        OBVIOUS
      <4>2. Between(r, t)
        BY <1>2, <2>1, WholeIsBetween
      <4>3. QED
        BY <2>3, <3>2, <4>1, <4>2
    <3>3. CASE i # l
      BY <1>2, <2>3, <3>1, <3>3 DEF SearchesHold
    <3>4. QED
      BY <3>2, <3>3
  <2>8. QED
    BY <1>8, <2>5, <2>6, <2>7 DEF SlippageInv
<1>11. CASE s.rep # 0
  <2>1. laneAt' = [laneAt EXCEPT ![l] = "done"] /\ UNCHANGED search
    BY <1>1, <1>11
  <2>2. \A i \in WarpLane : laneAt'[i] = IF i = l THEN "done" ELSE laneAt[i]
    BY <1>2, <2>1 DEF SlippageTypeOK
  <2>3. SlippageTypeOK'
    BY <1>1, <1>2, <1>9, <2>1 DEF SlippageTypeOK
  <2>4. LanesTogether'
    BY <1>6, <2>2 DEF LanesTogether
  <2>5. RegistersHold' /\ SharedHolds'
    BY <1>1, <1>2, <2>2 DEF RegistersHold, SharedHolds
  <2>6. SearchesHold'
    BY <1>1, <1>2, <2>1, <2>2 DEF SearchesHold, Between
  <2>7. QED
    BY <1>8, <2>3, <2>4, <2>5, <2>6 DEF SlippageInv
<1>12. QED
  BY <1>10, <1>11

\* The warp turns to the other side.
LEMMA NextSideHolds ==
  ASSUME SlippageInv, NextSide
  PROVE  SlippageInv'
<1>1. /\ UNCHANGED <<snapshot, mine, shared, search, stored>>
      /\ side' = "sell" /\ laneAt' = [l \in WarpLane |-> "scan"]
  BY DEF NextSide
<1>2. SlippageTypeOK /\ WarpWalksTheBook
  BY DEF SlippageInv
<1>3. \A l \in WarpLane : laneAt'[l] = "scan"
  BY <1>1
<1>4. SlippageTypeOK'
  BY <1>1, <1>2 DEF SlippageTypeOK, Side
<1>5. LanesTogether' /\ RegistersHold' /\ SharedHolds' /\ SearchesHold'
  BY <1>3 DEF LanesTogether, RegistersHold, SharedHolds, SearchesHold
<1>6. WarpWalksTheBook'
  BY <1>1, <1>2, StoredStays
<1>7. QED
  BY <1>4, <1>5, <1>6 DEF SlippageInv

\* A warp begins with any book.
LEMMA SlippageStarts == SlippageInit => SlippageInv
<1>1. SUFFICES ASSUME SlippageInit PROVE SlippageInv
  OBVIOUS
<1>2. Books \subseteq BookSide
  <2>1. SUFFICES ASSUME NEW b \in Books PROVE b \in BookSide
    OBVIOUS
  <2>2. PICK n \in 0..Levels :
          b \in {[l \in 1..Levels |-> IF l <= n THEN [px |-> Price[l], sz |-> size[l]] ELSE [px |-> 0, sz |-> 0]] :
                   size \in [1..n -> LevelSize]}
    BY ONLY <2>1 DEF Books
  <2>3. PICK size \in [1..n -> LevelSize] :
          b = [l \in 1..Levels |-> IF l <= n THEN [px |-> Price[l], sz |-> size[l]] ELSE [px |-> 0, sz |-> 0]]
    BY ONLY <2>2
  <2>4. ASSUME NEW l \in 1..Levels, l <= n PROVE Price[l] \in Nat /\ size[l] \in Nat
    <3>1. l \in 1..n
      BY ONLY <2>4, WarpSizes, n \in 0..Levels
    <3>2. size[l] \in LevelSize
      BY ONLY <3>1, size \in [1..n -> LevelSize]
    <3>3. QED
      BY <3>2, SlippageAssumption
  <2>5. QED
    BY <2>3, <2>4 DEF BookSide
<1>3. \A l \in WarpLane : laneAt[l] = "scan"
  BY <1>1 DEF SlippageInit
<1>4. SlippageTypeOK
  BY <1>1, <1>2 DEF SlippageInit, SlippageTypeOK, Side, WholeRange
<1>5. LanesTogether /\ RegistersHold /\ SharedHolds /\ SearchesHold
  BY <1>3 DEF LanesTogether, RegistersHold, SharedHolds, SearchesHold
<1>6. WarpWalksTheBook
  BY <1>1 DEF SlippageInit, WarpWalksTheBook
<1>7. QED
  BY <1>4, <1>5, <1>6 DEF SlippageInv

\* The invariant of the warp.
THEOREM SlippageInvariant == SlippageSpec => []SlippageInv
<1>1. SlippageInv /\ [SlippageNext]_slippageVars => SlippageInv'
  <2> SUFFICES ASSUME SlippageInv, [SlippageNext]_slippageVars
               PROVE  SlippageInv'
    OBVIOUS
  <2>1. CASE Scan
    BY <2>1, ScanHolds
  <2>2. CASE Meet
    BY <2>2, MeetHolds
  <2>3. CASE NextSide
    BY <2>3, NextSideHolds
  <2>4. ASSUME NEW l \in WarpLane, Publish(l) PROVE SlippageInv'
    BY <2>4, PublishHolds
  <2>5. ASSUME NEW l \in WarpLane, Halve(l) PROVE SlippageInv'
    BY <2>5, HalveHolds
  <2>6. ASSUME NEW l \in WarpLane, StoreOrder(l) PROVE SlippageInv'
    BY <2>6, StoreOrderHolds
  <2>7. CASE UNCHANGED slippageVars
    <3>1. UNCHANGED <<snapshot, stored>> /\ WarpWalksTheBook
      BY <2>7 DEF slippageVars, SlippageInv
    <3>2. WarpWalksTheBook'
      BY <3>1, StoredStays
    <3>3. QED
      BY <2>7, <3>2 DEF slippageVars, SlippageInv, SlippageTypeOK, LanesTogether, RegistersHold, SharedHolds,
                        SearchesHold, Between
  <2>8. QED
    BY <2>1, <2>2, <2>3, <2>4, <2>5, <2>6, <2>7 DEF SlippageNext
<1>2. QED
  BY <1>1, SlippageStarts, PTL DEF SlippageSpec

\* For a warp of any size and books of up to twice as many levels, whichever way its lanes go:
\* what the warp stores for each order, and what the vectorised reference computes, is what the
\* walk level by level gives.
THEOREM CostsAreWalked == SlippageSpec => []AllWalkTheBook
<1>1. SlippageInv => AllWalkTheBook
  <2> SUFFICES ASSUME SlippageInv
               PROVE  AllWalkTheBook
    OBVIOUS
  <2>1. ASSUME NEW s \in Side, NEW k \in 1..2 * WarpSize
        PROVE  SideNumpy(snapshot[s], Target[k]) = Walk(snapshot[s], Target[k])
    <3>1. PICK levels \in BookSide, target \in Nat : levels = snapshot[s] /\ target = Target[k]
      BY WarpSizes DEF SlippageInv, SlippageTypeOK
    <3>2. QED
      BY <3>1, NumpyIsWalked
  <2>2. QED
    BY <2>1 DEF SlippageInv, AllWalkTheBook, NumpyWalksTheBook
<1>2. QED
  BY <1>1, SlippageInvariant, PTL
=============================================================================
