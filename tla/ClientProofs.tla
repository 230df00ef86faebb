---------------------------- MODULE ClientProofs ----------------------------
(***************************************************************************)
(* The programs that stand before the order book and the feed: proofs      *)
(* about Browser and Service.                                              *)
(*                                                                         *)
(* Browser.  Without retryLive the page holds one connection at a time,    *)
(* and a socket that was told to close delivers nothing, so one list of    *)
(* frames brings the levels there are to the market's book.  What connects *)
(* the two is the chain of levels the frames go through (Brings).          *)
(*                                                                         *)
(* Service.  In the middle of a call the orders met have their part of the *)
(* trades and the order that came in has not: the two sides of the account *)
(* differ by the fills of the call (UnderWay), which its end books.        *)
(***************************************************************************)
EXTENDS Browser, Service, ListLemmas, FiniteSetTheorems

-----------------------------------------------------------------------------
(* The page's market data.                                                 *)

Levels == [BookSide -> 0..2]

Change == [{"bid"} -> 0..1] \union [{"ask"} -> 0..1] \union [BookSide -> 0..1]

FrameType == [type : {"snapshot", "update"}, book : Change]

Socket == [state : {"connecting", "open", "closing", "closed"}, served : BOOLEAN, frames : Seq(FrameType)]

BrowserTypeOK ==
  /\ market \in [BookSide -> 0..1]
  /\ sockets \in Seq(Socket) /\ sockets # <<>>
  /\ timers \in Nat
  /\ mode \in {"live", "demo"}
  /\ levels \in Levels

\* The banner comes once, so sample data and retryLive exclude each other.
BannerOnce ==
  /\ banner => mode = "live" /\ ~retried /\ demoOffered
  /\ ~demoOffered => mode = "live" /\ ~retried
  /\ mode = "demo" => ~retried

\* Without retryLive the page has one socket that is not at its end, the last, or a timer
\* that will make one.
OneConnection ==
  ~retried =>
    /\ \A s \in 1..(Len(sockets) - 1) : sockets[s].state = "closed"
    /\ mode = "live" => IF timers = 0 THEN sockets[Ws].state # "closed"
                        ELSE timers = 1 /\ sockets[Ws].state = "closed"
    /\ mode = "demo" => sockets[Ws].state \in {"closing", "closed"}

\* A socket that is connecting has not been served.
ServedOnceOpen == \A s \in 1..Len(sockets) : sockets[s].state = "connecting" => ~sockets[s].served

\* The levels that frames, one after the other, make of the levels there are, up to book.
Brings(from, frames, book) ==
  \E h \in [0..Len(frames) -> Levels] :
    /\ h[0] = from /\ h[Len(frames)] = book
    /\ \A i \in 1..Len(frames) : h[i] = Applied(h[i - 1], frames[i])

\* What the last socket has under way brings the levels to the market's.
FramesFollowMarket ==
  mode = "live" /\ ~retried /\ sockets[Ws].state = "open" /\ sockets[Ws].served
    => Brings(levels, sockets[Ws].frames, market)

BrowserInv ==
  /\ BrowserTypeOK /\ BannerOnce /\ OneConnection /\ ServedOnceOpen /\ FramesFollowMarket
  /\ SampleStaysSample /\ NeverStranded

-----------------------------------------------------------------------------

\* Levels stay levels.
LEMMA AppliedType ==
  ASSUME NEW book \in Levels, NEW frame \in FrameType
  PROVE  Applied(book, frame) \in Levels
<1>1. frame.book \in Change /\ DOMAIN frame.book \subseteq BookSide
  BY DEF FrameType, Change, BookSide
<1>2. \A s \in DOMAIN frame.book : frame.book[s] \in 0..1
  BY <1>1 DEF Change
<1>3. QED
  BY <1>2 DEF Applied, Levels

\* A snapshot alone brings any levels to the book it shows.
LEMMA SnapshotBrings ==
  ASSUME NEW from \in Levels, NEW book \in [BookSide -> 0..1]
  PROVE  Brings(from, <<Frame("snapshot", book)>>, book)
<1> DEFINE f == Frame("snapshot", book)
           h == [i \in 0..1 |-> IF i = 0 THEN from ELSE book]
<1>1. f \in FrameType /\ f.book = book /\ f.type = "snapshot"
  BY DEF Frame, FrameType, Change
<1>2. Applied(from, f) = book
  BY <1>1 DEF Applied, BookSide
<1>3. book \in Levels
  BY DEF Levels
<1>4. Len(<<f>>) = 1 /\ <<f>>[1] = f
  OBVIOUS
<1>5. h \in [0..1 -> Levels] /\ h[0] = from /\ h[1] = book
  BY <1>3
<1>6. \A i \in 1..1 : h[i] = Applied(h[i - 1], <<f>>[i])
  BY <1>2, <1>4, <1>5
<1> HIDE DEF h, f
<1>7. Brings(from, <<f>>, book)
  BY <1>4, <1>5, <1>6 DEF Brings
<1>8. QED
  BY <1>7 DEF f

\* A change of the market that is sent behind the frames under way.
LEMMA UpdateBrings ==
  ASSUME NEW from \in Levels, NEW frames \in Seq(FrameType), NEW book \in [BookSide -> 0..1],
         NEW change \in Change, Brings(from, frames, book)
  PROVE  Brings(from, Append(frames, Frame("update", change)),
                [s \in BookSide |-> IF s \in DOMAIN change THEN change[s] ELSE book[s]])
<1> DEFINE f == Frame("update", change)
           new == [s \in BookSide |-> IF s \in DOMAIN change THEN change[s] ELSE book[s]]
<1>1. f \in FrameType /\ f.book = change /\ f.type = "update"
  BY DEF Frame, FrameType
<1>2. Applied(book, f) = new
  BY <1>1 DEF Applied
<1>3. PICK n \in Nat : n = Len(frames)
  OBVIOUS
<1>4. PICK h \in [0..n -> Levels] :
        h[0] = from /\ h[n] = book /\ \A i \in 1..n : h[i] = Applied(h[i - 1], frames[i])
  BY <1>3 DEF Brings
<1>5. book \in Levels /\ new \in Levels
  BY <1>1, <1>2, AppliedType DEF Levels
<1> HIDE DEF f, new
<1> DEFINE all == Append(frames, f)
           k == [i \in 0..(n + 1) |-> IF i = n + 1 THEN new ELSE h[i]]
<1>6. Len(all) = n + 1 /\ all[n + 1] = f /\ \A i \in 1..n : all[i] = frames[i]
  BY <1>1, <1>3
<1>7. k \in [0..(n + 1) -> Levels] /\ k[0] = from /\ k[n + 1] = new
  BY <1>3, <1>4, <1>5
<1>8. ASSUME NEW i \in 1..(n + 1)
      PROVE  k[i] = Applied(k[i - 1], all[i])
  <2>1. CASE i = n + 1
    <3>1. k[i - 1] = book /\ k[i] = new /\ all[i] = f
      BY <1>3, <1>4, <1>6, <2>1
    <3>2. QED
      BY <1>2, <3>1
  <2>2. CASE i \in 1..n
    <3>1. k[i - 1] = h[i - 1] /\ k[i] = h[i] /\ all[i] = frames[i]
      BY <1>3, <1>6, <2>2
    <3>2. QED
      BY <1>4, <2>2, <3>1
  <2>3. QED
    BY <1>3, <2>1, <2>2
<1> HIDE DEF k, all
<1>9. Brings(from, all, new)
  BY <1>6, <1>7, <1>8 DEF Brings
<1>10. QED
  BY <1>9 DEF all, f, new

\* The first frame is applied.
LEMMA HeadBrings ==
  ASSUME NEW from \in Levels, NEW frames \in Seq(FrameType), NEW book,
         Brings(from, frames, book), frames # <<>>
  PROVE  Brings(Applied(from, Head(frames)), Tail(frames), book)
<1>1. PICK n \in Nat : n = Len(frames) /\ n > 0
  OBVIOUS
<1>2. PICK h \in [0..n -> Levels] :
        h[0] = from /\ h[n] = book /\ \A i \in 1..n : h[i] = Applied(h[i - 1], frames[i])
  BY <1>1 DEF Brings
<1> DEFINE rest == Tail(frames)
           k == [i \in 0..(n - 1) |-> h[i + 1]]
<1>3. Len(rest) = n - 1 /\ \A i \in 1..(n - 1) : rest[i] = frames[i + 1]
  BY <1>1
<1>4. k \in [0..(n - 1) -> Levels] /\ k[n - 1] = book
  BY <1>1, <1>2
<1>5. k[0] = Applied(from, Head(frames))
  <2>1. k[0] = h[1] /\ h[1] = Applied(h[0], frames[1])
    BY <1>1, <1>2
  <2>2. QED
    BY <1>1, <1>2, <2>1
<1>6. \A i \in 1..(n - 1) : k[i] = Applied(k[i - 1], rest[i])
  <2>1. ASSUME NEW i \in 1..(n - 1) PROVE k[i] = Applied(k[i - 1], rest[i])
    <3>1. k[i] = h[i + 1] /\ k[i - 1] = h[i] /\ rest[i] = frames[i + 1] /\ i + 1 \in 1..n /\ i + 1 - 1 = i
      BY <1>1, <1>3
    <3>2. h[i + 1] = Applied(h[i], frames[i + 1])
      BY <1>2, <3>1
    <3>3. QED
      BY <3>1, <3>2
  <2>2. QED
    BY <2>1
<1> HIDE DEF k, rest
<1>7. n - 1 \in Nat
  BY <1>1
<1>8. Brings(Applied(from, Head(frames)), rest, book)
  BY <1>3, <1>4, <1>5, <1>6 DEF Brings
<1>9. QED
  BY <1>8 DEF rest

\* FoldLeft applies the frames one after the other: a chain that brings the levels to a
\* book is the one it goes along.
LEMMA BringsIsFold ==
  ASSUME NEW from \in Levels, NEW frames \in Seq(FrameType), NEW book, Brings(from, frames, book)
  PROVE  FoldLeft(Applied, from, frames) = book
<1> DEFINE Iter(f) == f = [U \in SUBSET DOMAIN frames |->
                             IF U = {} THEN from ELSE Applied(f[U \ {Max(U)}], frames[Max(U)])]
           step == [a \in Levels \X FrameType |-> Applied(a[1], a[2])]
<1>1. FoldLeft(Applied, from, frames) = (CHOOSE f : Iter(f))[DOMAIN frames]
  BY DEF FoldLeft, MapThenFoldSet
<1>2. DOMAIN frames = 1..Len(frames) /\ Len(frames) \in Nat
  OBVIOUS
<1>3. PICK g \in [SUBSET (1..Len(frames)) -> Levels] : FoldsSets(g, Len(frames), frames, step, from)
  <2>1. step \in [Levels \X FrameType -> Levels]
    BY AppliedType
  <2>2. Len(frames) <= Len(frames)
    BY <1>2
  <2> HIDE DEF step
  <2>3. QED
    BY <1>2, <2>1, <2>2, FoldExists
<1>4. ASSUME NEW U \in SUBSET (1..Len(frames)), U # {}
      PROVE  g[U] = Applied(g[U \ {Max(U)}], frames[Max(U)])
  <2>1. Max(U) \in 1..Len(frames)
    BY <1>2, <1>4, GreatestNatural
  <2>2. frames[Max(U)] \in FrameType
    BY <2>1
  <2> DEFINE W == U \ {Max(U)}
  <2>3. W \in SUBSET (1..Len(frames))
    OBVIOUS
  <2>4. g[U] = step[<<g[W], frames[Max(U)]>>]
    BY <1>3, <1>4 DEF FoldsSets
  <2> HIDE DEF W
  <2>5. g[W] \in Levels
    BY <2>3
  <2>6. g[U] = Applied(g[W], frames[Max(U)])
    BY <2>2, <2>4, <2>5
  <2>7. QED
    BY <2>6 DEF W
<1>5. \E f : Iter(f)
  <2>1. Iter(g)
    <3> HIDE DEF step
    <3>1. QED
      BY <1>2, <1>3, <1>4 DEF FoldsSets
  <2>2. QED
    BY <2>1
<1> DEFINE f == CHOOSE h : Iter(h)
<1>6. f = [U \in SUBSET DOMAIN frames |-> IF U = {} THEN from ELSE Applied(f[U \ {Max(U)}], frames[Max(U)])]
  BY <1>5
<1>7. FoldLeft(Applied, from, frames) = f[1..Len(frames)]
  BY <1>1, <1>2
<1> HIDE DEF f, step, Iter
<1>8. PICK c \in [0..Len(frames) -> Levels] :
        /\ c[0] = from /\ c[Len(frames)] = book
        /\ \A i \in 1..Len(frames) : c[i] = Applied(c[i - 1], frames[i])
  BY DEF Brings
<1> DEFINE T == {n \in Nat : n <= Len(frames) => f[1..n] = c[n]}
<1>9. 0 \in T
  <2>1. 1..0 = {} /\ {} \in SUBSET DOMAIN frames
    OBVIOUS
  <2>2. f[1..0] = from
    BY <1>6, <2>1
  <2>3. QED
    BY <1>8, <2>2
<1>10. ASSUME NEW n \in T
       PROVE  n + 1 \in T
  <2>1. ASSUME n + 1 <= Len(frames) PROVE f[1..(n + 1)] = c[n + 1]
    <3> DEFINE i == n + 1
    <3>1. i \in Nat \ {0} /\ i - 1 = n /\ i \in 1..Len(frames)
      BY <1>2, <2>1
    <3>2. f[1..n] = c[n]
      BY <1>2, <2>1
    <3> HIDE DEF i
    <3>3. Max(1..i) = i /\ (1..i) \ {i} = 1..(i - 1)
      BY <3>1, GreatestOfInterval
    <3>4. (1..i) \in SUBSET DOMAIN frames /\ (1..i) # {}
      <4>1. i \in 1..i /\ 1..i \subseteq 1..Len(frames)
        BY <1>2, <3>1
      <4>2. QED
        BY <1>2, <4>1, Zenon
    <3>5. f[1..i] = Applied(f[1..(i - 1)], frames[i])
      BY <1>6, <3>3, <3>4
    <3>6. c[i] = Applied(c[i - 1], frames[i])
      BY <1>8, <3>1
    <3>7. QED
      BY <3>1, <3>2, <3>5, <3>6 DEF i
  <2>2. QED
    BY <2>1
<1> HIDE DEF T
<1>11. T = Nat
  <2>1. T \in SUBSET Nat
    BY DEF T
  <2>2. QED
    BY <1>9, <1>10, <2>1, Induction
<1>12. f[1..Len(frames)] = c[Len(frames)]
  BY <1>2, <1>11 DEF T
<1>13. QED
  BY <1>7, <1>8, <1>12

-----------------------------------------------------------------------------
(* What handlers do to the list of sockets.                                *)

\* One socket is changed.
LEMMA SocketSet ==
  ASSUME NEW list \in Seq(Socket), NEW s \in 1..Len(list), NEW t \in Socket, NEW list2,
         list2 = [list EXCEPT ![s] = t]
  PROVE  /\ list2 \in Seq(Socket) /\ Len(list2) = Len(list) /\ list2 # <<>>
         /\ list2[s] = t /\ \A r \in 1..Len(list) : r # s => list2[r] = list[r]
  OBVIOUS

\* A socket is told to close.
LEMMA ClosedFacts ==
  ASSUME NEW list \in Seq(Socket), NEW s \in 1..Len(list), NEW list2, list2 = Closed(list, s)
  PROVE  /\ list2 \in Seq(Socket) /\ Len(list2) = Len(list) /\ list2 # <<>>
         /\ \A r \in 1..Len(list) : r # s => list2[r] = list[r]
         /\ list2[s].state \in {"closing", "closed"}
         /\ list2[s].state = "closed" <=> list[s].state = "closed"
<1>1. list[s] \in Socket
  OBVIOUS
<1>2. CASE list[s].state \in {"connecting", "open"}
  <2> DEFINE t == [list[s] EXCEPT !.state = "closing", !.frames = <<>>]
  <2>1. t \in Socket /\ t.state = "closing"
    <3>1. <<>> \in Seq(FrameType)
      OBVIOUS
    <3>2. "closing" \in {"connecting", "open", "closing", "closed"}
      OBVIOUS
    <3>3. t \in Socket
      BY <1>1, <3>1, <3>2 DEF Socket
    <3>4. t.state = "closing"
      BY <1>1 DEF Socket
    <3>5. QED
      BY <3>3, <3>4
  <2>2. list2 = [list EXCEPT ![s] = t]
    BY <1>2 DEF Closed
  <2> HIDE DEF t
  <2>3. QED
    BY <1>2, <2>1, <2>2, SocketSet
<1>3. CASE list[s].state \notin {"connecting", "open"}
  <2>1. list2 = list
    BY <1>3 DEF Closed
  <2>2. QED
    BY <1>1, <1>3, <2>1 DEF Socket
<1>4. QED
  BY <1>2, <1>3

\* A socket that is made is the last.
LEMMA NewSocketFacts ==
  ASSUME NEW list \in Seq(Socket), NEW list2, list2 = Append(list, NewSocket)
  PROVE  /\ list2 \in Seq(Socket) /\ Len(list2) = Len(list) + 1 /\ list2 # <<>>
         /\ list2[Len(list2)] = NewSocket /\ \A r \in 1..Len(list) : list2[r] = list[r]
         /\ NewSocket.state = "connecting" /\ ~NewSocket.served
<1>1. NewSocket \in Socket /\ NewSocket.state = "connecting" /\ ~NewSocket.served
  BY DEF NewSocket, Socket
<1>2. QED
  BY <1>1

-----------------------------------------------------------------------------
(* Every step keeps the invariant.                                         *)

\* The market moves, and what is open hears of it.
LEMMA MarketKeeps ==
  ASSUME BrowserInv, MarketMoves
  PROVE  BrowserInv'
<1>1. PICK change \in Change :
        /\ market' = [s \in BookSide |-> IF s \in DOMAIN change THEN change[s] ELSE market[s]]
        /\ sockets' = [s \in DOMAIN sockets |->
             IF sockets[s].served /\ sockets[s].state = "open"
             THEN [sockets[s] EXCEPT !.frames = Append(@, Frame("update", change))] ELSE sockets[s]]
  BY DEF MarketMoves, Change
<1>2. UNCHANGED <<timers, mode, connState, ready, banner, demoOffered, levels, snapped, retried>>
  BY DEF MarketMoves
<1>3. BrowserTypeOK
  BY DEF BrowserInv
<1>4. Frame("update", change) \in FrameType
  BY DEF Frame, FrameType
<1>5. /\ sockets' \in Seq(Socket) /\ sockets' # <<>> /\ Len(sockets') = Len(sockets)
      /\ \A s \in 1..Len(sockets) :
           /\ sockets'[s].state = sockets[s].state /\ sockets'[s].served = sockets[s].served
           /\ sockets[s].served /\ sockets[s].state = "open" =>
                sockets'[s].frames = Append(sockets[s].frames, Frame("update", change))
  <2>1. ASSUME NEW s \in 1..Len(sockets)
        PROVE  /\ sockets'[s] \in Socket
               /\ sockets'[s].state = sockets[s].state /\ sockets'[s].served = sockets[s].served
               /\ sockets[s].served /\ sockets[s].state = "open" =>
                    sockets'[s].frames = Append(sockets[s].frames, Frame("update", change))
    <3>1. sockets[s] \in Socket
      BY <1>3 DEF BrowserTypeOK
    <3>2. s \in DOMAIN sockets
      BY <1>3 DEF BrowserTypeOK
    <3>3. sockets'[s] = IF sockets[s].served /\ sockets[s].state = "open"
                        THEN [sockets[s] EXCEPT !.frames = Append(@, Frame("update", change))] ELSE sockets[s]
      BY <1>1, <3>2
    <3>4. sockets[s].frames \in Seq(FrameType)
      BY <3>1 DEF Socket
    <3>5. Append(sockets[s].frames, Frame("update", change)) \in Seq(FrameType)
      BY <1>4, <3>4
    <3>6. QED
      BY <3>1, <3>3, <3>5 DEF Socket
  <2>2. DOMAIN sockets' = 1..Len(sockets) /\ Len(sockets) \in Nat
    BY <1>1, <1>3 DEF BrowserTypeOK
  <2>3. sockets' \in [1..Len(sockets) -> Socket] /\ Len(sockets) # 0
    <3>1. sockets' = [s \in 1..Len(sockets) |-> sockets'[s]]
      BY <1>1, <2>2
    <3>2. QED
      BY <1>3, <2>1, <3>1 DEF BrowserTypeOK
  <2>4. sockets' \in Seq(Socket) /\ Len(sockets') = Len(sockets)
    BY <2>2, <2>3
  <2>5. QED
    BY <2>1, <2>2, <2>3, <2>4
<1>6. market' \in [BookSide -> 0..1]
  <2>1. ASSUME NEW s \in BookSide PROVE market'[s] \in 0..1
    BY <1>1, <1>3 DEF BrowserTypeOK, Change
  <2>2. QED
    BY <1>1, <2>1
<1>7. BrowserTypeOK'
  BY <1>2, <1>3, <1>5, <1>6 DEF BrowserTypeOK
<1>8. Len(sockets) \in Nat \ {0}
  BY <1>3 DEF BrowserTypeOK
<1>9. (BannerOnce /\ OneConnection /\ ServedOnceOpen /\ SampleStaysSample)'
  BY <1>2, <1>5, <1>8 DEF BrowserInv, BannerOnce, OneConnection, ServedOnceOpen, SampleStaysSample, Ws
<1>10. NeverStranded'
  <2>1. DOMAIN sockets' = 1..Len(sockets) /\ DOMAIN sockets = 1..Len(sockets)
    BY <1>3, <1>5 DEF BrowserTypeOK
  <2>2. QED
    BY <1>2, <1>5, <2>1 DEF BrowserInv, NeverStranded
<1>11. FramesFollowMarket'
  <2>1. SUFFICES ASSUME (mode = "live" /\ ~retried)', (sockets[Ws].state = "open" /\ sockets[Ws].served)'
                 PROVE  Brings(levels, sockets[Ws].frames, market)'
    BY DEF FramesFollowMarket
  <2> DEFINE w == Len(sockets)
  <2>2. w \in 1..Len(sockets) /\ Ws' = w /\ Ws = w
    BY <1>5, <1>8 DEF Ws
  <2>3. sockets[w].state = "open" /\ sockets[w].served /\ mode = "live" /\ ~retried
    BY <1>2, <1>5, <2>1, <2>2
  <2>4. Brings(levels, sockets[w].frames, market)
    BY <2>2, <2>3 DEF BrowserInv, FramesFollowMarket
  <2>5. sockets[w].frames \in Seq(FrameType) /\ levels \in Levels /\ market \in [BookSide -> 0..1]
    <3>1. sockets[w] \in Socket
      BY <1>3, <2>2 DEF BrowserTypeOK
    <3>2. QED
      BY <1>3, <3>1 DEF BrowserTypeOK, Socket
  <2>6. sockets'[w].frames = Append(sockets[w].frames, Frame("update", change))
    BY <1>5, <2>2, <2>3
  <2> HIDE DEF w
  <2>7. Brings(levels, Append(sockets[w].frames, Frame("update", change)),
               [s \in BookSide |-> IF s \in DOMAIN change THEN change[s] ELSE market[s]])
    BY <2>4, <2>5, UpdateBrings
  <2>8. Brings(levels, sockets'[w].frames, market')
    BY <1>1, <2>6, <2>7
  <2>9. levels' = levels /\ (sockets[Ws].frames)' = sockets'[w].frames
    BY <1>2, <2>2
  <2>10. QED
    BY <2>8, <2>9 DEF Brings
<1>12. QED
  BY <1>7, <1>9, <1>10, <1>11 DEF BrowserInv

\* The last socket is one of the sockets.
LEMMA LastSocket ==
  ASSUME BrowserTypeOK
  PROVE  Ws \in 1..Len(sockets) /\ Ws = Len(sockets) /\ DOMAIN sockets = 1..Len(sockets)
  BY DEF BrowserTypeOK, Ws

\* A timer makes the next connection.
LEMMA TimerKeeps ==
  ASSUME BrowserInv, TimerFires
  PROVE  BrowserInv'
<1>1. BrowserTypeOK /\ timers \in Nat \ {0} /\ timers' = timers - 1
  BY DEF BrowserInv, BrowserTypeOK, TimerFires
<1>2. UNCHANGED <<market, mode, ready, banner, demoOffered, levels, snapped, retried>>
  BY DEF TimerFires
<1>3. CASE mode = "demo"
  <2>1. UNCHANGED <<sockets, connState>>
    BY <1>3 DEF TimerFires
  <2>2. Ws' = Ws
    BY <2>1 DEF Ws
  <2>3. QED
    BY <1>1, <1>2, <1>3, <2>1, <2>2
       DEF BrowserInv, BrowserTypeOK, BannerOnce, OneConnection, ServedOnceOpen, FramesFollowMarket,
           SampleStaysSample, NeverStranded
<1>4. CASE mode = "live"
  <2>1. sockets' = Append(sockets, NewSocket)
    BY <1>4 DEF TimerFires, Connect
  <2>2. /\ sockets' \in Seq(Socket) /\ Len(sockets') = Len(sockets) + 1 /\ sockets' # <<>>
        /\ sockets'[Len(sockets')] = NewSocket /\ \A r \in 1..Len(sockets) : sockets'[r] = sockets[r]
        /\ NewSocket.state = "connecting" /\ ~NewSocket.served
    <3>1. sockets \in Seq(Socket)
      BY <1>1 DEF BrowserTypeOK
    <3>2. PICK list2 : list2 = sockets'
      OBVIOUS
    <3>3. QED
      BY <2>1, <3>1, <3>2, NewSocketFacts
  <2>3. Len(sockets) \in Nat \ {0} /\ Ws = Len(sockets) /\ Ws' = Len(sockets) + 1
    BY <1>1, <2>2, LastSocket DEF Ws
  <2>4. BrowserTypeOK'
    BY <1>1, <1>2, <2>2 DEF BrowserTypeOK
  <2>5. (BannerOnce /\ SampleStaysSample)'
    BY <1>2, <1>4 DEF BrowserInv, BannerOnce, SampleStaysSample
  <2>6. sockets'[Ws'].state = "connecting"
    BY <2>2, <2>3
  <2>7. OneConnection'
    <3>1. SUFFICES ASSUME ~retried PROVE OneConnection'
      BY <1>2 DEF OneConnection
    <3>2. timers = 1 /\ \A r \in 1..Len(sockets) : sockets[r].state = "closed"
      BY <1>1, <1>4, <2>3, <3>1 DEF BrowserInv, OneConnection
    <3>3. timers' = 0 /\ \A r \in 1..(Len(sockets') - 1) : sockets'[r].state = "closed"
      BY <1>1, <2>2, <2>3, <3>2
    <3>4. QED
      BY <1>2, <1>4, <2>6, <3>3 DEF OneConnection
  <2>8. ServedOnceOpen'
    BY <2>2, <2>3 DEF BrowserInv, ServedOnceOpen
  <2>9. FramesFollowMarket'
    BY <2>6 DEF FramesFollowMarket
  <2>10. NeverStranded'
    <3>1. Len(sockets') \in DOMAIN sockets'
      BY <2>2, <2>3
    <3>2. QED
      BY <2>2, <3>1 DEF NeverStranded
  <2>11. QED
    BY <2>4, <2>5, <2>7, <2>8, <2>9, <2>10 DEF BrowserInv
<1>5. QED
  BY <1>1, <1>3, <1>4 DEF BrowserTypeOK

\* The banner comes or goes.
LEMMA OfferKeeps ==
  ASSUME BrowserInv, MaybeOfferDemo
  PROVE  BrowserInv'
<1>1. mode = "live" /\ UNCHANGED <<market, sockets, timers, mode, connState, ready, levels, snapped, retried>>
  BY DEF MaybeOfferDemo
<1>2. BannerOnce'
  BY <1>1 DEF BrowserInv, BannerOnce, MaybeOfferDemo
<1>3. Ws' = Ws
  BY <1>1 DEF Ws
<1>4. QED
  BY <1>1, <1>2, <1>3
     DEF BrowserInv, BrowserTypeOK, OneConnection, ServedOnceOpen, FramesFollowMarket, SampleStaysSample,
         NeverStranded

\* The visitor takes the sample data.
LEMMA DemoKeeps ==
  ASSUME BrowserInv, EnterDemo
  PROVE  BrowserInv'
<1>1. /\ banner /\ ~banner' /\ mode' = "demo" /\ connState' = "demo" /\ sockets' = Closed(sockets, Ws)
      /\ levels' = Sample /\ ready' = TRUE
      /\ UNCHANGED <<market, timers, demoOffered, retried>>
  BY DEF EnterDemo
<1>2. BrowserTypeOK /\ ~retried /\ demoOffered
  BY <1>1 DEF BrowserInv, BannerOnce
<1>3. Ws \in 1..Len(sockets) /\ Ws = Len(sockets) /\ DOMAIN sockets = 1..Len(sockets)
  BY <1>2, LastSocket
<1>4. /\ sockets' \in Seq(Socket) /\ Len(sockets') = Len(sockets) /\ sockets' # <<>>
      /\ \A r \in 1..Len(sockets) : r # Ws => sockets'[r] = sockets[r]
      /\ sockets'[Ws].state \in {"closing", "closed"}
  <2>1. sockets \in Seq(Socket)
    BY <1>2 DEF BrowserTypeOK
  <2>2. PICK list2 : list2 = sockets'
    OBVIOUS
  <2>3. QED
    BY <1>1, <1>3, <2>1, <2>2, ClosedFacts
<1>5. Ws' = Ws
  BY <1>4 DEF Ws
<1>6. levels' \in Levels
  BY <1>1 DEF Sample, Levels
<1>7. BrowserTypeOK'
  BY <1>1, <1>2, <1>4, <1>6 DEF BrowserTypeOK
<1>8. BannerOnce'
  BY <1>1, <1>2 DEF BannerOnce
<1>9. OneConnection'
  <2>1. \A r \in 1..(Len(sockets) - 1) : sockets[r].state = "closed" /\ r \in 1..Len(sockets) /\ r # Ws
    BY <1>2, <1>3 DEF BrowserInv, OneConnection
  <2>2. \A r \in 1..(Len(sockets') - 1) : sockets'[r].state = "closed"
    BY <1>4, <2>1
  <2>3. QED
    BY <1>1, <1>4, <1>5, <2>2 DEF OneConnection
<1>10. ServedOnceOpen'
  <2>1. \A r \in 1..Len(sockets') : r = Ws \/ sockets'[r] = sockets[r]
    BY <1>4
  <2>2. QED
    BY <1>4, <2>1 DEF BrowserInv, ServedOnceOpen
<1>11. (FramesFollowMarket /\ SampleStaysSample /\ NeverStranded)'
  BY <1>1 DEF FramesFollowMarket, SampleStaysSample, NeverStranded
<1>12. QED
  BY <1>7, <1>8, <1>9, <1>10, <1>11 DEF BrowserInv

\* The visitor tries to connect again.
LEMMA RetryKeeps ==
  ASSUME BrowserInv, RetryLive
  PROVE  BrowserInv'
<1>1. /\ banner /\ ~banner' /\ mode' = "live" /\ sockets' = Append(sockets, NewSocket)
      /\ levels' = NoLevels /\ retried' = TRUE
      /\ UNCHANGED <<market, timers, demoOffered>>
  BY DEF RetryLive, Connect
<1>2. BrowserTypeOK /\ demoOffered
  BY <1>1 DEF BrowserInv, BannerOnce
<1>3. /\ sockets' \in Seq(Socket) /\ Len(sockets') = Len(sockets) + 1 /\ sockets' # <<>>
      /\ sockets'[Len(sockets')] = NewSocket /\ \A r \in 1..Len(sockets) : sockets'[r] = sockets[r]
      /\ NewSocket.state = "connecting" /\ ~NewSocket.served
  <2>1. sockets \in Seq(Socket)
    BY <1>2 DEF BrowserTypeOK
  <2>2. PICK list2 : list2 = sockets'
    OBVIOUS
  <2>3. QED
    BY <1>1, <2>1, <2>2, NewSocketFacts
<1>4. Len(sockets) \in Nat \ {0}
  BY <1>2 DEF BrowserTypeOK
<1>5. levels' \in Levels
  BY <1>1 DEF NoLevels, Levels
<1>6. BrowserTypeOK'
  BY <1>1, <1>2, <1>3, <1>5 DEF BrowserTypeOK
<1>7. (BannerOnce /\ OneConnection /\ FramesFollowMarket /\ SampleStaysSample)'
  BY <1>1, <1>2 DEF BannerOnce, OneConnection, FramesFollowMarket, SampleStaysSample
<1>8. ServedOnceOpen'
  BY <1>3, <1>4 DEF BrowserInv, ServedOnceOpen
<1>9. NeverStranded'
  <2>1. Len(sockets') \in DOMAIN sockets'
    BY <1>3, <1>4
  <2>2. QED
    BY <1>3, <2>1 DEF NeverStranded
<1>10. QED
  BY <1>6, <1>7, <1>8, <1>9 DEF BrowserInv

\* A socket opens, and the last one asks for its frames if it can.
LEMMA OpenKeeps ==
  ASSUME BrowserInv, NEW s \in DOMAIN sockets, OnOpen(s)
  PROVE  BrowserInv'
<1>1. /\ sockets[s].state = "connecting"
      /\ UNCHANGED <<market, timers, mode, ready, banner, demoOffered, levels, snapped, retried>>
  BY DEF OnOpen
<1>2. BrowserTypeOK
  BY DEF BrowserInv
<1>3. Ws \in 1..Len(sockets) /\ Ws = Len(sockets) /\ s \in 1..Len(sockets) /\ sockets \in Seq(Socket)
  BY <1>2, LastSocket DEF BrowserTypeOK
<1>4. ~retried => s = Ws
  <2>1. s # Ws => s \in 1..(Len(sockets) - 1)
    BY <1>3
  <2>2. QED
    BY <1>1, <2>1 DEF BrowserInv, OneConnection
<1>5. mode = "live"
  <2>1. mode = "demo" => ~retried /\ sockets[Ws].state \in {"closing", "closed"}
    BY DEF BrowserInv, BannerOnce, OneConnection
  <2>2. QED
    BY <1>1, <1>2, <1>4, <2>1 DEF BrowserTypeOK
<1> DEFINE opened == [sockets EXCEPT ![s].state = "open"]
<1>6. /\ opened \in Seq(Socket) /\ Len(opened) = Len(sockets) /\ opened # <<>>
      /\ opened[s].state = "open" /\ opened[s].served = sockets[s].served
      /\ \A r \in 1..Len(sockets) : r # s => opened[r] = sockets[r]
  <2>1. sockets[s] \in Socket
    BY <1>3
  <2>2. PICK t : t = [sockets[s] EXCEPT !.state = "open"]
    OBVIOUS
  <2>3. t \in Socket /\ t.state = "open" /\ t.served = sockets[s].served
    BY <2>1, <2>2 DEF Socket
  <2>4. PICK list2 : list2 = opened
    OBVIOUS
  <2>5. list2 = [sockets EXCEPT ![s] = t]
    BY <2>2, <2>4
  <2> HIDE DEF opened
  <2>6. /\ list2 \in Seq(Socket) /\ Len(list2) = Len(sockets) /\ list2 # <<>>
        /\ list2[s] = t /\ \A r \in 1..Len(sockets) : r # s => list2[r] = sockets[r]
    BY <1>3, <2>3, <2>5, SocketSet
  <2>7. QED
    BY <2>3, <2>4, <2>6
<1>7. sockets' = IF opened[Ws].state = "open" /\ ~opened[Ws].served
                 THEN [opened EXCEPT ![Ws].served = TRUE, ![Ws].frames = <<Frame("snapshot", market)>>]
                 ELSE opened
  BY DEF OnOpen
<1> HIDE DEF opened
<1>8. Frame("snapshot", market) \in FrameType
  BY <1>2 DEF BrowserTypeOK, Frame, FrameType, Change
<1>9. /\ sockets' \in Seq(Socket) /\ Len(sockets') = Len(sockets) /\ sockets' # <<>>
      /\ \A r \in 1..Len(sockets) : sockets'[r].state = IF r = s THEN "open" ELSE sockets[r].state
      /\ \A r \in 1..Len(sockets) : r # s /\ r # Ws => sockets'[r] = sockets[r]
      /\ sockets'[Ws].state = "connecting" => sockets'[Ws] = sockets[Ws]
      /\ s = Ws /\ ~sockets[s].served => sockets'[Ws].frames = <<Frame("snapshot", market)>>
  <2>1. CASE opened[Ws].state = "open" /\ ~opened[Ws].served
    <3>1. opened[Ws] \in Socket
      BY <1>3, <1>6
    <3>2. PICK v : v = opened[Ws]
      OBVIOUS
    <3>3. PICK t : t = [v EXCEPT !.served = TRUE, !.frames = <<Frame("snapshot", market)>>]
      OBVIOUS
    <3>4. <<Frame("snapshot", market)>> \in Seq(FrameType)
      BY <1>8
    <3>5. t \in Socket
      BY <3>1, <3>2, <3>3, <3>4 DEF Socket
    <3>6. t.state = "open" /\ t.frames = <<Frame("snapshot", market)>>
      BY <2>1, <3>1, <3>2, <3>3 DEF Socket
    <3>7. PICK list2 : list2 = sockets'
      OBVIOUS
    <3>8. list2 = [opened EXCEPT ![Ws] = t]
      BY <1>7, <2>1, <3>2, <3>3, <3>7
    <3>9. /\ list2 \in Seq(Socket) /\ Len(list2) = Len(opened) /\ list2 # <<>>
          /\ list2[Ws] = t /\ \A r \in 1..Len(opened) : r # Ws => list2[r] = opened[r]
      BY <1>3, <1>6, <3>5, <3>8, SocketSet
    <3>10. \A r \in 1..Len(sockets) : opened[r].state = IF r = s THEN "open" ELSE sockets[r].state
      BY <1>6
    <3>11. \A r \in 1..Len(sockets) : list2[r].state = IF r = s THEN "open" ELSE sockets[r].state
      BY <1>3, <1>6, <2>1, <3>6, <3>9, <3>10
    <3>12. QED
      BY <1>3, <1>6, <3>6, <3>7, <3>9, <3>11
  <2>2. CASE ~(opened[Ws].state = "open" /\ ~opened[Ws].served)
    <3>1. sockets' = opened
      BY <1>7, <2>2
    <3>2. QED
      BY <1>3, <1>6, <2>2, <3>1
  <2>3. QED
    BY <2>1, <2>2
<1>10. Ws' = Ws
  BY <1>9 DEF Ws
<1>11. BrowserTypeOK'
  BY <1>1, <1>2, <1>9 DEF BrowserTypeOK
<1>12. (BannerOnce /\ SampleStaysSample)'
  BY <1>1, <1>5 DEF BrowserInv, BannerOnce, SampleStaysSample
<1>13. OneConnection'
  <2>1. SUFFICES ASSUME ~retried PROVE OneConnection'
    BY <1>1 DEF OneConnection
  <2>2. s = Ws /\ \A r \in 1..(Len(sockets) - 1) : sockets[r].state = "closed"
    BY <1>4, <2>1 DEF BrowserInv, OneConnection
  <2>3. \A r \in 1..(Len(sockets') - 1) : sockets'[r].state = "closed"
    <3>1. \A r \in 1..(Len(sockets') - 1) : r \in 1..Len(sockets) /\ r # s /\ r \in 1..(Len(sockets) - 1)
      BY <1>3, <1>9, <2>2
    <3>2. QED
      BY <1>9, <2>2, <3>1
  <2>4. timers = 0
    BY <1>1, <1>5, <2>1, <2>2 DEF BrowserInv, OneConnection
  <2>5. QED
    BY <1>1, <1>3, <1>5, <1>9, <1>10, <2>2, <2>3, <2>4 DEF OneConnection
<1>14. ServedOnceOpen'
  <2>1. ASSUME NEW r \in 1..Len(sockets), sockets'[r].state = "connecting"
        PROVE  ~sockets'[r].served
    <3>1. sockets'[r] = sockets[r]
      BY <1>9, <2>1
    <3>2. QED
      BY <2>1, <3>1 DEF BrowserInv, ServedOnceOpen
  <2>2. QED
    BY <1>9, <2>1 DEF ServedOnceOpen
<1>15. FramesFollowMarket'
  <2>1. SUFFICES ASSUME ~retried PROVE Brings(levels, sockets'[Ws].frames, market)
    BY <1>1, <1>10 DEF FramesFollowMarket, Brings
  <2>2. s = Ws /\ ~sockets[s].served
    BY <1>1, <1>3, <1>4, <2>1 DEF BrowserInv, ServedOnceOpen
  <2>3. sockets'[Ws].frames = <<Frame("snapshot", market)>>
    BY <1>9, <2>2
  <2>4. levels \in Levels /\ market \in [BookSide -> 0..1]
    BY <1>2 DEF BrowserTypeOK
  <2>5. QED
    BY <2>3, <2>4, SnapshotBrings
<1>16. NeverStranded'
  <2>1. s \in DOMAIN sockets' /\ sockets'[s].state = "open"
    BY <1>3, <1>9
  <2>2. QED
    BY <2>1 DEF NeverStranded
<1>17. QED
  BY <1>11, <1>12, <1>13, <1>14, <1>15, <1>16 DEF BrowserInv

\* A socket comes to its end.
LEMMA CloseKeeps ==
  ASSUME BrowserInv, NEW s \in DOMAIN sockets, OnClose(s)
  PROVE  BrowserInv'
<1>1. /\ sockets[s].state # "closed"
      /\ sockets' = [sockets EXCEPT ![s].state = "closed", ![s].frames = <<>>]
      /\ IF mode = "demo" THEN UNCHANGED <<connState, timers>> ELSE timers' = timers + 1
      /\ UNCHANGED <<market, mode, ready, banner, demoOffered, levels, snapped, retried>>
  BY DEF OnClose
<1>2. BrowserTypeOK
  BY DEF BrowserInv
<1>3. Ws \in 1..Len(sockets) /\ Ws = Len(sockets) /\ s \in 1..Len(sockets) /\ sockets \in Seq(Socket)
  BY <1>2, LastSocket DEF BrowserTypeOK
<1>4. ~retried => s = Ws
  <2>1. s # Ws => s \in 1..(Len(sockets) - 1)
    BY <1>3
  <2>2. QED
    BY <1>1, <2>1 DEF BrowserInv, OneConnection
<1>5. /\ sockets' \in Seq(Socket) /\ Len(sockets') = Len(sockets) /\ sockets' # <<>>
      /\ sockets'[s].state = "closed" /\ \A r \in 1..Len(sockets) : r # s => sockets'[r] = sockets[r]
  <2>1. sockets[s] \in Socket
    BY <1>3
  <2>2. PICK v : v = sockets[s]
    OBVIOUS
  <2>3. PICK t : t = [v EXCEPT !.state = "closed", !.frames = <<>>]
    OBVIOUS
  <2>4. <<>> \in Seq(FrameType) /\ "closed" \in {"connecting", "open", "closing", "closed"}
    OBVIOUS
  <2>5. t \in Socket
    BY <2>1, <2>2, <2>3, <2>4 DEF Socket
  <2>6. t.state = "closed"
    BY <2>1, <2>2, <2>3 DEF Socket
  <2>7. PICK list2 : list2 = sockets'
    OBVIOUS
  <2>8. list2 = [sockets EXCEPT ![s] = t]
    BY <1>1, <2>2, <2>3, <2>7
  <2>9. QED
    BY <1>3, <2>5, <2>6, <2>7, <2>8, SocketSet
<1>6. Ws' = Ws
  BY <1>5 DEF Ws
<1>7. BrowserTypeOK'
  BY <1>1, <1>2, <1>5 DEF BrowserTypeOK
<1>8. (BannerOnce /\ SampleStaysSample)'
  BY <1>1 DEF BrowserInv, BannerOnce, SampleStaysSample
<1>9. OneConnection'
  <2>1. SUFFICES ASSUME ~retried PROVE OneConnection'
    BY <1>1 DEF OneConnection
  <2>2. s = Ws /\ \A r \in 1..(Len(sockets) - 1) : sockets[r].state = "closed"
    BY <1>4, <2>1 DEF BrowserInv, OneConnection
  <2>3. \A r \in 1..(Len(sockets') - 1) : sockets'[r].state = "closed"
    <3>1. \A r \in 1..(Len(sockets') - 1) : r \in 1..Len(sockets) /\ r # s /\ r \in 1..(Len(sockets) - 1)
      BY <1>3, <1>5, <2>2
    <3>2. QED
      BY <1>5, <2>2, <3>1
  <2>4. mode = "live" => timers = 0
    BY <1>1, <2>1, <2>2 DEF BrowserInv, OneConnection
  <2>5. QED
    BY <1>1, <1>2, <1>5, <1>6, <2>2, <2>3, <2>4 DEF OneConnection
<1>10. ServedOnceOpen'
  <2>1. \A r \in 1..Len(sockets') : r = s \/ sockets'[r] = sockets[r]
    BY <1>5
  <2>2. QED
    BY <1>5, <2>1 DEF BrowserInv, ServedOnceOpen
<1>11. FramesFollowMarket'
  BY <1>1, <1>4, <1>5, <1>6 DEF FramesFollowMarket
<1>12. NeverStranded'
  BY <1>1, <1>2 DEF NeverStranded, BrowserTypeOK
<1>13. QED
  BY <1>7, <1>8, <1>9, <1>10, <1>11, <1>12 DEF BrowserInv

\* A socket fails that is not the last: the last is told to close.
LEMMA ErrorKeeps ==
  ASSUME BrowserInv, NEW s \in DOMAIN sockets, OnError(s)
  PROVE  BrowserInv'
<1>1. /\ Alive(s) /\ s # Ws /\ Alive(Ws) /\ sockets' = Closed(Closed(sockets, Ws), s)
      /\ UNCHANGED <<market, timers, mode, connState, ready, banner, demoOffered, levels, snapped, retried>>
  BY DEF OnError
<1>2. BrowserTypeOK
  BY DEF BrowserInv
<1>3. Ws \in 1..Len(sockets) /\ Ws = Len(sockets) /\ s \in 1..Len(sockets) /\ sockets \in Seq(Socket)
  BY <1>2, LastSocket DEF BrowserTypeOK
<1>4. retried
  <2>1. s \in 1..(Len(sockets) - 1)
    BY <1>1, <1>3
  <2>2. QED
    BY <1>1, <2>1 DEF BrowserInv, OneConnection, Alive
<1>5. PICK mid : mid = Closed(sockets, Ws)
  OBVIOUS
<1>6. /\ mid \in Seq(Socket) /\ Len(mid) = Len(sockets)
      /\ \A r \in 1..Len(sockets) : r # Ws => mid[r] = sockets[r]
      /\ mid[Ws].state \in {"closing", "closed"}
      /\ mid[Ws].state = "closed" <=> sockets[Ws].state = "closed"
  BY <1>3, <1>5, ClosedFacts
<1>7. PICK list2 : list2 = sockets'
  OBVIOUS
<1>8. /\ list2 \in Seq(Socket) /\ Len(list2) = Len(sockets) /\ list2 # <<>>
      /\ \A r \in 1..Len(sockets) : r # s => list2[r] = mid[r]
      /\ list2[s].state \in {"closing", "closed"}
      /\ list2[s].state = "closed" <=> mid[s].state = "closed"
  <2>1. s \in 1..Len(mid) /\ list2 = Closed(mid, s)
    BY <1>1, <1>3, <1>5, <1>6, <1>7
  <2>2. QED
    BY <1>6, <2>1, ClosedFacts
<1>9. BrowserTypeOK'
  BY <1>1, <1>2, <1>7, <1>8 DEF BrowserTypeOK
<1>10. (BannerOnce /\ OneConnection /\ FramesFollowMarket)'
  BY <1>1, <1>4 DEF BrowserInv, BannerOnce, OneConnection, FramesFollowMarket
<1>11. SampleStaysSample'
  BY <1>1 DEF BrowserInv, SampleStaysSample
<1>12. ServedOnceOpen'
  <2>1. \A r \in 1..Len(list2) : list2[r].state = "connecting" => list2[r] = sockets[r]
    BY <1>6, <1>8
  <2>2. QED
    BY <1>7, <1>8, <2>1 DEF BrowserInv, ServedOnceOpen
<1>13. NeverStranded'
  <2>1. s \in DOMAIN list2 /\ list2[s].state # "closed"
    <3>1. mid[s].state # "closed"
      BY <1>1, <1>3, <1>6 DEF Alive
    <3>2. QED
      BY <1>3, <1>8, <3>1
  <2>2. QED
    BY <1>7, <2>1 DEF NeverStranded
<1>14. QED
  BY <1>9, <1>10, <1>11, <1>12, <1>13 DEF BrowserInv

\* A frame is applied to the levels.
LEMMA MessageKeeps ==
  ASSUME BrowserInv, NEW s \in DOMAIN sockets, OnMessage(s)
  PROVE  BrowserInv'
<1>1. /\ sockets[s].state = "open" /\ sockets[s].frames # <<>>
      /\ levels' = Applied(levels, Head(sockets[s].frames))
      /\ sockets' = [sockets EXCEPT ![s].frames = Tail(@)]
      /\ UNCHANGED <<market, timers, mode, banner, demoOffered, retried>>
  BY DEF OnMessage, HandleL2
<1>2. BrowserTypeOK
  BY DEF BrowserInv
<1>3. Ws \in 1..Len(sockets) /\ Ws = Len(sockets) /\ s \in 1..Len(sockets) /\ sockets \in Seq(Socket)
  BY <1>2, LastSocket DEF BrowserTypeOK
<1>4. ~retried => s = Ws
  <2>1. s # Ws => s \in 1..(Len(sockets) - 1)
    BY <1>3
  <2>2. QED
    BY <1>1, <2>1 DEF BrowserInv, OneConnection
<1>5. mode = "live"
  <2>1. mode = "demo" => ~retried /\ sockets[Ws].state \in {"closing", "closed"}
    BY DEF BrowserInv, BannerOnce, OneConnection
  <2>2. QED
    BY <1>1, <1>2, <1>4, <2>1 DEF BrowserTypeOK
<1>6. sockets[s] \in Socket /\ sockets[s].frames \in Seq(FrameType)
  <2>1. sockets[s] \in Socket
    BY <1>3
  <2>2. QED
    BY <2>1 DEF Socket
<1>7. /\ sockets' \in Seq(Socket) /\ Len(sockets') = Len(sockets) /\ sockets' # <<>>
      /\ sockets'[s].state = "open" /\ sockets'[s].served = sockets[s].served
      /\ sockets'[s].frames = Tail(sockets[s].frames)
      /\ \A r \in 1..Len(sockets) : r # s => sockets'[r] = sockets[r]
  <2>1. PICK v : v = sockets[s]
    OBVIOUS
  <2>2. PICK t : t = [v EXCEPT !.frames = Tail(v.frames)]
    OBVIOUS
  <2>3. Tail(v.frames) \in Seq(FrameType)
    BY <1>1, <1>6, <2>1
  <2>4. t \in Socket /\ t.state = "open" /\ t.served = v.served /\ t.frames = Tail(v.frames)
    BY <1>1, <1>6, <2>1, <2>2, <2>3 DEF Socket
  <2>5. PICK list2 : list2 = sockets'
    OBVIOUS
  <2>6. list2 = [sockets EXCEPT ![s] = t]
    BY <1>1, <2>1, <2>2, <2>5
  <2>7. QED
    BY <1>3, <2>1, <2>4, <2>5, <2>6, SocketSet
<1>8. Ws' = Ws
  BY <1>7 DEF Ws
<1>9. Head(sockets[s].frames) \in FrameType /\ levels \in Levels
  BY <1>1, <1>2, <1>6 DEF BrowserTypeOK
<1>10. levels' \in Levels
  BY <1>1, <1>9, AppliedType
<1>11. BrowserTypeOK'
  BY <1>1, <1>2, <1>7, <1>10 DEF BrowserTypeOK
<1>12. (BannerOnce /\ SampleStaysSample)'
  BY <1>1, <1>5 DEF BrowserInv, BannerOnce, SampleStaysSample
<1>13. \A r \in 1..Len(sockets) : sockets'[r].state = sockets[r].state /\ sockets'[r].served = sockets[r].served
  BY <1>1, <1>7
<1>14. OneConnection'
  <2>1. \A r \in 1..(Len(sockets') - 1) : r \in 1..Len(sockets) /\ r \in 1..(Len(sockets) - 1)
    BY <1>3, <1>7
  <2>2. QED
    BY <1>1, <1>3, <1>8, <1>13, <2>1 DEF BrowserInv, OneConnection
<1>15. ServedOnceOpen'
  BY <1>7, <1>13 DEF BrowserInv, ServedOnceOpen
<1>16. FramesFollowMarket'
  <2>1. SUFFICES ASSUME ~retried, sockets'[Ws].served
                 PROVE  Brings(levels', sockets'[Ws].frames, market)
    <3>1. Brings(levels, sockets[Ws].frames, market)' <=> Brings(levels', sockets'[Ws'].frames, market')
      BY DEF Brings
    <3>2. QED
      BY <1>1, <1>8, <2>1, <3>1 DEF FramesFollowMarket
  <2>2. s = Ws /\ sockets[s].served /\ sockets[s].state = "open"
    BY <1>1, <1>4, <1>7, <2>1
  <2>3. Brings(levels, sockets[s].frames, market)
    BY <1>5, <2>1, <2>2 DEF BrowserInv, FramesFollowMarket
  <2>4. Brings(Applied(levels, Head(sockets[s].frames)), Tail(sockets[s].frames), market)
    BY <1>1, <1>6, <1>9, <2>3, HeadBrings
  <2>5. QED
    BY <1>1, <1>7, <2>2, <2>4
<1>17. NeverStranded'
  <2>1. s \in DOMAIN sockets' /\ sockets'[s].state # "closed"
    BY <1>3, <1>7
  <2>2. QED
    BY <2>1 DEF NeverStranded
<1>18. QED
  BY <1>11, <1>12, <1>14, <1>15, <1>16, <1>17 DEF BrowserInv

\* The page starts with one socket and an empty book.
LEMMA BrowserInitInv ==
  ASSUME BrowserInit
  PROVE  BrowserInv
<1>1. NewSocket \in Socket /\ NewSocket.state = "connecting" /\ ~NewSocket.served
  BY DEF NewSocket, Socket
<1>2. sockets \in Seq(Socket) /\ Len(sockets) = 1 /\ sockets[1] = NewSocket /\ sockets # <<>> /\ Ws = 1
  BY <1>1 DEF BrowserInit, Ws
<1>3. NoLevels \in Levels
  BY DEF NoLevels, Levels
<1>4. BrowserTypeOK
  BY <1>2, <1>3 DEF BrowserInit, BrowserTypeOK
<1>5. BannerOnce /\ SampleStaysSample
  BY DEF BrowserInit, BannerOnce, SampleStaysSample
<1>6. OneConnection /\ ServedOnceOpen /\ FramesFollowMarket
  BY <1>1, <1>2 DEF BrowserInit, OneConnection, ServedOnceOpen, FramesFollowMarket
<1>7. NeverStranded
  <2>1. 1 \in DOMAIN sockets /\ sockets[1].state # "closed"
    BY <1>1, <1>2
  <2>2. QED
    BY <2>1 DEF NeverStranded
<1>8. QED
  BY <1>4, <1>5, <1>6, <1>7 DEF BrowserInv

\* Every handler keeps the invariant, and so does a step that leaves the page alone.
LEMMA BrowserStepKeeps ==
  ASSUME BrowserInv, [BrowserNext]_browserVars
  PROVE  BrowserInv'
<1>1. CASE MarketMoves
  BY <1>1, MarketKeeps
<1>2. CASE TimerFires
  BY <1>2, TimerKeeps
<1>3. CASE MaybeOfferDemo
  BY <1>3, OfferKeeps
<1>4. CASE EnterDemo
  BY <1>4, DemoKeeps
<1>5. CASE RetryLive
  BY <1>5, RetryKeeps
<1>6. ASSUME NEW s \in DOMAIN sockets, OnOpen(s) \/ OnClose(s) \/ OnError(s) \/ OnMessage(s)
      PROVE  BrowserInv'
  BY <1>6, OpenKeeps, CloseKeeps, ErrorKeeps, MessageKeeps
<1>7. CASE UNCHANGED browserVars
  <2>1. Ws' = Ws
    BY <1>7 DEF browserVars, Ws
  <2>2. QED
    BY <1>7, <2>1
       DEF browserVars, BrowserInv, BrowserTypeOK, BannerOnce, OneConnection, ServedOnceOpen, FramesFollowMarket,
           SampleStaysSample, NeverStranded
<1>8. QED
  BY <1>1, <1>2, <1>3, <1>4, <1>5, <1>6, <1>7 DEF BrowserNext

\* The invariant says what the visitor relies on.
LEMMA BrowserInvKeepsUp ==
  ASSUME BrowserInv
  PROVE  PageKeepsUp
<1>1. SampleStaysSample /\ NeverStranded /\ BrowserTypeOK
  BY DEF BrowserInv
<1>2. ASSUME mode = "live", ~retried, sockets[Ws].state = "open", sockets[Ws].served
      PROVE  FoldLeft(Applied, levels, sockets[Ws].frames) = market
  <2>1. Brings(levels, sockets[Ws].frames, market)
    BY <1>2 DEF BrowserInv, FramesFollowMarket
  <2>2. sockets[Ws] \in Socket /\ levels \in Levels
    BY <1>1, LastSocket DEF BrowserTypeOK
  <2>3. sockets[Ws].frames \in Seq(FrameType)
    BY <2>2 DEF Socket
  <2>4. PICK frames : frames = sockets[Ws].frames
    OBVIOUS
  <2>5. FoldLeft(Applied, levels, frames) = market
    BY <2>1, <2>2, <2>3, <2>4, BringsIsFold
  <2>6. QED
    BY <2>4, <2>5
<1>3. BookFollowsMarket
  BY <1>2 DEF BookFollowsMarket
<1>4. QED
  BY <1>1, <1>3 DEF PageKeepsUp

\* Of the page's WebSocket, its timers and the sample data (app.js): whatever connections
\* are lost, when, and whatever the visitor clicks, sample data never mixes with the
\* market's, a live page has a connection or a timer that makes one, and the frames under way on
\* the last socket bring the book to the market's.  For any bound on sockets and frames.
THEOREM PageKeepsUpAlways == BrowserSpec => []PageKeepsUp
<1>1. BrowserInit => BrowserInv
  BY BrowserInitInv
<1>2. BrowserInv /\ [BrowserNext]_browserVars => BrowserInv'
  BY BrowserStepKeeps
<1>3. BrowserInv => PageKeepsUp
  BY BrowserInvKeepsUp
<1>4. QED
  BY <1>1, <1>2, <1>3, PTL DEF BrowserSpec

-----------------------------------------------------------------------------
(* The order service.                                                      *)

OrderRecord == [side : Side, price : 0..MaxPrice, quantity : Nat, status : {"none", "open", "partial", "filled"}]

CallRecord == [kind : {"idle", "limit", "market"}, side : Side, taker : Id \union {NoOrder}, limit : Nat,
               quantity : Nat, remaining : Nat, fills : Seq(Fill)]

ServiceTypeOK ==
  /\ order \in [Id -> OrderRecord] /\ resting \in Seq(Id) /\ call \in CallRecord
  /\ fills \in Seq(Fill) /\ asked \in [Side -> Int] /\ position \in Int

\* All fills of a batch are of one order.
AllOf(batch, s, id) == \A k \in 1..Len(batch) : batch[k].side = s /\ batch[k].order_id = id

\* What the running call has filled so far, and that its own order still has all it came with.
CallFits ==
  /\ call.kind = "limit" => call.taker \in Id /\ order[call.taker].side = call.side
                            /\ order[call.taker].quantity = call.quantity
  /\ call.kind = "market" => call.taker = NoOrder
  /\ Quantity(call.fills) = call.quantity - call.remaining
  /\ AllOf(call.fills, call.side, call.taker)

\* The fills of the running call, of which the orders met know already.
UnderWay(s) == IF Running /\ s = Opposite(call.side) THEN Quantity(call.fills) ELSE 0

AllIds == Id \union {NoOrder}

Accounts ==
  /\ \A s \in Side : Executed(s) + Taken(s, {NoOrder}, fills) = Quantity(fills) + UnderWay(s)
  /\ position = Taken("bid", AllIds, fills) - Taken("ask", AllIds, fills)

ServiceInv == ServiceTypeOK /\ CallFits /\ Accounts

-----------------------------------------------------------------------------
(* Sums over fills.                                                        *)

\* The quantity of a batch is a number, that of two batches is added.
LEMMA QuantityFacts ==
  ASSUME NEW a \in Seq(Fill), NEW b \in Seq(Fill), NEW f \in Fill
  PROVE  /\ Quantity(a) \in Int /\ Quantity(<<>>) = 0
         /\ Quantity(Append(a, f)) = Quantity(a) + f.quantity
         /\ Quantity(a \o b) = Quantity(a) + Quantity(b)
<1> DEFINE w == [g \in Fill |-> g.quantity]
<1>1. w \in [Fill -> Int] /\ w[f] = f.quantity
  BY DEF Fill
<1>2. \A batch : Quantity(batch) = Total(w, batch)
  BY DEF Quantity
<1> HIDE DEF w
<1>3. Total(w, a) \in Int /\ Total(w, <<>>) = 0
  BY <1>1, TotalType, TotalOfEmpty
<1>4. Total(w, Append(a, f)) = Total(w, a) + w[f]
  BY <1>1, TotalOfAppend
<1>5. Total(w, a \o b) = Total(w, a) + Total(w, b)
  BY <1>1, TotalOfConcat
<1>6. QED
  BY <1>1, <1>2, <1>3, <1>4, <1>5

\* So is what of it is of some orders and of one side; of a batch that is all of one
\* order it is all or nothing.
LEMMA TakenFacts ==
  ASSUME NEW a \in Seq(Fill), NEW b \in Seq(Fill), NEW s \in Side, NEW ids
  PROVE  /\ Taken(s, ids, a) \in Int /\ Taken(s, ids, <<>>) = 0
         /\ Taken(s, ids, a \o b) = Taken(s, ids, a) + Taken(s, ids, b)
         /\ \A t, id : AllOf(a, t, id) => Taken(s, ids, a) = IF s = t /\ id \in ids THEN Quantity(a) ELSE 0
<1> DEFINE w == [f \in Fill |-> IF f.side = s /\ f.order_id \in ids THEN f.quantity ELSE 0]
           v == [f \in Fill |-> f.quantity]
<1>1. w \in [Fill -> Int] /\ v \in [Fill -> Int]
  BY DEF Fill
<1>2. \A batch : Taken(s, ids, batch) = Total(w, batch)
  BY DEF Taken
<1>3. Quantity(a) = Total(v, a)
  BY DEF Quantity
<1>4. \A k \in 1..Len(a) : a[k] \in Fill
  OBVIOUS
<1>5. \A f \in Fill : w[f] = (IF f.side = s /\ f.order_id \in ids THEN v[f] ELSE 0)
  OBVIOUS
<1> HIDE DEF w, v
<1>6. ASSUME NEW t, NEW id, AllOf(a, t, id)
      PROVE  Taken(s, ids, a) = IF s = t /\ id \in ids THEN Quantity(a) ELSE 0
  <2>1. CASE s = t /\ id \in ids
    <3>1. \A k \in 1..Len(a) : w[a[k]] = v[a[k]]
      BY <1>4, <1>5, <1>6, <2>1 DEF AllOf
    <3>2. Total(w, a) = Total(v, a)
      BY <1>1, <3>1, TotalOfSame
    <3>3. QED
      BY <1>2, <1>3, <2>1, <3>2
  <2>2. CASE ~(s = t /\ id \in ids)
    <3>1. \A k \in 1..Len(a) : w[a[k]] = 0
      BY <1>4, <1>5, <1>6, <2>2 DEF AllOf
    <3>2. Total(w, a) = 0
      BY <1>1, <3>1, TotalOfNothing
    <3>3. QED
      BY <1>2, <2>2, <3>2
  <2>3. QED
    BY <2>1, <2>2
<1>7. QED
  BY <1>1, <1>2, <1>6, TotalType, TotalOfEmpty, TotalOfConcat

\* What an order has left on a side.
LeftOn(o, s) == IF o.side = s THEN o.quantity ELSE 0

\* The orders of a side, whatever they are.
UnexecutedOf(orders, s) == Total([id \in Id |-> LeftOn(orders[id], s)], [id \in Id |-> id])

\* The list of all ids.
LEMMA IdList ==
  /\ [id \in Id |-> id] \in Seq(Id) /\ IsInjective([id \in Id |-> id])
  /\ Len([id \in Id |-> id]) = Cardinality(Id) /\ Id = 1..Cardinality(Id)
<1>1. Cardinality(Id) \in Nat /\ Id = 1..Cardinality(Id)
  BY ServiceAssumption
<1> DEFINE list == [id \in Id |-> id]
<1>2. list \in [1..Cardinality(Id) -> Id] /\ \A id \in Id : list[id] = id
  BY <1>1
<1>3. list \in Seq(Id) /\ Len(list) = Cardinality(Id)
  BY <1>1, <1>2
<1>4. IsInjective(list)
  BY <1>2 DEF IsInjective
<1>5. QED
  BY <1>1, <1>3, <1>4

\* What a side has left is a number.
LEMMA UnexecutedType ==
  ASSUME NEW orders \in [Id -> OrderRecord], NEW s \in Side
  PROVE  UnexecutedOf(orders, s) \in Int
<1> DEFINE list == [o \in Id |-> o]
           w == [o \in Id |-> LeftOn(orders[o], s)]
<1>1. \A o \in OrderRecord : LeftOn(o, s) \in Int
  BY DEF LeftOn, OrderRecord
<1>2. w \in [Id -> Int] /\ list \in Seq(Id)
  BY <1>1, IdList
<1>3. UnexecutedOf(orders, s) = Total(w, list)
  BY DEF UnexecutedOf
<1> HIDE DEF list, w
<1>4. QED
  BY <1>2, <1>3, TotalType

\* When one order changes, what its side has left changes with it.
LEMMA UnexecutedOfChange ==
  ASSUME NEW orders \in [Id -> OrderRecord], NEW id \in Id, NEW rec \in OrderRecord, NEW s \in Side, NEW new,
         new = [orders EXCEPT ![id] = rec]
  PROVE  /\ UnexecutedOf(orders, s) \in Int
         /\ UnexecutedOf(new, s) = UnexecutedOf(orders, s) - LeftOn(orders[id], s) + LeftOn(rec, s)
<1> DEFINE list == [o \in Id |-> o]
           w == [o \in Id |-> LeftOn(orders[o], s)]
           v == [o \in Id |-> LeftOn(new[o], s)]
<1>1. \A o \in OrderRecord : LeftOn(o, s) \in Int
  BY DEF LeftOn, OrderRecord
<1>2. w \in [Id -> Int] /\ v \in [Id -> Int]
  BY <1>1
<1>3. list \in Seq(Id) /\ IsInjective(list) /\ id \in 1..Len(list) /\ 1..Len(list) = Id /\ \A o \in Id : list[o] = o
  BY IdList
<1>4. w[id] = LeftOn(orders[id], s) /\ v[id] = LeftOn(rec, s) /\ \A o \in Id : o # id => v[o] = w[o]
  OBVIOUS
<1>5. UnexecutedOf(orders, s) = Total(w, list) /\ UnexecutedOf(new, s) = Total(v, list)
  BY DEF UnexecutedOf
<1> HIDE DEF list, w, v
<1>6. AlikeBut(w, v, list, id)
  BY <1>3, <1>4 DEF AlikeBut
<1>7. list \in Seq(Id) /\ IsInjective(list) /\ id \in 1..Len(list)
  BY <1>3
<1>8. Total(v, list) = Total(w, list) - w[list[id]] + v[list[id]]
  BY <1>2, <1>6, <1>7, TotalOfChange
<1>9. QED
  BY <1>2, <1>3, <1>4, <1>5, <1>8, TotalType

\* Executed, with what the side has left by its name here.
LEMMA ExecutedIs ==
  ASSUME NEW s
  PROVE  /\ Executed(s) = asked[s] - UnexecutedOf(order, s)
         /\ Executed(s)' = asked'[s] - UnexecutedOf(order', s)
  BY DEF Executed, Unexecuted, UnexecutedOf, LeftOn

\* Orders nobody sent have nothing left.
LEMMA NothingSent ==
  ASSUME NEW s
  PROVE  UnexecutedOf([id \in Id |-> Unsent], s) = 0
<1> DEFINE list == [o \in Id |-> o]
           w == [o \in Id |-> LeftOn([id \in Id |-> Unsent][o], s)]
<1>1. \A o \in Id : w[o] = 0
  BY DEF LeftOn, Unsent
<1>2. w \in [Id -> Int]
  BY <1>1
<1>3. list \in Seq(Id) /\ \A k \in 1..Len(list) : list[k] \in Id
  BY IdList
<1>4. UnexecutedOf([id \in Id |-> Unsent], s) = Total(w, list)
  BY DEF UnexecutedOf
<1> HIDE DEF list, w
<1>5. QED
  BY <1>1, <1>2, <1>3, <1>4, TotalOfNothing

-----------------------------------------------------------------------------
(* What the book does.                                                     *)

\* The order that is met is one of the other side.
LEMMA BestFacts ==
  ASSUME ServiceTypeOK, NEW s \in Side, Positions(s) # {}
  PROVE  Best(s) \in Id /\ order[Best(s)].side = s
<1> DEFINE price(k) == order[resting[k]].price
           top == {k \in Positions(s) : \A j \in Positions(s) : ~Better(s, price(j), price(k))}
           P == {price(k) : k \in Positions(s)}
<1>1. \A k \in Positions(s) : k \in 1..Len(resting) /\ resting[k] \in Id /\ price(k) \in 0..MaxPrice
                              /\ order[resting[k]].side = s
  BY DEF ServiceTypeOK, Positions, OrderRecord
<1>2. MaxPrice \in Nat
  BY ServiceAssumption
<1>3. P \in SUBSET Nat /\ P # {} /\ \A m \in P : m \in 0..MaxPrice
  BY <1>1, <1>2
<1>4. \A m \in P : \E k \in Positions(s) : m = price(k)
  OBVIOUS
<1>5. \A k \in Positions(s) : price(k) \in P
  OBVIOUS
<1> HIDE DEF P
<1>6. top # {}
  <2>1. PICK m \in P : \A o \in P : ~Better(s, o, m)
    <3>1. CASE s = "ask"
      <4>1. PICK m \in P : \A o \in P : m <= o
        BY <1>3, LeastNatural
      <4>2. \A o \in P : ~(o < m)
        BY <1>3, <4>1
      <4>3. QED
        BY <3>1, <4>2 DEF Better
    <3>2. CASE s = "bid"
      <4> DEFINE D == {d \in Nat : MaxPrice - d \in P}
      <4>1. \A o \in P : MaxPrice - o \in D
        <5>1. \A o \in P : o \in 0..MaxPrice /\ MaxPrice - o \in Nat /\ MaxPrice - (MaxPrice - o) = o
          BY <1>2, <1>3
        <5>2. QED
          BY <5>1
      <4>2. PICK d \in D : \A e \in D : d <= e
        <5>1. D \in SUBSET Nat /\ D # {}
          BY <1>3, <4>1
        <5>2. QED
          BY <5>1, LeastNatural
      <4>3. PICK m \in P : m = MaxPrice - d
        BY <4>2
      <4>4. \A o \in P : ~(o > m)
        BY <1>2, <1>3, <4>1, <4>2, <4>3
      <4>5. QED
        BY <3>2, <4>4 DEF Better
    <3>3. QED
      BY <3>1, <3>2 DEF Side
  <2>2. PICK k \in Positions(s) : m = price(k)
    BY <1>4, <2>1
  <2>3. k \in top
    BY <1>5, <2>1, <2>2
  <2>4. QED
    BY <2>3
<1>7. top \in SUBSET Nat
  BY <1>1
<1>8. Best(s) = resting[Min(top)]
  BY DEF Best
<1>9. \A k \in top : k \in Positions(s)
  OBVIOUS
<1> HIDE DEF top
<1>10. PICK k \in top : \A j \in top : k <= j
  BY <1>6, <1>7, LeastNatural
<1>11. Min(top) \in top
  BY <1>10 DEF Min
<1>12. QED
  BY <1>1, <1>8, <1>9, <1>11

-----------------------------------------------------------------------------
(* Every step keeps the invariant.                                         *)

\* Ids are numbers, so there is a least one that nobody used.
LEMMA NextOrderFacts ==
  ASSUME NEW id \in Id, ~IsSent(id)
  PROVE  NextOrder \in Id /\ order[NextOrder] = Unsent
<1> DEFINE free == {o \in Id : order[o] = Unsent}
<1>1. free \in SUBSET Nat /\ free # {}
  BY ServiceAssumption DEF IsSent
<1>2. PICK m \in free : \A o \in free : m <= o
  BY <1>1, LeastNatural
<1>3. \A o \in Id : o < m => order[o] # Unsent
  <2>1. \A o \in Id : o \in Nat /\ m \in Nat
    BY <1>1, ServiceAssumption
  <2>2. QED
    BY <1>2, <2>1
<1>4. m \in Id /\ order[m] = Unsent
  OBVIOUS
<1> HIDE DEF free
<1>5. QED
  BY <1>3, <1>4 DEF NextOrder

\* What the book accepts is an order.
SendsOrder(r) ==
  /\ r.side \in Side /\ r.kind \in {"limit", "market"} /\ r.quantity \in Nat
  /\ r.kind = "limit" => r.price \in 0..MaxPrice

\* A call starts with no fills.
LEMMA NewCallFits ==
  ASSUME NEW kind \in {"limit", "market"}, NEW s \in Side, NEW id \in Id \union {NoOrder}, NEW limit \in Nat,
         NEW quantity \in Nat, NEW c, c = NewCall(kind, s, id, limit, quantity)
  PROVE  /\ c \in CallRecord /\ Quantity(c.fills) = 0 /\ c.quantity - c.remaining = 0 /\ AllOf(c.fills, c.side, c.taker)
         /\ c.kind = kind /\ c.side = s /\ c.taker = id /\ c.quantity = quantity
<1>1. <<>> \in Seq(Fill) /\ Len(<<>>) = 0
  BY EmptySeq
<1>2. [f \in Fill |-> f.quantity] \in [Fill -> Int]
  BY DEF Fill
<1>3. Quantity(<<>>) = 0
  BY <1>2, TotalOfEmpty DEF Quantity
<1>4. c \in CallRecord
  BY <1>1 DEF NewCall, CallRecord
<1>5. c.fills = <<>> /\ c.kind = kind /\ c.side = s /\ c.taker = id /\ c.quantity = quantity /\ c.remaining = quantity
  BY DEF NewCall
<1>6. AllOf(c.fills, c.side, c.taker)
  BY <1>1, <1>5 DEF AllOf
<1>7. QED
  BY <1>3, <1>4, <1>5, <1>6

\* The engine hands an order to the book.
LEMMA SubmitKeeps ==
  ASSUME ServiceInv, ~Running, NEW r, SendsOrder(r), SubmitOrder(r)
  PROVE  ServiceInv'
<1>1. ServiceTypeOK /\ Accounts /\ (\A s : UnderWay(s) = 0) /\ UNCHANGED <<position, fills>>
  BY DEF ServiceInv, UnderWay, SubmitOrder
<1>2. PICK c : c = call'
  OBVIOUS
<1>3. CASE r.kind = "market"
  <2>1. /\ c = NewCall("market", r.side, NoOrder, 0, r.quantity)
        /\ order' = order /\ resting' = resting /\ asked' = asked
    BY <1>2, <1>3 DEF SubmitOrder, MatchMarketOrder
  <2>2. /\ c \in CallRecord /\ Quantity(c.fills) = 0 /\ c.quantity - c.remaining = 0
        /\ AllOf(c.fills, c.side, c.taker) /\ c.kind = "market" /\ c.taker = NoOrder
    <3>1. "market" \in {"limit", "market"} /\ r.side \in Side /\ NoOrder \in Id \union {NoOrder} /\ 0 \in Nat
          /\ r.quantity \in Nat
      BY DEF SendsOrder
    <3>2. QED
      BY <2>1, <3>1, NewCallFits
  <2>3. ServiceTypeOK'
    BY <1>1, <1>2, <2>1, <2>2 DEF ServiceTypeOK
  <2>4. CallFits'
    BY <1>2, <2>2 DEF CallFits
  <2>5. \A s : Executed(s)' = Executed(s) /\ UnderWay(s)' = 0
    BY <1>2, <2>1, <2>2, ExecutedIs DEF UnderWay
  <2>6. Accounts'
    BY <1>1, <2>1, <2>5 DEF Accounts
  <2>7. QED
    BY <2>3, <2>4, <2>6 DEF ServiceInv
<1>4. CASE r.kind = "limit"
  <2>1. PICK id : id = NextOrder
    OBVIOUS
  <2>2. PICK rec : rec = [side |-> r.side, price |-> r.price, quantity |-> r.quantity, status |-> "open"]
    OBVIOUS
  <2>3. /\ \E o \in Id : ~IsSent(o)
        /\ c = NewCall("limit", r.side, id, r.price, r.quantity)
        /\ order' = [order EXCEPT ![id] = rec] /\ resting' = resting
        /\ asked' = [asked EXCEPT ![r.side] = @ + r.quantity]
    BY <1>2, <1>4, <2>1, <2>2 DEF SubmitOrder, AddOrder
  <2>4. id \in Id /\ order[id] = Unsent
    BY <2>1, <2>3, NextOrderFacts
  <2>5. rec \in OrderRecord /\ rec.side = r.side /\ rec.quantity = r.quantity /\ r.price \in Nat
    BY <1>4, <2>2, ServiceAssumption DEF SendsOrder, OrderRecord
  <2>6. /\ c \in CallRecord /\ Quantity(c.fills) = 0 /\ c.quantity - c.remaining = 0
        /\ AllOf(c.fills, c.side, c.taker)
        /\ c.kind = "limit" /\ c.taker = id /\ c.side = r.side /\ c.quantity = r.quantity
    BY <2>3, <2>4, <2>5, NewCallFits DEF SendsOrder
  <2>7. order \in [Id -> OrderRecord] /\ asked \in [Side -> Int]
    BY <1>1 DEF ServiceTypeOK
  <2>8. order' \in [Id -> OrderRecord] /\ order'[id] = rec /\ asked' \in [Side -> Int]
    BY <2>3, <2>4, <2>5, <2>7 DEF SendsOrder
  <2>9. ServiceTypeOK'
    BY <1>1, <1>2, <2>3, <2>6, <2>8 DEF ServiceTypeOK
  <2>10. CallFits'
    BY <1>2, <2>4, <2>5, <2>6, <2>8 DEF CallFits
  <2>11. ASSUME NEW s \in Side
         PROVE  Executed(s)' = Executed(s) /\ UnderWay(s)' = 0
    <3>1. PICK new : new = order'
      OBVIOUS
    <3>2. /\ UnexecutedOf(order, s) \in Int
          /\ UnexecutedOf(new, s) = UnexecutedOf(order, s) - LeftOn(order[id], s) + LeftOn(rec, s)
      BY <2>3, <2>4, <2>5, <2>7, <3>1, UnexecutedOfChange
    <3>3. LeftOn(order[id], s) = 0 /\ LeftOn(rec, s) = IF r.side = s THEN r.quantity ELSE 0
      BY <2>4, <2>5 DEF LeftOn, Unsent
    <3>4. asked'[s] = asked[s] + (IF r.side = s THEN r.quantity ELSE 0) /\ asked[s] \in Int /\ r.quantity \in Int
      BY <2>3, <2>7 DEF SendsOrder
    <3>5. Executed(s)' = Executed(s)
      BY <3>1, <3>2, <3>3, <3>4, ExecutedIs
    <3>6. UnderWay(s)' = 0
      BY <1>2, <2>6 DEF UnderWay
    <3>7. QED
      BY <3>5, <3>6
  <2>12. Accounts'
    BY <1>1, <2>11 DEF Accounts
  <2>13. QED
    BY <2>9, <2>10, <2>12 DEF ServiceInv
<1>5. QED
  BY <1>3, <1>4 DEF SendsOrder

\* The book meets an order.
LEMMA ConsumeKeeps ==
  ASSUME ServiceInv, Consume, UNCHANGED <<position, fills, asked>>
  PROVE  ServiceInv'
<1>1. ServiceTypeOK /\ CallFits /\ Accounts /\ call \in CallRecord
  BY DEF ServiceInv, ServiceTypeOK
<1> DEFINE opp == Opposite(call.side)
<1>2. call.side \in Side /\ opp \in Side /\ opp # call.side /\ \A s \in Side : s = opp \/ s = call.side
  BY <1>1 DEF CallRecord, Side, Opposite
<1>3. PICK maker : maker = Best(opp)
  OBVIOUS
<1>4. maker \in Id /\ order[maker].side = opp /\ order[maker] \in OrderRecord
  <2>1. Positions(opp) # {}
    BY DEF Consume, CanMatch
  <2>2. maker \in Id /\ order[maker].side = opp
    BY <1>1, <1>2, <1>3, <2>1, BestFacts
  <2>3. QED
    BY <1>1, <2>2 DEF ServiceTypeOK
<1>5. PICK traded : traded = Min({call.remaining, order[maker].quantity})
  OBVIOUS
<1>6. traded \in Nat /\ traded <= call.remaining /\ traded <= order[maker].quantity
  <2>1. call.remaining \in Nat /\ order[maker].quantity \in Nat
    BY <1>1, <1>4 DEF CallRecord, OrderRecord
  <2>2. PICK a, b : a = call.remaining /\ b = order[maker].quantity
    OBVIOUS
  <2>3. a \in Nat /\ b \in Nat /\ traded = Min({a, b})
    BY <1>5, <2>1, <2>2
  <2>4. Min({a, b}) \in {a, b} /\ Min({a, b}) <= a /\ Min({a, b}) <= b
    <3>1. a \in Int /\ b \in Int
      BY <2>3
    <3>2. QED
      BY <3>1, MinOfTwo
  <2>5. QED
    BY <2>2, <2>3, <2>4
<1>7. PICK left : left = order[maker].quantity - traded
  OBVIOUS
<1>8. PICK f : f = [order_id |-> call.taker, price |-> order[maker].price, quantity |-> traded, side |-> call.side]
  OBVIOUS
<1>9. PICK old : old = order[maker]
  OBVIOUS
<1>10. PICK rec : rec = [old EXCEPT !.quantity = left, !.status = IF left = 0 THEN "filled" ELSE "partial"]
  OBVIOUS
<1>11. PICK c : c = call'
  OBVIOUS
<1>12. /\ Running
       /\ order' = [order EXCEPT ![maker].quantity = left, ![maker].status = IF left = 0 THEN "filled" ELSE "partial"]
       /\ resting' = IF left = 0 THEN Others(resting, maker) ELSE resting
       /\ c = [call EXCEPT !.remaining = @ - traded, !.fills = Append(@, f)]
  BY <1>3, <1>5, <1>7, <1>8, <1>11 DEF Consume
<1>13. order' = [order EXCEPT ![maker] = rec]
  BY <1>9, <1>10, <1>12
<1>14. rec \in OrderRecord /\ rec.side = opp /\ rec.quantity = left /\ left \in Nat
  <2>1. left \in Nat
    BY <1>4, <1>6, <1>7 DEF OrderRecord
  <2>2. old \in OrderRecord /\ old.side = opp
    BY <1>4, <1>9
  <2>3. QED
    BY <1>10, <2>1, <2>2 DEF OrderRecord
<1>15. f \in Fill /\ f.side = call.side /\ f.order_id = call.taker /\ f.quantity = traded
  <2>1. order[maker].price \in Nat
    BY <1>4, ServiceAssumption DEF OrderRecord
  <2>2. call.taker \in Id \union {NoOrder}
    BY <1>1 DEF CallRecord
  <2>3. QED
    BY <1>2, <1>6, <1>8, <2>1, <2>2 DEF Fill
<1>16. PICK batch : batch = call.fills
  OBVIOUS
<1>17. batch \in Seq(Fill)
  BY <1>1, <1>16 DEF CallRecord
<1>18. /\ c \in CallRecord /\ c.kind = call.kind /\ c.side = call.side /\ c.taker = call.taker
       /\ c.quantity = call.quantity /\ c.remaining = call.remaining - traded /\ c.fills = Append(batch, f)
  <2>1. Append(batch, f) \in Seq(Fill)
    BY <1>15, <1>17
  <2>2. call.remaining - traded \in Nat
    BY <1>1, <1>6 DEF CallRecord
  <2>3. QED
    BY <1>1, <1>12, <1>16, <2>1, <2>2 DEF CallRecord
<1>19. Quantity(c.fills) = Quantity(batch) + traded /\ Quantity(batch) \in Int
  BY <1>15, <1>17, <1>18, QuantityFacts
<1>20. AllOf(c.fills, c.side, c.taker)
  <2>1. \A k \in 1..Len(batch) : batch[k].side = call.side /\ batch[k].order_id = call.taker
    BY <1>1, <1>16 DEF CallFits, AllOf
  <2>2. ASSUME NEW k \in 1..Len(Append(batch, f))
        PROVE  Append(batch, f)[k].side = call.side /\ Append(batch, f)[k].order_id = call.taker
    <3>1. k = Len(batch) + 1 \/ k \in 1..Len(batch)
      BY <1>17
    <3>2. IF k = Len(batch) + 1 THEN Append(batch, f)[k] = f ELSE Append(batch, f)[k] = batch[k]
      BY <1>15, <1>17, <3>1
    <3>3. QED
      BY <1>15, <2>1, <3>1, <3>2
  <2>3. QED
    BY <1>18, <2>2 DEF AllOf
<1>21. order \in [Id -> OrderRecord] /\ asked \in [Side -> Int] /\ resting \in Seq(Id)
  BY <1>1 DEF ServiceTypeOK
<1>22. order' \in [Id -> OrderRecord] /\ \A o \in Id : o # maker => order'[o] = order[o]
  BY <1>13, <1>14, <1>21
<1>23. resting' \in Seq(Id)
  <2>1. Others(resting, maker) \in Seq(Id)
    BY <1>4, <1>21, OthersType
  <2>2. QED
    BY <1>12, <1>21, <2>1
<1>24. ServiceTypeOK'
  BY <1>1, <1>11, <1>18, <1>22, <1>23 DEF ServiceTypeOK
<1>25. CallFits'
  <2>1. c.kind = "limit" => c.taker \in Id /\ order'[c.taker].side = c.side /\ order'[c.taker].quantity = c.quantity
    <3>1. SUFFICES ASSUME c.kind = "limit"
                   PROVE  c.taker \in Id /\ order'[c.taker].side = c.side /\ order'[c.taker].quantity = c.quantity
      OBVIOUS
    <3>2. call.taker \in Id /\ order[call.taker].side = call.side /\ order[call.taker].quantity = call.quantity
      BY <1>1, <1>18, <3>1 DEF CallFits
    <3>3. call.taker # maker
      BY <1>2, <1>4, <3>2
    <3>4. QED
      BY <1>18, <1>22, <3>2, <3>3
  <2>2. Quantity(c.fills) = c.quantity - c.remaining
    <3>1. Quantity(batch) = call.quantity - call.remaining
      BY <1>1, <1>16 DEF CallFits
    <3>2. call.quantity \in Int /\ call.remaining \in Int
      BY <1>1 DEF CallRecord
    <3>3. QED
      BY <1>6, <1>18, <1>19, <3>1, <3>2
  <2>3. c.kind = "market" => c.taker = NoOrder
    BY <1>1, <1>18 DEF CallFits
  <2>4. QED
    BY <1>11, <1>20, <2>1, <2>2, <2>3 DEF CallFits
<1> HIDE DEF opp
<1>26. ASSUME NEW s \in Side
       PROVE  Executed(s)' - UnderWay(s)' = Executed(s) - UnderWay(s) /\ Executed(s)' \in Int /\ UnderWay(s)' \in Int
              /\ Executed(s) \in Int /\ UnderWay(s) \in Int
  <2>1. PICK new : new = order'
    OBVIOUS
  <2>2. /\ UnexecutedOf(order, s) \in Int
        /\ UnexecutedOf(new, s) = UnexecutedOf(order, s) - LeftOn(order[maker], s) + LeftOn(rec, s)
    BY <1>4, <1>13, <1>14, <1>21, <2>1, UnexecutedOfChange
  <2>3. LeftOn(order[maker], s) = (IF s = opp THEN left + traded ELSE 0) /\ LeftOn(rec, s) = (IF s = opp THEN left ELSE 0)
    <3>1. order[maker].quantity = left + traded
      BY <1>4, <1>6, <1>7 DEF OrderRecord
    <3>2. QED
      BY <1>4, <1>14, <3>1 DEF LeftOn
  <2>4. UnexecutedOf(new, s) = UnexecutedOf(order, s) - (IF s = opp THEN traded ELSE 0)
    BY <1>6, <1>14, <2>2, <2>3
  <2>5. asked' = asked /\ asked[s] \in Int
    BY <1>21
  <2>6. Executed(s)' = Executed(s) + (IF s = opp THEN traded ELSE 0) /\ Executed(s) \in Int
    BY <1>6, <2>1, <2>2, <2>4, <2>5, ExecutedIs
  <2>7. UnderWay(s) = (IF s = opp THEN Quantity(batch) ELSE 0)
    BY <1>12, <1>16 DEF UnderWay, opp
  <2>8. UnderWay(s)' = (IF s = opp THEN Quantity(c.fills) ELSE 0)
    BY <1>11, <1>12, <1>18 DEF UnderWay, opp, Running
  <2>9. QED
    BY <1>6, <1>19, <2>6, <2>7, <2>8
<1>27. Accounts'
  <2>1. ASSUME NEW s \in Side
        PROVE  (Executed(s) + Taken(s, {NoOrder}, fills) = Quantity(fills) + UnderWay(s))'
    <3>1. Executed(s) + Taken(s, {NoOrder}, fills) = Quantity(fills) + UnderWay(s)
      BY <1>1 DEF Accounts
    <3>2. (Taken(s, {NoOrder}, fills))' = Taken(s, {NoOrder}, fills) /\ Quantity(fills)' = Quantity(fills)
      BY DEF Taken, Quantity
    <3>3. Taken(s, {NoOrder}, fills) \in Int /\ Quantity(fills) \in Int
      <4>1. PICK all : all = fills
        OBVIOUS
      <4>2. all \in Seq(Fill)
        BY <1>1, <4>1 DEF ServiceTypeOK
      <4>3. QED
        BY <1>15, <4>1, <4>2, TakenFacts, QuantityFacts
    <3>4. QED
      BY <1>26, <3>1, <3>2, <3>3
  <2>2. (position = Taken("bid", AllIds, fills) - Taken("ask", AllIds, fills))'
    BY <1>1 DEF Accounts, Taken
  <2>3. QED
    BY <2>1, <2>2 DEF Accounts
<1>28. QED
  BY <1>24, <1>25, <1>27 DEF ServiceInv

\* The totals of all fills so far and of one batch more.
LEMMA AccountsOfBatch ==
  ASSUME NEW all \in Seq(Fill), NEW batch \in Seq(Fill), NEW t \in Side, NEW id, NEW s \in Side, NEW ids
  PROVE  /\ Quantity(all) \in Int /\ Quantity(batch) \in Int /\ Taken(s, ids, all) \in Int
         /\ Quantity(all \o batch) = Quantity(all) + Quantity(batch)
         /\ AllOf(batch, t, id) => Taken(s, ids, all \o batch) =
                                     Taken(s, ids, all) + IF s = t /\ id \in ids THEN Quantity(batch) ELSE 0
<1>1. Quantity(all) \in Int /\ Quantity(batch) \in Int /\ Quantity(all \o batch) = Quantity(all) + Quantity(batch)
  <2> DEFINE w == [g \in Fill |-> g.quantity]
  <2>1. w \in [Fill -> Int]
    BY DEF Fill
  <2> HIDE DEF w
  <2>2. Total(w, all) \in Int /\ Total(w, batch) \in Int /\ Total(w, all \o batch) = Total(w, all) + Total(w, batch)
    BY <2>1, TotalType, TotalOfConcat
  <2>3. QED
    BY <2>2 DEF Quantity, w
<1>2. /\ Taken(s, ids, all) \in Int
      /\ Taken(s, ids, all \o batch) = Taken(s, ids, all) + Taken(s, ids, batch)
  BY TakenFacts
<1>3. AllOf(batch, t, id) => Taken(s, ids, batch) = IF s = t /\ id \in ids THEN Quantity(batch) ELSE 0
  BY TakenFacts
<1>4. QED
  BY <1>1, <1>2, <1>3

\* The book returns and the engine books what was filled.
LEMMA ReturnKeeps ==
  ASSUME ServiceInv, SubmitReturns
  PROVE  ServiceInv'
<1>1. ServiceTypeOK /\ CallFits /\ Accounts /\ call \in CallRecord /\ Running
  BY DEF ServiceInv, ServiceTypeOK, SubmitReturns, ReturnLimit, ReturnMarket, Running
<1>2. PICK batch : batch = call.fills
  OBVIOUS
<1>3. PICK all : all = fills
  OBVIOUS
<1>4. all \in Seq(Fill) /\ batch \in Seq(Fill) /\ AllOf(batch, call.side, call.taker) /\ call.side \in Side
  BY <1>1, <1>2, <1>3 DEF ServiceTypeOK, CallRecord, CallFits
<1>5. /\ call' = IdleCall /\ asked' = asked /\ fills' = all \o batch
      /\ position' = IF call.side = "bid" THEN position + Quantity(batch) ELSE position - Quantity(batch)
  BY <1>2, <1>3 DEF SubmitReturns, AccountFor, ReturnLimit, ReturnMarket
<1>6. IdleCall \in CallRecord /\ Quantity(IdleCall.fills) = 0 /\ AllOf(IdleCall.fills, IdleCall.side, IdleCall.taker)
      /\ IdleCall.kind = "idle" /\ IdleCall.quantity - IdleCall.remaining = 0
  <2>1. <<>> \in Seq(Fill) /\ Len(<<>>) = 0
    BY EmptySeq
  <2>2. [f \in Fill |-> f.quantity] \in [Fill -> Int]
    BY DEF Fill
  <2>3. Quantity(<<>>) = 0
    BY <2>2, TotalOfEmpty DEF Quantity
  <2>4. QED
    BY <2>1, <2>3 DEF IdleCall, CallRecord, Side, AllOf
<1>7. call.taker \in AllIds /\ (call.taker = NoOrder <=> call.kind = "market") /\ call.kind \in {"limit", "market"}
  BY <1>1, ServiceAssumption DEF CallRecord, CallFits, AllIds, Running
<1>8. ASSUME NEW s \in Side, NEW ids
      PROVE  /\ Quantity(all) \in Int /\ Quantity(batch) \in Int /\ Taken(s, ids, all) \in Int
             /\ Quantity(fills') = Quantity(all) + Quantity(batch)
             /\ Taken(s, ids, fills') =
                  Taken(s, ids, all) + IF s = call.side /\ call.taker \in ids THEN Quantity(batch) ELSE 0
  <2>1. PICK t, id : t = call.side /\ id = call.taker
    OBVIOUS
  <2>2. t \in Side /\ AllOf(batch, t, id)
    BY <1>4, <2>1
  <2>3. /\ Quantity(all) \in Int /\ Quantity(batch) \in Int /\ Taken(s, ids, all) \in Int
        /\ Quantity(all \o batch) = Quantity(all) + Quantity(batch)
        /\ Taken(s, ids, all \o batch) = Taken(s, ids, all) + IF s = t /\ id \in ids THEN Quantity(batch) ELSE 0
    <3>1. all \in Seq(Fill) /\ batch \in Seq(Fill)
      BY <1>4
    <3>2. /\ Quantity(all) \in Int /\ Quantity(batch) \in Int /\ Taken(s, ids, all) \in Int
          /\ Quantity(all \o batch) = Quantity(all) + Quantity(batch)
      BY <2>2, <3>1, AccountsOfBatch
    <3>3. Taken(s, ids, all \o batch) = Taken(s, ids, all) + IF s = t /\ id \in ids THEN Quantity(batch) ELSE 0
      <4>1. \A i, x : AllOf(batch, t, i) => Taken(s, x, all \o batch) =
                                             Taken(s, x, all) + IF s = t /\ i \in x THEN Quantity(batch) ELSE 0
        BY <2>2, <3>1, AccountsOfBatch
      <4>2. QED
        BY <2>2, <4>1
    <3>4. QED
      BY <3>2, <3>3
  <2>4. QED
    BY <1>5, <2>1, <2>3
<1>9. order \in [Id -> OrderRecord] /\ resting \in Seq(Id) /\ asked \in [Side -> Int] /\ position \in Int
  BY <1>1 DEF ServiceTypeOK
<1>10. \/ call.kind = "market" /\ UNCHANGED <<order, resting>>
       \/ /\ call.kind = "limit" /\ call.taker \in Id
          /\ order' \in [Id -> OrderRecord] /\ resting' \in Seq(Id)
          /\ \E rec \in OrderRecord : order' = [order EXCEPT ![call.taker] = rec] /\ rec.side = call.side
                                      /\ rec.quantity = call.remaining
  <2>1. CASE ReturnMarket
    BY <2>1 DEF ReturnMarket
  <2>2. CASE ReturnLimit
    <3>1. call.kind = "limit" /\ call.taker \in Id /\ order[call.taker].side = call.side /\ order[call.taker] \in OrderRecord
      BY <1>1, <1>9, <2>2 DEF ReturnLimit, CallFits
    <3>2. PICK status : status = IF call.remaining = 0 THEN "filled"
                                 ELSE IF call.remaining < call.quantity THEN "partial" ELSE "open"
      OBVIOUS
    <3>3. PICK old : old = order[call.taker]
      OBVIOUS
    <3>4. PICK rec : rec = [old EXCEPT !.quantity = call.remaining, !.status = status]
      OBVIOUS
    <3>5. order' = [order EXCEPT ![call.taker] = rec]
          /\ resting' = IF call.remaining = 0 THEN resting ELSE Append(resting, call.taker)
      BY <2>2, <3>2, <3>3, <3>4 DEF ReturnLimit
    <3>6. rec \in OrderRecord /\ rec.side = call.side /\ rec.quantity = call.remaining
      <4>1. call.remaining \in Nat /\ status \in {"none", "open", "partial", "filled"}
        BY <1>1, <3>2 DEF CallRecord
      <4>2. QED
        BY <3>1, <3>3, <3>4, <4>1 DEF OrderRecord
    <3>7. order' \in [Id -> OrderRecord] /\ resting' \in Seq(Id)
      BY <1>9, <3>1, <3>5, <3>6
    <3>8. QED
      BY <3>1, <3>5, <3>6, <3>7
  <2>3. QED
    BY <2>1, <2>2 DEF SubmitReturns
<1>11. fills' \in Seq(Fill) /\ position' \in Int
  <2>1. all \o batch \in Seq(Fill)
    BY <1>4
  <2>2. Quantity(batch) \in Int
    BY <1>4, <1>8
  <2>3. QED
    BY <1>5, <1>9, <2>1, <2>2
<1>12. ServiceTypeOK'
  BY <1>5, <1>6, <1>9, <1>10, <1>11 DEF ServiceTypeOK
<1>13. CallFits'
  BY <1>5, <1>6 DEF CallFits
<1>14. ASSUME NEW s \in Side
       PROVE  (Executed(s) + Taken(s, {NoOrder}, fills) = Quantity(fills) + UnderWay(s))'
  <2>1. Executed(s) + Taken(s, {NoOrder}, all) = Quantity(all) + (IF s = call.side THEN 0 ELSE Quantity(batch))
    <3>1. UnderWay(s) = IF s = call.side THEN 0 ELSE Quantity(batch)
      BY <1>1, <1>2, <1>4 DEF UnderWay, Opposite, Side
    <3>2. QED
      BY <1>1, <1>3, <3>1 DEF Accounts
  <2>2. Executed(s)' = Executed(s) + (IF s = call.side /\ call.kind = "limit" THEN Quantity(batch) ELSE 0)
        /\ Executed(s) \in Int
    <3>1. UnexecutedOf(order, s) \in Int /\ asked[s] \in Int
      BY <1>9, UnexecutedType
    <3>2. CASE call.kind = "market"
      <4>1. order' = order
        BY <1>10, <3>2
      <4>2. QED
        BY <1>5, <3>1, <3>2, <4>1, ExecutedIs
    <3>3. CASE call.kind = "limit"
      <4>1. PICK rec \in OrderRecord : order' = [order EXCEPT ![call.taker] = rec] /\ rec.side = call.side
                                       /\ rec.quantity = call.remaining
        BY <1>10, <3>3
      <4>2. PICK new : new = order'
        OBVIOUS
      <4>3. call.taker \in Id /\ order[call.taker].side = call.side /\ order[call.taker].quantity = call.quantity
            /\ Quantity(batch) = call.quantity - call.remaining
        BY <1>1, <1>2, <3>3 DEF CallFits
      <4>4. UnexecutedOf(new, s) = UnexecutedOf(order, s) - LeftOn(order[call.taker], s) + LeftOn(rec, s)
        BY <1>9, <4>1, <4>2, <4>3, UnexecutedOfChange
      <4>5. LeftOn(order[call.taker], s) = (IF s = call.side THEN call.quantity ELSE 0)
            /\ LeftOn(rec, s) = (IF s = call.side THEN call.remaining ELSE 0)
        BY <4>1, <4>3 DEF LeftOn
      <4>6. call.quantity \in Int /\ call.remaining \in Int
        BY <1>1 DEF CallRecord
      <4>7. QED
        BY <1>5, <3>1, <3>3, <4>2, <4>3, <4>4, <4>5, <4>6, ExecutedIs
    <3>4. QED
      BY <1>7, <3>2, <3>3
  <2>3. /\ Quantity(all) \in Int /\ Quantity(batch) \in Int /\ Taken(s, {NoOrder}, all) \in Int
        /\ Quantity(fills') = Quantity(all) + Quantity(batch)
        /\ Taken(s, {NoOrder}, fills') =
             Taken(s, {NoOrder}, all) + IF s = call.side /\ call.kind = "market" THEN Quantity(batch) ELSE 0
    BY <1>7, <1>8
  <2>4. UnderWay(s)' = 0
    BY <1>5, <1>6 DEF UnderWay, Running
  <2>5. Executed(s)' + Taken(s, {NoOrder}, fills') = Quantity(fills')
    BY <1>7, <2>1, <2>2, <2>3
  <2>6. Taken(s, {NoOrder}, fills)' = Taken(s, {NoOrder}, fills') /\ Quantity(fills)' = Quantity(fills')
    BY DEF Taken, Quantity
  <2>7. QED
    BY <2>3, <2>4, <2>5, <2>6
<1>15. (position = Taken("bid", AllIds, fills) - Taken("ask", AllIds, fills))'
  <2>1. position = Taken("bid", AllIds, all) - Taken("ask", AllIds, all)
    BY <1>1, <1>3 DEF Accounts
  <2>2. "bid" \in Side /\ "ask" \in Side /\ call.side \in {"bid", "ask"}
    BY <1>4 DEF Side
  <2>3. /\ Taken("bid", AllIds, fills') = Taken("bid", AllIds, all) + IF call.side = "bid" THEN Quantity(batch) ELSE 0
        /\ Taken("ask", AllIds, fills') = Taken("ask", AllIds, all) + IF call.side = "ask" THEN Quantity(batch) ELSE 0
        /\ Taken("bid", AllIds, all) \in Int /\ Taken("ask", AllIds, all) \in Int /\ Quantity(batch) \in Int
    BY <1>7, <1>8, <2>2
  <2>4. position' = Taken("bid", AllIds, fills') - Taken("ask", AllIds, fills')
    BY <1>5, <2>1, <2>2, <2>3
  <2>5. QED
    BY <2>4 DEF Taken, AllIds
<1>16. QED
  BY <1>12, <1>13, <1>14, <1>15 DEF ServiceInv, Accounts

\* The facts of the next step are those of this one.
LEMMA NothingChanges ==
  ASSUME ServiceInv, UNCHANGED <<order, resting, call, position, fills, asked>>
  PROVE  ServiceInv'
<1>1. ServiceTypeOK /\ CallFits /\ Accounts
  BY DEF ServiceInv
<1>2. ServiceTypeOK'
  BY <1>1 DEF ServiceTypeOK
<1>3. CallFits'
  BY <1>1 DEF CallFits
<1>4. \A s : Executed(s)' = Executed(s) /\ UnderWay(s)' = UnderWay(s)
  BY ExecutedIs DEF UnderWay, Running
<1>5. \A s, ids : Taken(s, ids, fills)' = Taken(s, ids, fills) /\ Quantity(fills)' = Quantity(fills)
  BY DEF Taken, Quantity
<1>6. Accounts'
  BY <1>1, <1>4, <1>5 DEF Accounts
<1>7. QED
  BY <1>2, <1>3, <1>6 DEF ServiceInv

\* An engine nobody asked for anything has booked nothing.
LEMMA NewEngine ==
  ASSUME NEW c, c = IdleCall
  PROVE  /\ [id \in Id |-> Unsent] \in [Id -> OrderRecord] /\ <<>> \in Seq(Id) /\ <<>> \in Seq(Fill)
         /\ [s \in Side |-> 0] \in [Side -> Int]
         /\ c \in CallRecord /\ c.kind = "idle" /\ c.quantity - c.remaining = 0 /\ Quantity(c.fills) = 0
         /\ AllOf(c.fills, c.side, c.taker)
         /\ Quantity(<<>>) = 0 /\ \A s \in Side : \A ids : Taken(s, ids, <<>>) = 0
<1>1. <<>> \in Seq(Fill) /\ Len(<<>>) = 0 /\ <<>> \in Seq(Id)
  BY EmptySeq
<1>2. Quantity(<<>>) = 0
  <2>1. [f \in Fill |-> f.quantity] \in [Fill -> Int]
    BY DEF Fill
  <2>2. QED
    BY <2>1, TotalOfEmpty DEF Quantity
<1>3. \A s \in Side : \A ids : Taken(s, ids, <<>>) = 0
  BY <1>1, TakenFacts
<1>4. Unsent \in OrderRecord
  BY ServiceAssumption DEF Unsent, OrderRecord, Side
<1>5. c \in CallRecord /\ c.fills = <<>> /\ c.kind = "idle" /\ c.quantity = 0 /\ c.remaining = 0
  BY <1>1 DEF IdleCall, CallRecord, Side
<1>6. AllOf(c.fills, c.side, c.taker)
  BY <1>1, <1>5 DEF AllOf
<1>7. QED
  BY <1>1, <1>2, <1>3, <1>4, <1>5, <1>6

\* It starts with the accounts in order.
LEMMA ServiceInitInv ==
  ASSUME ServiceInit
  PROVE  ServiceInv
<1>1. /\ order = [id \in Id |-> Unsent] /\ resting = <<>> /\ call = IdleCall
      /\ position = 0 /\ fills = <<>> /\ asked = [s \in Side |-> 0]
  BY DEF ServiceInit, Init
<1>2. ServiceTypeOK
  BY <1>1, NewEngine DEF ServiceTypeOK
<1>3. CallFits
  BY <1>1, NewEngine DEF CallFits
<1>4. \A s \in Side : Executed(s) = 0 /\ UnderWay(s) = 0
  BY <1>1, NothingSent, ExecutedIs, NewEngine DEF UnderWay, Running
<1>5. Quantity(fills) = 0 /\ \A s \in Side : \A ids : Taken(s, ids, fills) = 0
  BY <1>1, NewEngine
<1>6. Accounts
  BY <1>1, <1>4, <1>5 DEF Accounts, Side
<1>7. QED
  BY <1>2, <1>3, <1>6 DEF ServiceInv

\* A reset is a start.
LEMMA ResetKeeps ==
  ASSUME ServiceInv, Reset
  PROVE  ServiceInv'
<1>1. ServiceTypeOK /\ CallFits /\ call \in CallRecord /\ ~Running
  BY DEF ServiceInv, ServiceTypeOK, Reset
<1>2. /\ order' = [id \in Id |-> Unsent] /\ resting' = <<>> /\ call' = call
      /\ position' = 0 /\ fills' = <<>> /\ asked' = [s \in Side |-> 0]
  BY DEF Reset
<1>3. ServiceTypeOK'
  BY <1>1, <1>2, NewEngine DEF ServiceTypeOK
<1>4. CallFits'
  BY <1>1, <1>2 DEF CallFits, Running
<1>5. \A s \in Side : Executed(s)' = 0 /\ UnderWay(s)' = 0
  <2>1. PICK new : new = order'
    OBVIOUS
  <2>2. \A s \in Side : UnexecutedOf(new, s) = 0 /\ asked'[s] = 0
    BY <1>2, <2>1, NothingSent
  <2>3. QED
    BY <1>1, <1>2, <2>1, <2>2, ExecutedIs DEF UnderWay, Running
<1>6. Quantity(fills') = 0 /\ \A s \in Side : \A ids : Taken(s, ids, fills') = 0
  BY <1>2, NewEngine
<1>7. /\ Quantity(fills)' = Quantity(fills')
      /\ \A s, ids : Taken(s, ids, fills)' = Taken(s, ids, fills')
  BY DEF Taken, Quantity
<1>8. Accounts'
  BY <1>2, <1>5, <1>6, <1>7 DEF Accounts, Side, AllIds
<1>9. QED
  BY <1>3, <1>4, <1>8 DEF ServiceInv

\* What is posted and accepted is an order.
LEMMA PostOrderKeeps ==
  ASSUME ServiceInv, NEW r \in OrderRequest, PostOrder(r)
  PROVE  ServiceInv'
<1>1. CASE Readable(r) /\ Accepted(r)
  <2>1. r.quantity \in 0..MaxQuantity /\ r.side \in Side /\ r.kind \in {"limit", "market"}
        /\ (r.kind = "limit" => r.price \in 0..MaxPrice)
    BY <1>1 DEF OrderRequest, Readable, Accepted
  <2>2. SendsOrder(r)
    BY <2>1, ServiceAssumption DEF SendsOrder
  <2>3. QED
    BY <1>1, <2>2, SubmitKeeps DEF PostOrder
<1>2. CASE ~(Readable(r) /\ Accepted(r))
  BY <1>2, NothingChanges DEF PostOrder, Refuse
<1>3. QED
  BY <1>1, <1>2

\* So is what is entered, parsed and accepted.
LEMMA EnterLineKeeps ==
  ASSUME ServiceInv, NEW r \in Line, EnterLine(r)
  PROVE  ServiceInv'
<1>1. CASE ~ParseError(r) /\ Word \notin {r.price, r.quantity} /\ Accepted(r)
  <2>1. r.quantity \in 0..MaxQuantity /\ r.side \in Side /\ r.kind \in {"limit", "market"}
        /\ (r.kind = "limit" => r.price \in 0..MaxPrice)
    BY <1>1 DEF Line, OrderRequest, ParseError, Accepted
  <2>2. SendsOrder(r)
    BY <2>1, ServiceAssumption DEF SendsOrder
  <2>3. QED
    BY <1>1, <2>2, SubmitKeeps DEF EnterLine
<1>2. CASE ~(~ParseError(r) /\ Word \notin {r.price, r.quantity} /\ Accepted(r))
  <2>1. UNCHANGED <<order, resting, call, position, fills, asked>>
    BY <1>2 DEF EnterLine, Refuse
  <2>2. QED
    BY <2>1, NothingChanges
<1>3. QED
  BY <1>1, <1>2

\* Every step of the service keeps the accounts.
LEMMA ServiceStep ==
  ASSUME ServiceInv, [ServiceNext]_serviceVars
  PROVE  ServiceInv'
<1>1. CASE \E r \in OrderRequest : PostOrder(r)
  BY <1>1, PostOrderKeeps
<1>2. CASE \E r \in Line : EnterLine(r)
  BY <1>2, EnterLineKeeps
<1>3. CASE Reset
  BY <1>3, ResetKeeps
<1>4. CASE Quit
  BY <1>4, NothingChanges DEF Quit
<1>5. CASE Consume /\ UNCHANGED <<session, cash, position, fills, answer, asked, sold>>
  BY <1>5, ConsumeKeeps
<1>6. CASE SubmitReturns
  BY <1>6, ReturnKeeps
<1>7. CASE UNCHANGED serviceVars
  BY <1>7, NothingChanges DEF serviceVars
<1>8. QED
  BY <1>1, <1>2, <1>3, <1>4, <1>5, <1>6, <1>7 DEF ServiceNext

\* Between requests no fill is under way.
LEMMA ServiceInvBooked ==
  ASSUME ServiceInv
  PROVE  BookedOnce
<1>1. SUFFICES ASSUME ~Running PROVE BookedOnce
  BY DEF BookedOnce
<1>2. Accounts /\ \A s : UnderWay(s) = 0
  BY <1>1 DEF ServiceInv, UnderWay
<1>3. ServiceTypeOK
  BY DEF ServiceInv
<1>4. Quantity(fills) \in Int
  <2>1. PICK all : all = fills
    OBVIOUS
  <2>2. all \in Seq(Fill) /\ [f \in Fill |-> f.quantity] \in [Fill -> Int]
    BY <1>3, <2>1 DEF ServiceTypeOK, Fill
  <2>3. QED
    BY <2>1, <2>2, TotalType DEF Quantity
<1>5. QED
  BY <1>2, <1>4 DEF Accounts, BookedOnce, AllIds

\* The engine books the fills of the order that comes in and never those of the orders
\* it meets; between requests every trade is booked exactly once all the same
\* (_account_for and submit_order).
THEOREM EverythingBookedOnce == ServiceSpec => []BookedOnce
<1>1. ServiceInit => ServiceInv
  BY ServiceInitInv
<1>2. ServiceInv /\ [ServiceNext]_serviceVars => ServiceInv'
  BY ServiceStep
<1>3. ServiceInv => BookedOnce
  BY ServiceInvBooked
<1>4. QED
  BY <1>1, <1>2, <1>3, PTL DEF ServiceSpec

=============================================================================
