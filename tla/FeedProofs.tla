----------------------------- MODULE FeedProofs -----------------------------
(***************************************************************************)
(* Proofs about Feed, for every set of prices and quantities and every     *)
(* bound on frames, requests and losses.                                   *)
(***************************************************************************)
EXTENDS Feed, SequenceTheorems, TLAPS

\* The mirror before any snapshot is a book.
LEMMA EmptyBookType == EmptyBook \in Book
  BY GateAssumption DEF EmptyBook, Book

\* What is in an event.
LEMMA EventType ==
  ASSUME NEW event \in Event
  PROVE  /\ event.type \in {"snapshot", "update"}
         /\ \A l \in DOMAIN event.updates : event.updates[l] \in Quantity
         /\ event.type = "snapshot" => event.updates \in Book
  <1>1. CASE event \in {Snapshot(full) : full \in Book}
    <2>1. PICK full \in Book : event = Snapshot(full)
      BY <1>1
    <2>2. QED BY <2>1 DEF Snapshot, Book
  <1>2. CASE event \in {Update(level, quantity) : level \in Level, quantity \in Quantity}
    <2>1. PICK level \in Level, quantity \in Quantity : event = Update(level, quantity)
      BY <1>2
    <2>2. QED BY <2>1 DEF Update
  <1>3. QED BY <1>1, <1>2 DEF Event

\* An event makes a book of a book.
LEMMA BookAfterType ==
  ASSUME NEW b \in Book, NEW event \in Event
  PROVE  BookAfter(b, event) \in Book
  BY EventType, GateAssumption DEF BookAfter, Book

\* A full snapshot replaces the book.
LEMMA SnapshotBook ==
  ASSUME NEW b, NEW event \in Event, event.type = "snapshot"
  PROVE  BookAfter(b, event) = event.updates
  BY EventType DEF BookAfter, Book

\* An update sets one level.
LEMMA UpdateBook ==
  ASSUME NEW b \in Book, NEW level \in Level, NEW quantity \in Quantity
  PROVE  /\ Update(level, quantity) \in Event
         /\ BookAfter(b, Update(level, quantity)) = [b EXCEPT ![level] = quantity]
         /\ Update(level, quantity).type = "update"
  <1>1. Update(level, quantity) \in Event
    BY DEF Event
  <1>2. Update(level, quantity).type = "update"
    BY DEF Update
  <1>3. BookAfter(b, Update(level, quantity)) = [b EXCEPT ![level] = quantity]
    BY DEF BookAfter, Book, Update
  <1>4. QED BY <1>1, <1>2, <1>3

\* A snapshot carries the book it was made of.
LEMMA SnapshotEvent ==
  ASSUME NEW b \in Book
  PROVE  Snapshot(b) \in Event /\ Snapshot(b).type = "snapshot" /\ Snapshot(b).updates = b
  BY DEF Snapshot, Event

\* Only the empty sequence has no elements.
LEMMA LengthZero ==
  ASSUME NEW S, NEW t \in Seq(S)
  PROVE  t = <<>> <=> Len(t) = 0
  BY EmptySeq

\* What is left of a queue when its head is taken.
LEMMA TailFacts ==
  ASSUME NEW S, NEW s \in Seq(S), s # <<>>
  PROVE  /\ Len(s) \in Nat /\ Len(s) >= 1 /\ DOMAIN s = 1..Len(s)
         /\ Head(s) = s[1]
         /\ Tail(s) \in Seq(S) /\ Len(Tail(s)) = Len(s) - 1
         /\ DOMAIN Tail(s) = 1..Len(s) - 1
         /\ Tail(s) = <<>> <=> Len(s) = 1
         /\ \A i \in 1..Len(s) - 1 : Tail(s)[i] = s[i + 1]
  <1>1. Tail(s) \in Seq(S) /\ Len(Tail(s)) = Len(s) - 1 /\ Len(s) \in Nat /\ Len(s) >= 1
    BY HeadTailProperties, LenProperties, EmptySeq
  <1>2. Tail(s) = <<>> <=> Len(s) = 1
    <2> DEFINE t == Tail(s)
    <2>1. t \in Seq(S) /\ Len(t) = Len(s) - 1 /\ Len(s) \in Nat
      BY <1>1
    <2> HIDE DEF t
    <2>2. t = <<>> <=> Len(t) = 0
      BY <2>1, LengthZero
    <2>3. t = <<>> <=> Len(s) = 1
      BY <2>1, <2>2
    <2>4. QED BY <2>3 DEF t
  <1>3. DOMAIN s = 1..Len(s) /\ DOMAIN Tail(s) = 1..Len(s) - 1 /\ Head(s) = s[1]
    BY <1>1, LenProperties, HeadTailProperties
  <1>4. \A i \in 1..Len(s) - 1 : Tail(s)[i] = s[i + 1]
    BY <1>1
  <1>5. QED BY <1>1, <1>2, <1>3, <1>4

-----------------------------------------------------------------------------
(* Type correctness.                                                       *)

\* What is sent is a frame.
LEMMA FrameType ==
  ASSUME NEW gap \in BOOLEAN, NEW b \in Book,
         NEW events \in {{}} \union {{event} : event \in Event}
  PROVE  [gap |-> gap, events |-> events, book |-> b] \in Frame
  <1> DEFINE Events == {{}} \union {{event} : event \in Event}
  <1>1. \A e \in Events : [gap |-> gap, events |-> e, book |-> b] \in [gap : BOOLEAN, events : Events, book : Book]
    <2> HIDE DEF Events
    <2>1. QED OBVIOUS
  <1>2. QED BY <1>1 DEF Frame

\* A frame sent, or dropped, leaves the wire one of frames.
LEMMA SendTypes ==
  ASSUME TypeOK, NEW newBook \in Book, NEW events,
         events = {} \/ \E event \in Event : events = {event},
         Send(events, newBook)
  PROVE  wire' \in Seq(Frame) /\ dropped' \in BOOLEAN /\ losses' \in 0..MaxLosses
  <1>1. [gap |-> dropped, events |-> events, book |-> newBook] \in Frame
    <2>1. events \in {{}} \union {{event} : event \in Event}
      <3>1. CASE events = {}
        BY <3>1
      <3>2. CASE \E event \in Event : events = {event}
        <4>1. PICK event \in Event : events = {event}
          BY <3>2
        <4>2. {event} \in {{e} : e \in Event}
          OBVIOUS
        <4>3. QED BY <4>1, <4>2
      <3>3. QED BY <3>1, <3>2
    <2>2. dropped \in BOOLEAN
      BY DEF TypeOK
    <2>3. QED BY <2>1, <2>2, FrameType, Zenon
  <1>2. wire' \in Seq(Frame)
    <2> DEFINE frame == [gap |-> dropped, events |-> events, book |-> newBook]
    <2>1. frame \in Frame /\ wire \in Seq(Frame)
      BY <1>1 DEF TypeOK
    <2>2. wire' = wire \/ wire' = Append(wire, frame)
      BY DEF Send
    <2> HIDE DEF frame
    <2>3. QED BY <2>1, <2>2
  <1>3. dropped' \in BOOLEAN
    BY Zenon DEF Send
  <1>4. losses' \in 0..MaxLosses
    <2>1. losses' = losses \/ (losses < MaxLosses /\ losses' = losses + 1)
      BY DEF Send
    <2>2. losses \in 0..MaxLosses
      BY DEF TypeOK
    <2>3. QED BY <2>1, <2>2, FeedAssumption
  <1>5. QED BY <1>2, <1>3, <1>4

\* Sleeping before the next attempt keeps the backoff in its range.
LEMMA RetryTypes ==
  ASSUME TypeOK, SleepBeforeRetry
  PROVE  conn' \in {"connecting", "up", "sleeping"} /\ backoff' \in 2..30
  BY DEF TypeOK, SleepBeforeRetry

\* A connection that ends leaves no frames and no requests.
LEMMA HangupTypes ==
  ASSUME TypeOK, Hangup
  PROVE  /\ wire' \in Seq(Frame) /\ requests' \in Seq({"subscribe", "unsubscribe"})
         /\ subscribed' \in BOOLEAN /\ dropped' \in BOOLEAN /\ silent' \in BOOLEAN
         /\ market' \in Book /\ losses' \in 0..MaxLosses
  BY EmptySeq DEF TypeOK, Hangup

\* Every step keeps the types.
LEMMA TypeStep == TypeOK /\ [Next]_vars => TypeOK'
  <1> SUFFICES ASSUME TypeOK, [Next]_vars PROVE TypeOK'
    OBVIOUS
  <1>1. CASE MarketMoves
    <2>1. PICK level \in Level, quantity \in Quantity :
            /\ market' = [market EXCEPT ![level] = quantity]
            /\ IF conn = "up" /\ subscribed
               THEN Len(wire) < MaxWire /\ Send({Update(level, quantity)}, market')
               ELSE UNCHANGED <<wire, dropped, losses>>
      BY <1>1 DEF MarketMoves
    <2>2. market' \in Book
      BY <2>1 DEF TypeOK, Book
    <2>3. wire' \in Seq(Frame) /\ dropped' \in BOOLEAN /\ losses' \in 0..MaxLosses
      <3>1. CASE conn = "up" /\ subscribed
        BY <3>1, <2>1, <2>2, SendTypes, UpdateBook DEF TypeOK
      <3>2. CASE ~(conn = "up" /\ subscribed)
        BY <3>2, <2>1 DEF TypeOK
      <3>3. QED BY <3>1, <3>2
    <2>4. QED BY <1>1, <2>2, <2>3 DEF MarketMoves, TypeOK, client
  <1>2. CASE OtherFrame
    <2>1. wire' \in Seq(Frame) /\ dropped' \in BOOLEAN /\ losses' \in 0..MaxLosses
      BY <1>2, SendTypes DEF OtherFrame, TypeOK
    <2>2. QED BY <1>2, <2>1 DEF OtherFrame, TypeOK, client
  <1>3. CASE ServeRequest
    <2>1. wire' \in Seq(Frame) /\ dropped' \in BOOLEAN /\ losses' \in 0..MaxLosses
      <3>1. CASE Head(requests) = "subscribe"
        BY <3>1, <1>3, SendTypes, SnapshotEvent DEF ServeRequest, TypeOK
      <3>2. CASE Head(requests) # "subscribe"
        BY <3>2, <1>3 DEF ServeRequest, TypeOK
      <3>3. QED BY <3>1, <3>2
    <2>2. requests' \in Seq({"subscribe", "unsubscribe"}) /\ subscribed' \in BOOLEAN
      BY <1>3 DEF ServeRequest, TypeOK
    <2>3. QED BY <1>3, <2>1, <2>2 DEF ServeRequest, TypeOK, client
  <1>4. CASE GoSilent
    BY <1>4 DEF GoSilent, TypeOK, client
  <1>5. CASE Connect
    <2>1. requests' \in Seq({"subscribe", "unsubscribe"})
      BY <1>5 DEF Connect, TypeOK
    <2>2. tracking' \in BOOLEAN /\ ready' \in BOOLEAN
      BY <1>5 DEF Connect, OnConnect
    <2>3. conn' = "up" /\ backoff' \in 2..30
      BY <1>5 DEF Connect
    <2>4. UNCHANGED <<market, subscribed, dropped, wire, silent, losses, book, heard, asOf>>
      BY <1>5 DEF Connect
    <2>5. QED BY <2>1, <2>2, <2>3, <2>4 DEF TypeOK
  <1>6. CASE ConnectFails
    BY <1>6, RetryTypes DEF ConnectFails, OnConnect, TypeOK, exchange
  <1>7. CASE Wake
    BY <1>7 DEF Wake, TypeOK, exchange
  <1>8. CASE Disconnect
    BY <1>8, RetryTypes, HangupTypes DEF Disconnect, TypeOK
  <1>9. CASE Receive
    <2>1. Head(wire) \in Frame /\ wire' \in Seq(Frame)
      BY <1>9, HeadTailProperties DEF Receive, TypeOK
    <2>2. book' \in Book /\ ready' \in BOOLEAN /\ asOf' \in Book
      <3>1. asOf' = Head(wire).book
        BY <1>9 DEF Receive, Handle
      <3>2. \A event \in Head(wire).events : event \in Event
        BY <2>1 DEF Frame
      <3>3. CASE UNCHANGED <<book, ready>>
        BY <2>1, <3>1, <3>3 DEF TypeOK, Frame
      <3>4. CASE \E event \in Head(wire).events :
                   /\ book' = BookAfter(book, event)
                   /\ ready' = (ready \/ event.type = "snapshot")
        BY <2>1, <3>1, <3>2, <3>4, BookAfterType DEF TypeOK, Frame
      <3>5. QED BY <1>9, <3>3, <3>4 DEF Receive, Handle
    <2>3. requests' \in Seq({"subscribe", "unsubscribe"})
      <3>1. \A r \in {"subscribe", "unsubscribe"}, s \in Seq({"subscribe", "unsubscribe"}) :
              Append(s, r) \in Seq({"subscribe", "unsubscribe"})
        OBVIOUS
      <3>2. QED BY <1>9, <3>1 DEF Receive, Resubscribe, TypeOK
    <2>4. QED BY <1>9, <2>1, <2>2, <2>3 DEF Receive, TypeOK
  <1>10. CASE ReceiveFails
    BY <1>10, RetryTypes, HangupTypes DEF ReceiveFails, TypeOK
  <1>11. CASE CloseStale
    BY <1>11, RetryTypes, HangupTypes DEF CloseStale, TypeOK
  <1>12. CASE UNCHANGED vars
    BY <1>12 DEF TypeOK, vars, exchange, client
  <1>13. QED
    BY <1>1, <1>2, <1>3, <1>4, <1>5, <1>6, <1>7, <1>8, <1>9, <1>10, <1>11, <1>12 DEF Next

-----------------------------------------------------------------------------
(* What is under way when.                                                 *)

\* Every step keeps what is said of a feed without a connection.
LEMMA QuiescentStep == TypeOK /\ Quiescent /\ [Next]_vars => Quiescent'
  <1> SUFFICES ASSUME TypeOK, Quiescent, [Next]_vars PROVE Quiescent'
    OBVIOUS
  <1>1. CASE MarketMoves
    BY <1>1 DEF MarketMoves, Send, Quiescent, client
  <1>2. CASE OtherFrame
    BY <1>2 DEF OtherFrame, Send, Quiescent, client
  <1>3. CASE ServeRequest
    <2>1. /\ conn = "up" /\ requests # <<>> /\ requests' = Tail(requests)
          /\ subscribed' = (Head(requests) = "subscribe")
          /\ UNCHANGED <<conn, tracking, ready>>
      BY <1>3 DEF ServeRequest, client
    <2>2. requests \in Seq({"subscribe", "unsubscribe"}) /\ Len(requests) \in Nat \ {0}
      BY <2>1 DEF TypeOK
    <2>3. requests[Len(requests)] = "subscribe"
      BY <2>1 DEF Quiescent
    <2>4. CASE Len(requests) = 1
      <3>1. requests' = <<>> /\ subscribed'
        BY <2>1, <2>2, <2>3, <2>4, TailFacts
      <3>2. QED BY <2>1, <3>1 DEF Quiescent
    <2>5. CASE Len(requests) # 1
      <3>1. requests' # <<>> /\ requests'[Len(requests')] = "subscribe"
        BY <2>1, <2>2, <2>3, <2>5, TailFacts
      <3>2. QED BY <2>1, <3>1 DEF Quiescent
    <2>6. QED BY <2>4, <2>5
  <1>4. CASE GoSilent
    BY <1>4 DEF GoSilent, Quiescent, client
  <1>5. CASE Connect
    <2>1. requests \in Seq({"subscribe", "unsubscribe"})
      BY DEF TypeOK
    <2>2. requests' # <<>> /\ requests'[Len(requests')] = "subscribe"
      BY <1>5, <2>1 DEF Connect
    <2>3. QED BY <1>5, <2>2 DEF Connect, OnConnect, Quiescent
  <1>6. CASE ConnectFails
    BY <1>6 DEF ConnectFails, SleepBeforeRetry, Quiescent, exchange
  <1>7. CASE Wake
    BY <1>7 DEF Wake, Quiescent, exchange
  <1>8. CASE Disconnect
    BY <1>8 DEF Disconnect, SleepBeforeRetry, Hangup, Quiescent
  <1>9. CASE Receive
    <2>1. CASE UNCHANGED requests
      BY <1>9, <2>1 DEF Receive, Quiescent
    <2>2. CASE Resubscribe
      <3>1. requests \in Seq({"subscribe", "unsubscribe"})
        BY DEF TypeOK
      <3>2. requests' # <<>> /\ requests'[Len(requests')] = "subscribe"
        BY <2>2, <3>1 DEF Resubscribe
      <3>3. QED BY <1>9, <3>2 DEF Receive, Quiescent
    <2>3. QED BY <1>9, <2>1, <2>2 DEF Receive
  <1>10. CASE ReceiveFails
    BY <1>10 DEF ReceiveFails, SleepBeforeRetry, Hangup, Quiescent
  <1>11. CASE CloseStale
    BY <1>11 DEF CloseStale, SleepBeforeRetry, Hangup, Quiescent
  <1>12. CASE UNCHANGED vars
    BY <1>12 DEF Quiescent, vars, exchange, client
  <1>13. QED
    BY <1>1, <1>2, <1>3, <1>4, <1>5, <1>6, <1>7, <1>8, <1>9, <1>10, <1>11, <1>12 DEF Next

-----------------------------------------------------------------------------
(* What the wire tells.                                                    *)

\* A frame sent after a step of the book that it tells, or with a snapshot.
LEMMA SendTells ==
  ASSUME TypeOK, SnapshotsFull, WireTellsMarket, conn = "up",
         NEW events, NEW newBook, Send(events, newBook),
         market' = newBook, UNCHANGED <<conn, tracking, asOf>>,
         \A event \in events : event.type = "snapshot" => newBook = event.updates,
         \/ UNCHANGED requests
         \/ \E event \in events : event.type = "snapshot",
         \/ requests # <<>>
         \/ events = {} /\ newBook = market
         \/ events # {} /\ \A event \in events : newBook = BookAfter(market, event)
  PROVE  /\ SnapshotsFull' /\ WireTellsMarket'
         /\ CorrectionUnderWay => CorrectionUnderWay'
  <1>1. wire \in Seq(Frame)
    BY DEF TypeOK
  <1>2. CASE dropped' = TRUE /\ wire' = wire
    BY <1>2 DEF SnapshotsFull, WireTellsMarket, TellsMarket, Tells, CorrectionAfter, CorrectionUnderWay
  <1>3. CASE wire' = Append(wire, [gap |-> dropped, events |-> events, book |-> newBook])
    <2> PICK n \in Nat : n = Len(wire)
      BY <1>1
    <2> DEFINE frame == [gap |-> dropped, events |-> events, book |-> newBook]
    <2>1. frame.gap = dropped /\ frame.events = events /\ frame.book = newBook
      OBVIOUS
    <2> HIDE DEF frame
    <2>2. /\ DOMAIN wire = 1..n /\ DOMAIN wire' = 1..n + 1
          /\ Len(wire') = n + 1 /\ wire' # <<>>
          /\ \A i \in 1..n : wire'[i] = wire[i]
          /\ wire'[n + 1] = frame
      <3>1. wire' = Append(wire, frame)
        BY <1>3 DEF frame
      <3>2. QED BY <1>1, <3>1
    <2>3. SnapshotsFull'
      BY <2>1, <2>2 DEF SnapshotsFull
    <2>4. IsSnapshot(frame) <=> \E event \in events : event.type = "snapshot"
      BY <2>1 DEF IsSnapshot
    <2>5. ASSUME NEW i \in 0..n, CorrectionAfter(i)
          PROVE  CorrectionAfter(i)'
      <3>1. CASE dropped
        <4>1. n + 1 > i /\ n + 1 \in DOMAIN wire'
          BY <2>2
        <4>2. wire'[n + 1].gap
          BY <2>1, <2>2, <3>1, Zenon
        <4>3. QED BY <4>1, <4>2 DEF CorrectionAfter
      <3>2. CASE requests # <<>>
        <4>1. CASE UNCHANGED requests
          BY <3>2, <4>1 DEF CorrectionAfter
        <4>2. CASE \E event \in events : event.type = "snapshot"
          <5>1. IsSnapshot(wire'[n + 1]) /\ n + 1 > i /\ n + 1 \in DOMAIN wire'
            BY <2>2, <2>4, <4>2
          <5>2. QED BY <5>1 DEF CorrectionAfter, IsSnapshot
        <4>3. QED BY <4>1, <4>2
      <3>3. CASE \E j \in DOMAIN wire : j > i /\ (wire[j].gap \/ IsSnapshot(wire[j]))
        <4>1. PICK j \in 1..n : j > i /\ (wire[j].gap \/ IsSnapshot(wire[j]))
          BY <2>2, <3>3
        <4>2. j \in DOMAIN wire' /\ wire'[j] = wire[j]
          BY <2>2
        <4>3. QED BY <4>1, <4>2 DEF CorrectionAfter, IsSnapshot
      <3>4. QED BY <2>5, <3>1, <3>2, <3>3 DEF CorrectionAfter
    <2>6. ASSUME NEW i \in 1..n PROVE Tells(i)'
      <3>1. Tells(i) /\ wire'[i] = wire[i] /\ (i # 1 => wire'[i - 1] = wire[i - 1])
        BY <2>2 DEF WireTellsMarket
      <3>2. CorrectionAfter(i) => CorrectionAfter(i)'
        BY <2>5
      <3>3. QED BY <3>1, <3>2 DEF Tells, IsSnapshot, Follows
    <2>7. Tells(n + 1)'
      <3> DEFINE before == IF wire = <<>> THEN asOf ELSE wire[n].book
      <3>1. CASE dropped \/ \E event \in events : event.type = "snapshot"
        BY <2>1, <2>2, <2>4, <3>1 DEF Tells, IsSnapshot
      <3>2. CASE requests # <<>> /\ UNCHANGED requests
        BY <3>2 DEF Tells, CorrectionAfter
      <3>3. CASE wire = <<>> /\ ~tracking
        <4>1. n = 0
          BY <3>3
        <4>2. QED BY <3>3, <4>1 DEF Tells
      <3>4. CASE market = before /\ requests = <<>>
        <4>1. before = (IF n + 1 = 1 THEN asOf ELSE wire'[n + 1 - 1].book)
          BY <1>1, <2>2
        <4>2. Follows(before, frame)
          BY <2>1, <3>4 DEF Follows
        <4>3. QED BY <2>2, <4>1, <4>2 DEF Tells, Follows
      <3>5. QED BY <3>1, <3>2, <3>3, <3>4 DEF WireTellsMarket, TellsMarket
    <2>8. TellsMarket'
      BY <2>1, <2>2 DEF TellsMarket
    <2>9. WireTellsMarket'
      BY <2>2, <2>6, <2>7, <2>8 DEF WireTellsMarket
    <2>10. CorrectionUnderWay => CorrectionUnderWay'
      BY <2>2, <2>5 DEF CorrectionUnderWay
    <2>11. QED BY <2>3, <2>9, <2>10
  <1>4. QED BY <1>2, <1>3 DEF Send

\* Without a connection there is nothing to tell.
LEMMA DownTells ==
  ASSUME wire' = <<>>, conn' # "up"
  PROVE  SnapshotsFull' /\ WireTellsMarket' /\ MirrorTracksMarket'
  BY DEF SnapshotsFull, WireTellsMarket, TellsMarket, MirrorTracksMarket

\* Every step keeps what the wire tells.
LEMMA WireStep == IInv /\ [Next]_vars => (SnapshotsFull /\ WireTellsMarket /\ MirrorTracksMarket)'
  <1> SUFFICES ASSUME IInv, [Next]_vars
      PROVE SnapshotsFull' /\ WireTellsMarket' /\ MirrorTracksMarket'
    OBVIOUS
  <1> USE DEF IInv
  <1>1. CASE MarketMoves
    <2>1. PICK level \in Level, quantity \in Quantity :
            /\ market' = [market EXCEPT ![level] = quantity]
            /\ IF conn = "up" /\ subscribed
               THEN Len(wire) < MaxWire /\ Send({Update(level, quantity)}, market')
               ELSE UNCHANGED <<wire, dropped, losses>>
      BY <1>1 DEF MarketMoves
    <2>2. UNCHANGED <<requests, conn, tracking, book, ready, asOf>>
      BY <1>1 DEF MarketMoves, client
    <2>3. CASE conn = "up" /\ subscribed
      <3>1. \A event \in {Update(level, quantity)} :
              event.type = "update" /\ market' = BookAfter(market, event)
        BY <2>1, UpdateBook DEF TypeOK
      <3>2. Send({Update(level, quantity)}, market')
        BY <2>1, <2>3
      <3>3. /\ SnapshotsFull' /\ WireTellsMarket'
            /\ CorrectionUnderWay => CorrectionUnderWay'
        BY <2>2, <2>3, <3>1, <3>2, SendTells
      <3>4. QED BY <2>2, <3>3 DEF MirrorTracksMarket
    <2>4. CASE ~(conn = "up" /\ subscribed)
      BY <2>1, <2>2, <2>4 DEF Quiescent, SnapshotsFull, WireTellsMarket, TellsMarket, Tells,
         CorrectionAfter, CorrectionUnderWay, MirrorTracksMarket
    <2>5. QED BY <2>3, <2>4
  <1>2. CASE OtherFrame
    <2>1. Send({}, market) /\ conn = "up" /\ market' = market
          /\ UNCHANGED <<requests, conn, tracking, book, ready, asOf>>
      BY <1>2 DEF OtherFrame, client
    <2>2. /\ SnapshotsFull' /\ WireTellsMarket'
          /\ CorrectionUnderWay => CorrectionUnderWay'
      BY <2>1, SendTells
    <2>3. QED BY <2>1, <2>2 DEF MirrorTracksMarket
  <1>3. CASE ServeRequest
    <2>1. /\ conn = "up" /\ requests # <<>> /\ requests' = Tail(requests) /\ market' = market
          /\ UNCHANGED <<conn, tracking, book, ready, asOf>>
      BY <1>3 DEF ServeRequest, client
    <2>2. CASE Head(requests) = "subscribe"
      <3>1. Send({Snapshot(market)}, market)
        BY <1>3, <2>2 DEF ServeRequest
      <3>2. \A event \in {Snapshot(market)} : event.type = "snapshot" /\ market = event.updates
        BY SnapshotEvent DEF TypeOK
      <3>3. /\ SnapshotsFull' /\ WireTellsMarket'
            /\ CorrectionUnderWay => CorrectionUnderWay'
        BY <2>1, <3>1, <3>2, SendTells
      <3>4. QED BY <2>1, <3>3 DEF MirrorTracksMarket
    <2>3. CASE Head(requests) # "subscribe"
      <3>1. UNCHANGED <<wire, dropped>>
        BY <1>3, <2>3 DEF ServeRequest
      <3>2. requests' # <<>>
        BY <2>1, <2>3, TailFacts DEF Quiescent, TypeOK
      <3>3. QED BY <2>1, <3>1, <3>2 DEF SnapshotsFull, WireTellsMarket, TellsMarket, Tells,
              CorrectionAfter, CorrectionUnderWay, MirrorTracksMarket
    <2>4. QED BY <2>2, <2>3
  <1>4. CASE GoSilent
    BY <1>4 DEF GoSilent, client, SnapshotsFull, WireTellsMarket, TellsMarket, Tells,
       CorrectionAfter, CorrectionUnderWay, MirrorTracksMarket
  <1>5. CASE Connect
    <2>1. wire = <<>> /\ wire' = <<>> /\ ready' = FALSE
      BY <1>5 DEF Connect, OnConnect, Quiescent
    <2>2. requests' # <<>>
      BY <1>5 DEF Connect, TypeOK
    <2>3. QED BY <2>1, <2>2 DEF SnapshotsFull, WireTellsMarket, TellsMarket, MirrorTracksMarket
  <1>6. CASE ConnectFails
    BY <1>6, DownTells DEF ConnectFails, SleepBeforeRetry, Quiescent, exchange
  <1>7. CASE Wake
    BY <1>7, DownTells DEF Wake, Quiescent, exchange
  <1>8. CASE Disconnect
    BY <1>8, DownTells DEF Disconnect, SleepBeforeRetry, Hangup
  <1>9. CASE Receive
    <2> PICK n \in Nat : n = Len(wire)
      BY DEF TypeOK
    <2> DEFINE frame == wire[1]
    <2>1. /\ conn = "up" /\ wire # <<>> /\ wire' = Tail(wire) /\ tracking' = TRUE
          /\ UNCHANGED <<market, dropped, conn>>
          /\ Handle(frame)
          /\ tracking /\ frame.gap => Resubscribe
          /\ ~(tracking /\ frame.gap) => UNCHANGED requests
      BY <1>9 DEF Receive, TypeOK
    <2>2. /\ n >= 1 /\ DOMAIN wire = 1..n /\ DOMAIN wire' = 1..n - 1
          /\ Len(wire') = n - 1 /\ (wire' = <<>> <=> n = 1)
          /\ \A i \in 1..n - 1 : wire'[i] = wire[i + 1]
      BY <2>1, TailFacts DEF TypeOK
    <2>3. asOf' = frame.book /\ frame \in Frame
      BY <2>1, <2>2 DEF Handle, TypeOK
    <2>4. requests' # <<>> \/ UNCHANGED requests
      BY <2>1 DEF Resubscribe, TypeOK
    <2>5. SnapshotsFull'
      BY <2>2 DEF SnapshotsFull
    <2>6. ASSUME NEW i \in 1..n, CorrectionAfter(i)
          PROVE  CorrectionAfter(i - 1)'
      <3>1. CASE \E j \in DOMAIN wire : j > i /\ (wire[j].gap \/ IsSnapshot(wire[j]))
        <4>1. PICK j \in 1..n : j > i /\ (wire[j].gap \/ IsSnapshot(wire[j]))
          BY <2>2, <3>1
        <4>2. j - 1 \in DOMAIN wire' /\ wire'[j - 1] = wire[j] /\ j - 1 > i - 1
          BY <2>2, <4>1
        <4>3. QED BY <4>1, <4>2 DEF CorrectionAfter, IsSnapshot
      <3>2. QED BY <2>1, <2>4, <2>6, <3>1 DEF CorrectionAfter
    <2>7. ASSUME NEW i \in 1..n - 1 PROVE Tells(i)'
      <3>1. Tells(i + 1) /\ wire'[i] = wire[i + 1]
        BY <2>2 DEF WireTellsMarket
      <3>2. CorrectionAfter(i + 1) => CorrectionAfter(i)'
        BY <2>6, i + 1 \in 1..n, i + 1 - 1 = i
      <3>3. (IF i + 1 = 1 THEN asOf ELSE wire[i + 1 - 1].book)
              = (IF i = 1 THEN asOf' ELSE wire'[i - 1].book)
        BY <2>2, <2>3
      <3>4. QED BY <3>1, <3>2, <3>3 DEF Tells, IsSnapshot, Follows
    <2>8. TellsMarket'
      BY <2>1, <2>2, <2>3, <2>4 DEF WireTellsMarket, TellsMarket
    <2>9. WireTellsMarket'
      BY <2>2, <2>7, <2>8 DEF WireTellsMarket
    <2>10. ASSUME ready', ~CorrectionUnderWay' PROVE book' = asOf'
      <3>1. ~CorrectionAfter(1) /\ requests' = <<>>
        BY <2>2, <2>6, <2>10, 1 \in 1..n, 1 - 1 = 0 DEF CorrectionUnderWay, CorrectionAfter
      <3>2. UNCHANGED requests /\ ~(tracking /\ frame.gap)
        BY <2>1, <2>4, <3>1 DEF Resubscribe, TypeOK
      <3>3. CASE frame.events = {}
        <4>1. UNCHANGED <<book, ready>>
          BY <2>1, <3>3 DEF Handle
        <4>2. tracking /\ ~frame.gap
          BY <2>1, <2>10, <3>2, <4>1 DEF Quiescent
        <4>3. ~CorrectionAfter(0)
          BY <2>2, <3>1, <3>3, <4>2 DEF CorrectionAfter, IsSnapshot
        <4>4. book = asOf
          BY <2>1, <2>10, <4>1, <4>3 DEF MirrorTracksMarket, CorrectionUnderWay
        <4>5. Follows(asOf, frame)
          BY <2>2, <3>1, <3>3, <4>2 DEF WireTellsMarket, Tells, IsSnapshot
        <4>6. QED BY <2>3, <3>3, <4>1, <4>4, <4>5 DEF Follows
      <3>4. CASE frame.events # {}
        <4>1. PICK event \in Event : frame.events = {event}
          BY <2>3, <3>4 DEF Frame
        <4>2. book' = BookAfter(book, event) /\ ready' = (ready \/ event.type = "snapshot")
          BY <2>1, <4>1 DEF Handle
        <4>3. CASE event.type = "snapshot"
          <5>1. frame.book = event.updates
            BY <2>2, <4>1, <4>3 DEF SnapshotsFull
          <5>2. QED BY <2>3, <4>2, <4>3, <5>1, SnapshotBook
        <4>4. CASE event.type # "snapshot"
          <5>1. ready /\ tracking /\ ~frame.gap
            BY <2>1, <2>10, <3>2, <4>2, <4>4 DEF Quiescent
          <5>2. ~IsSnapshot(frame)
            BY <4>1, <4>4 DEF IsSnapshot
          <5>3. ~CorrectionAfter(0)
            BY <2>2, <3>1, <5>1, <5>2 DEF CorrectionAfter
          <5>4. book = asOf
            BY <2>1, <5>1, <5>3 DEF MirrorTracksMarket, CorrectionUnderWay
          <5>5. Follows(asOf, frame)
            BY <2>2, <3>1, <5>1, <5>2 DEF WireTellsMarket, Tells
          <5>6. QED BY <2>3, <3>4, <4>1, <4>2, <5>4, <5>5 DEF Follows
        <4>5. QED BY <4>3, <4>4
      <3>5. QED BY <3>3, <3>4
    <2>11. QED BY <2>5, <2>9, <2>10 DEF MirrorTracksMarket
  <1>10. CASE ReceiveFails
    BY <1>10, DownTells DEF ReceiveFails, SleepBeforeRetry, Hangup
  <1>11. CASE CloseStale
    BY <1>11, DownTells DEF CloseStale, SleepBeforeRetry, Hangup
  <1>12. CASE UNCHANGED vars
    BY <1>12 DEF vars, exchange, client, SnapshotsFull, WireTellsMarket, TellsMarket, Tells,
       CorrectionAfter, CorrectionUnderWay, MirrorTracksMarket
  <1>13. QED
    BY <1>1, <1>2, <1>3, <1>4, <1>5, <1>6, <1>7, <1>8, <1>9, <1>10, <1>11, <1>12 DEF Next

-----------------------------------------------------------------------------

\* The inductive invariant holds in every reachable state of the feed.
THEOREM InductiveInvariant == Spec => []IInv
  <1>1. Init => IInv
    <2> SUFFICES ASSUME Init PROVE IInv
      OBVIOUS
    <2>1. TypeOK
      <3>1. wire \in Seq(Frame) /\ requests \in Seq({"subscribe", "unsubscribe"})
        BY EmptySeq DEF Init
      <3>2. backoff \in 2..30 /\ losses \in 0..MaxLosses
        BY FeedAssumption DEF Init
      <3>3. QED BY <3>1, <3>2, EmptyBookType DEF Init, TypeOK
    <2>2. Quiescent
      BY DEF Init, Quiescent
    <2>3. SnapshotsFull /\ WireTellsMarket /\ MirrorTracksMarket
      BY DEF Init, SnapshotsFull, WireTellsMarket, TellsMarket, MirrorTracksMarket
    <2>4. QED BY <2>1, <2>2, <2>3 DEF IInv
  <1>2. IInv /\ [Next]_vars => IInv'
    BY TypeStep, QuiescentStep, WireStep DEF IInv
  <1>3. QED BY <1>1, <1>2, PTL DEF Spec

\* The feed's variables stay in their types, however long the connection lasts
\* and whatever is lost (feed.py, CoinbaseFeed.run).
THEOREM TypeCorrect == Spec => []TypeOK
  BY InductiveInvariant, PTL DEF IInv

\* For every set of levels and any number of frames, gaps, resubscriptions and
\* reconnects, a ready mirror on a connection is the exchange's book unless a
\* correction is under way (recorder.py, RecordingFeed._handle_message).
THEOREM MirrorIsRight == Spec => []MirrorTracksMarket
  BY InductiveInvariant, PTL DEF IInv

=============================================================================
