-------------------------------- MODULE Feed --------------------------------
(***************************************************************************)
(* The recorder's market-data connection: CoinbaseFeed.run of feed.py and  *)
(* RecordingFeed, on_connect, on_gap and the stale-socket watch of         *)
(* recorder.py, against an exchange that drops frames, goes silent and     *)
(* closes connections.  One product.                                       *)
(*                                                                         *)
(* Sequence numbers are kept relative to the frame before: the client      *)
(* compares with expected_seq, so all it can tell is whether numbers are   *)
(* missing in between.  A frame's history field book, the exchange's book  *)
(* when it was sent, is there for the properties only.                     *)
(***************************************************************************)
EXTENDS SnapshotGate, Sequences

CONSTANTS
  MaxWire,      \* bound: unsolicited frames under way
  MaxRequests,  \* bound: requests under way
  MaxLosses     \* bound: frames the exchange drops in all

ASSUME FeedAssumption ==
  MaxWire \in Nat \ {0} /\ MaxRequests \in Nat \ {0} /\ MaxLosses \in Nat

VARIABLES
  \* the exchange and the network
  market,      \* the exchange's book
  subscribed,  \* whether this connection gets level2 updates
  dropped,     \* the exchange has skipped sequence numbers since its last frame
  wire,        \* frames under way to the client
  requests,    \* requests under way to the exchange
  silent,      \* the socket is open but nothing comes through
  losses,      \* how many frames were dropped so far
  \* the client
  conn,        \* CoinbaseFeed.run: "connecting", "up" or "sleeping"
  backoff,     \* seconds of the next sleep
  tracking,    \* expected_seq is not None
  book,        \* the gate's book
  ready,       \* the gate's ready flag
  heard,       \* last_frame_ns is not 0
  asOf         \* history: the exchange's book when it sent the last frame handled

exchange == <<market, subscribed, dropped, wire, requests, silent, losses>>
client   == <<conn, backoff, tracking, book, ready, heard, asOf>>
vars     == <<exchange, client>>

-----------------------------------------------------------------------------
(* The exchange.                                                           *)

Snapshot(full) == [type |-> "snapshot", updates |-> full]
Update(level, quantity) == [type |-> "update", updates |-> [l \in {level} |-> quantity]]
Event == {Snapshot(full) : full \in Book}
           \union {Update(level, quantity) : level \in Level, quantity \in Quantity}
Frame == [gap : BOOLEAN, events : {{}} \union {{event} : event \in Event}, book : Book]

\* A frame goes out, or is dropped and leaves a hole in the numbering.  events
\* is empty for heartbeats and the other frames that are not l2_data.
Send(events, newBook) ==
  \/ /\ wire' = Append(wire, [gap |-> dropped, events |-> events, book |-> newBook])
     /\ dropped' = FALSE
     /\ UNCHANGED losses
  \/ /\ losses < MaxLosses
     /\ losses' = losses + 1
     /\ dropped' = TRUE
     /\ UNCHANGED wire

MarketMoves ==
  \E level \in Level, quantity \in Quantity :
    /\ quantity # market[level]
    /\ market' = [market EXCEPT ![level] = quantity]
    /\ IF conn = "up" /\ subscribed
       THEN Len(wire) < MaxWire /\ Send({Update(level, quantity)}, market')
       ELSE UNCHANGED <<wire, dropped, losses>>
    /\ UNCHANGED <<subscribed, requests, silent, client>>

\* A heartbeat, a trade, an acknowledgement.
OtherFrame ==
  /\ conn = "up" /\ Len(wire) < MaxWire
  /\ Send({}, market)
  /\ UNCHANGED <<market, subscribed, requests, silent, client>>

\* level2 requests are handled in order; subscribing brings a snapshot.
ServeRequest ==
  /\ conn = "up" /\ requests # <<>>
  /\ requests' = Tail(requests)
  /\ subscribed' = (Head(requests) = "subscribe")
  /\ IF Head(requests) = "subscribe" THEN Send({Snapshot(market)}, market)
     ELSE UNCHANGED <<wire, dropped, losses>>
  /\ UNCHANGED <<market, silent, client>>

GoSilent ==
  /\ conn = "up" /\ ~silent
  /\ silent' = TRUE
  /\ UNCHANGED <<market, subscribed, dropped, wire, requests, losses, client>>

-----------------------------------------------------------------------------
(* The client.                                                             *)

\* The connection is gone and everything under way with it.
Hangup ==
  /\ wire' = <<>> /\ requests' = <<>>
  /\ subscribed' = FALSE /\ dropped' = FALSE /\ silent' = FALSE
  /\ UNCHANGED <<market, losses>>

\* run's except clause: sleep, and double the next sleep.
SleepBeforeRetry ==
  /\ conn' = "sleeping"
  /\ backoff' = IF backoff * 2 <= 30 THEN backoff * 2 ELSE 30

\* RecordingFeed._subscribe up to its first send.
OnConnectKeepsReady == tracking' = FALSE /\ UNCHANGED ready

OnConnect == tracking' = FALSE /\ ready' = FALSE

Connect ==
  /\ conn = "connecting"
  /\ OnConnect
  /\ conn' = "up" /\ backoff' = 2
  /\ requests' = Append(requests, "subscribe")
  /\ UNCHANGED <<market, subscribed, dropped, wire, silent, losses, book, heard, asOf>>

\* websockets.connect raises, or one of the three sends after on_connect does.
ConnectFails ==
  /\ conn = "connecting"
  /\ OnConnect \/ UNCHANGED <<tracking, ready>>
  /\ SleepBeforeRetry
  /\ UNCHANGED <<exchange, book, heard, asOf>>

Wake ==
  /\ conn = "sleeping"
  /\ conn' = "connecting"
  /\ UNCHANGED <<exchange, backoff, tracking, book, ready, heard, asOf>>

\* The stream ends with an error, or cleanly: then run reconnects without a sleep.
Disconnect ==
  /\ conn = "up"
  /\ Hangup
  /\ SleepBeforeRetry \/ (conn' = "connecting" /\ UNCHANGED backoff)
  /\ UNCHANGED <<tracking, book, ready, heard, asOf>>

\* on_message.
Handle(frame) ==
  /\ \/ frame.events = {} /\ UNCHANGED <<book, ready>>
     \/ \E event \in frame.events :
          /\ book' = BookAfter(book, event)
          /\ ready' = (ready \/ event.type = "snapshot")
  /\ asOf' = frame.book

\* resubscribe_level2.
SubscribeThenUnsubscribe ==
  requests' = Append(Append(requests, "subscribe"), "unsubscribe")

Resubscribe == requests' = Append(Append(requests, "unsubscribe"), "subscribe")

\* _handle_message.
Receive ==
  /\ conn = "up" /\ ~silent /\ wire # <<>>
  /\ IF tracking /\ Head(wire).gap
     THEN Len(requests) < MaxRequests /\ Resubscribe
     ELSE UNCHANGED requests
  /\ wire' = Tail(wire)
  /\ Handle(Head(wire))
  /\ tracking' = TRUE /\ heard' = TRUE
  /\ UNCHANGED <<market, subscribed, dropped, silent, losses, conn, backoff>>

\* The resubscription raises: expected_seq keeps its value and the frame, which
\* is in the raw log already, is not applied.
ReceiveFails ==
  /\ conn = "up" /\ ~silent /\ wire # <<>>
  /\ tracking /\ Head(wire).gap
  /\ Hangup /\ SleepBeforeRetry
  /\ heard' = TRUE
  /\ UNCHANGED <<tracking, book, ready, asOf>>

\* The main loop closes a socket that brought no frame for STALE_SECONDS, if
\* there was a frame before; the closed stream ends run's loop either way.
CloseStaleWhenReady ==
  /\ conn = "up" /\ silent /\ heard /\ ready
  /\ Hangup /\ conn' = "connecting"
  /\ UNCHANGED <<backoff, tracking, book, ready, heard, asOf>>

CloseStale ==
  /\ conn = "up" /\ silent /\ heard
  /\ Hangup
  /\ SleepBeforeRetry \/ (conn' = "connecting" /\ UNCHANGED backoff)
  /\ UNCHANGED <<tracking, book, ready, heard, asOf>>

-----------------------------------------------------------------------------

Init ==
  /\ market \in Book
  /\ subscribed = FALSE /\ dropped = FALSE /\ silent = FALSE
  /\ wire = <<>> /\ requests = <<>>
  /\ losses = 0
  /\ conn = "connecting" /\ backoff = 2
  /\ tracking = FALSE /\ ready = FALSE /\ heard = FALSE
  /\ book = EmptyBook /\ asOf = EmptyBook

Next ==
  \/ MarketMoves \/ OtherFrame \/ ServeRequest \/ GoSilent
  \/ Connect \/ ConnectFails \/ Wake \/ Disconnect
  \/ Receive \/ ReceiveFails \/ CloseStale

Spec == Init /\ [][Next]_vars

\* The tasks of the recorder's event loop are never starved, and the exchange
\* answers requests and sends heartbeats while the connection lasts.
Fairness ==
  /\ WF_vars(Connect \/ ConnectFails) /\ WF_vars(Wake)
  /\ WF_vars(Receive \/ ReceiveFails) /\ WF_vars(CloseStale)
  /\ WF_vars(ServeRequest) /\ WF_vars(OtherFrame)

FairSpec == Spec /\ Fairness

-----------------------------------------------------------------------------
(* Properties.                                                             *)

\* The variables stay in their types.
TypeOK ==
  /\ market \in Book /\ book \in Book /\ asOf \in Book
  /\ subscribed \in BOOLEAN /\ dropped \in BOOLEAN /\ silent \in BOOLEAN
  /\ tracking \in BOOLEAN /\ ready \in BOOLEAN /\ heard \in BOOLEAN
  /\ losses \in 0..MaxLosses
  /\ conn \in {"connecting", "up", "sleeping"} /\ backoff \in 2..30
  /\ wire \in Seq(Frame)
  /\ requests \in Seq({"subscribe", "unsubscribe"})

IsSnapshot(frame) == \E event \in frame.events : event.type = "snapshot"

\* After frame i of the wire something is on its way that will replace the
\* mirror or show that it must be replaced: a hole in the numbering not noticed
\* yet, a request, a snapshot.
CorrectionAfter(i) ==
  \/ dropped
  \/ requests # <<>>
  \/ \E j \in DOMAIN wire : j > i /\ (wire[j].gap \/ IsSnapshot(wire[j]))

CorrectionUnderWay == CorrectionAfter(0)

\* While a connection is up and its gate is ready, the mirror is the exchange's
\* book as of the last frame handled, unless a correction is under way: whatever
\* frames are dropped, in whatever order gaps, resubscriptions and reconnects
\* come, no wrong book is taken for right for good (recorder.py, _handle_message).
MirrorTracksMarket ==
  conn = "up" /\ ready /\ ~CorrectionUnderWay => book = asOf

\* The frame says what became of the book, if it was before.
Follows(before, frame) ==
  IF frame.events = {} THEN frame.book = before
  ELSE \A event \in frame.events : frame.book = BookAfter(before, event)

\* What a connection that is down leaves behind, and which requests are made.
Quiescent ==
  /\ conn # "up" => ~subscribed /\ ~dropped /\ ~silent /\ wire = <<>> /\ requests = <<>>
  /\ conn = "up" /\ requests = <<>> => subscribed
  /\ requests # <<>> => requests[Len(requests)] = "subscribe"
  /\ conn = "up" /\ ready => tracking

\* A frame of the wire with a snapshot has the exchange's book in it.
SnapshotsFull ==
  \A i \in DOMAIN wire : \A event \in wire[i].events :
    event.type = "snapshot" => wire[i].book = event.updates

\* Frame by frame the wire tells how the exchange's book went from asOf to
\* market, up to corrections that come later.
Tells(i) ==
  \/ wire[i].gap \/ IsSnapshot(wire[i]) \/ CorrectionAfter(i)
  \/ i = 1 /\ ~tracking
  \/ Follows(IF i = 1 THEN asOf ELSE wire[i - 1].book, wire[i])

TellsMarket ==
  \/ dropped \/ requests # <<>> \/ conn # "up"
  \/ wire = <<>> /\ ~tracking
  \/ market = IF wire = <<>> THEN asOf ELSE wire[Len(wire)].book

WireTellsMarket == TellsMarket /\ \A i \in DOMAIN wire : Tells(i)

\* The inductive invariant.
IInv == TypeOK /\ Quiescent /\ SnapshotsFull /\ WireTellsMarket /\ MirrorTracksMarket

\* Once a gap has been noticed and the fresh snapshot requested, the mirror is
\* the exchange's book again and fed with updates, or the connection is given up.
GapHealed ==
  (conn = "up" /\ requests # <<>> /\ tracking)
    ~> (conn # "up" \/ (ready /\ subscribed /\ book = asOf /\ ~CorrectionUnderWay))

\* After a first frame, a socket that goes silent is replaced.
SilenceEnds == (silent /\ heard) ~> ~silent

\* "force a reconnect if the socket goes silent this long" (recorder.py:42).
SilentSocketReconnects == silent ~> ~silent

=============================================================================
