------------------------------ MODULE Browser ------------------------------
(***************************************************************************)
(* The page's market data: the WebSocket, its timers and the book of       *)
(* src/public/js/app.js, which connects to the exchange by itself, and the *)
(* sample data that is offered when no snapshot comes.                     *)
(*                                                                         *)
(* Handlers run one at a time and to their end.  They close over the       *)
(* global ws, the socket made last, and not over their own.  A socket that *)
(* was told to close delivers nothing any more (the browser's rule), but   *)
(* its close event comes later.                                            *)
(*                                                                         *)
(* One product with one price level a side.  Trades, heartbeats, ages,     *)
(* rendering and the constructor's exception are left out; of a delay only *)
(* that it ends.                                                           *)
(***************************************************************************)
EXTENDS Naturals, Sequences, SequencesExt, FiniteSets

CONSTANTS
  MaxSockets,  \* bound: sockets the page makes
  MaxFrames    \* bound: frames on their way on one socket

VARIABLES
  market,      \* the exchange's book: [side -> quantity]
  sockets,     \* the WebSockets in the order they were made
  timers,      \* timeouts under way that call connect
  mode, connState, ready, banner, demoOffered,
  levels,      \* bids and asks: [side -> quantity], 0 for no level
  snapped,     \* history: a snapshot came since the page, or retryLive, started with no levels
  retried      \* history: retryLive was called

browserVars == <<market, sockets, timers, mode, connState, ready, banner, demoOffered, levels, snapped, retried>>

BookSide     == {"bid", "ask"}
NoLevels == [s \in BookSide |-> 0]
Sample   == [s \in BookSide |-> 2]  \* demoFrames; the market's quantities are 0 and 1

\* The global ws.
Ws == Len(sockets)

NewSocket == [state |-> "connecting", served |-> FALSE, frames |-> <<>>]

Alive(s) == sockets[s].state \in {"connecting", "open"}

\* close() on a socket, in a list of sockets.
Closed(list, s) ==
  IF list[s].state \in {"connecting", "open"}
  THEN [list EXCEPT ![s].state = "closing", ![s].frames = <<>>] ELSE list

Frame(type, book) == [type |-> type, book |-> book]

-----------------------------------------------------------------------------
(* The exchange.                                                           *)

\* New quantities on one side or both; the sockets served hear of them.
MarketMoves ==
  \E change \in [{"bid"} -> 0..1] \union [{"ask"} -> 0..1] \union [BookSide -> 0..1] :
    /\ \A s \in DOMAIN sockets : Len(sockets[s].frames) < MaxFrames
    /\ market' = [s \in BookSide |-> IF s \in DOMAIN change THEN change[s] ELSE market[s]]
    /\ market' # market
    /\ sockets' = [s \in DOMAIN sockets |->
         IF sockets[s].served /\ sockets[s].state = "open"
         THEN [sockets[s] EXCEPT !.frames = Append(@, Frame("update", change))] ELSE sockets[s]]
  /\ UNCHANGED <<timers, mode, connState, ready, banner, demoOffered, levels, snapped, retried>>

-----------------------------------------------------------------------------
(* Connection.                                                             *)

\* connect() outside of demo mode.
Connect(list) == sockets' = Append(list, NewSocket) /\ connState' = "connecting"

\* scheduleReconnect's timeout; in demo mode connect returns at once.
TimerFires ==
  /\ timers > 0 /\ timers' = timers - 1
  /\ IF mode = "demo" THEN UNCHANGED <<sockets, connState>>
     ELSE Len(sockets) < MaxSockets /\ Connect(sockets)
  /\ UNCHANGED <<market, mode, ready, banner, demoOffered, levels, snapped, retried>>

\* onopen: the requests go to ws.  It may be another socket by now: send throws
\* on one that is still connecting and does nothing on one that was closed.
OnOpen(s) ==
  /\ sockets[s].state = "connecting"
  /\ LET opened == [sockets EXCEPT ![s].state = "open"]
     IN  /\ sockets' = IF opened[Ws].state = "open" /\ ~opened[Ws].served
                       THEN [opened EXCEPT ![Ws].served = TRUE,
                                           ![Ws].frames = <<Frame("snapshot", market)>>]
                       ELSE opened
         /\ connState' = IF opened[Ws].state = "connecting" THEN connState ELSE "subscribed"
  /\ UNCHANGED <<market, timers, mode, ready, banner, demoOffered, levels, snapped, retried>>

\* Mutant: the next attempt is only made before the first snapshot.
OnCloseWhenReady(s) ==
  /\ sockets[s].state # "closed"
  /\ Len(sockets) + timers < MaxSockets \/ mode = "demo"
  /\ sockets' = [sockets EXCEPT ![s].state = "closed", ![s].frames = <<>>]
  /\ IF mode = "demo" THEN UNCHANGED <<connState, timers>>
     ELSE connState' = "reconnecting" /\ timers' = IF ready THEN timers ELSE timers + 1
  /\ UNCHANGED <<market, mode, ready, banner, demoOffered, levels, snapped, retried>>

\* onclose, of a socket that was told to close or lost its connection.
OnClose(s) ==
  /\ sockets[s].state # "closed"
  /\ Len(sockets) + timers < MaxSockets \/ mode = "demo"
  /\ sockets' = [sockets EXCEPT ![s].state = "closed", ![s].frames = <<>>]
  /\ IF mode = "demo" THEN UNCHANGED <<connState, timers>>
     ELSE connState' = "reconnecting" /\ timers' = timers + 1
  /\ UNCHANGED <<market, mode, ready, banner, demoOffered, levels, snapped, retried>>

\* onerror: ws is closed; the close event of s itself follows at once.
OnError(s) ==
  /\ Alive(s) /\ s # Ws /\ Alive(Ws)
  /\ sockets' = Closed(Closed(sockets, Ws), s)
  /\ UNCHANGED <<market, timers, mode, connState, ready, banner, demoOffered, levels, snapped, retried>>

\* Mutant: a snapshot is applied like an update.
AppliedNoClear(book, frame) ==
  [s \in BookSide |-> IF s \in DOMAIN frame.book /\ frame.book[s] # 0 THEN frame.book[s]
                  ELSE IF frame.type = "snapshot" THEN book[s]
                  ELSE IF s \in DOMAIN frame.book THEN 0 ELSE book[s]]

\* The levels after a frame of level2.
Applied(book, frame) ==
  [s \in BookSide |-> IF s \in DOMAIN frame.book THEN frame.book[s]
                  ELSE IF frame.type = "snapshot" THEN 0 ELSE book[s]]

Full(book) == \A s \in BookSide : book[s] > 0

\* handleL2 on a frame.
HandleL2(frame) ==
  /\ levels' = Applied(levels, frame)
  /\ ready' = (ready \/ Full(levels'))
  /\ snapped' = (snapped \/ frame.type = "snapshot")
  /\ connState' = IF mode = "live" /\ ready' THEN "live" ELSE connState

\* onmessage.
OnMessage(s) ==
  /\ sockets[s].state = "open" /\ sockets[s].frames # <<>>
  /\ HandleL2(Head(sockets[s].frames))
  /\ sockets' = [sockets EXCEPT ![s].frames = Tail(@)]
  /\ UNCHANGED <<market, timers, mode, banner, demoOffered, retried>>

-----------------------------------------------------------------------------
(* Sample data.                                                            *)

\* maybeOfferDemo, called by tick; that six seconds have passed is any time here.
MaybeOfferDemo ==
  /\ mode = "live"
  /\ IF ready THEN banner' = FALSE /\ UNCHANGED demoOffered
     ELSE ~demoOffered /\ banner' = TRUE /\ demoOffered' = TRUE
  /\ UNCHANGED <<market, sockets, timers, mode, connState, ready, levels, snapped, retried>>

\* Mutant: the socket stays open.
EnterDemoConnected ==
  /\ banner /\ banner' = FALSE
  /\ mode' = "demo" /\ connState' = "demo"
  /\ levels' = Sample /\ ready' = TRUE /\ snapped' = TRUE
  /\ UNCHANGED <<market, sockets, timers, demoOffered, retried>>

\* enterDemo: the button is in the banner.
EnterDemo ==
  /\ banner /\ banner' = FALSE
  /\ mode' = "demo" /\ connState' = "demo"
  /\ sockets' = Closed(sockets, Ws)
  /\ levels' = Sample /\ ready' = TRUE /\ snapped' = TRUE
  /\ UNCHANGED <<market, timers, demoOffered, retried>>

\* retryLive: the other button.
RetryLive ==
  /\ banner /\ banner' = FALSE
  /\ Len(sockets) < MaxSockets
  /\ mode' = "live"
  /\ levels' = NoLevels /\ ready' = FALSE /\ snapped' = FALSE
  /\ Connect(sockets) /\ retried' = TRUE
  /\ UNCHANGED <<market, timers, demoOffered>>

BrowserInit ==
  /\ market \in [BookSide -> 0..1]
  /\ sockets = <<NewSocket>> /\ timers = 0
  /\ mode = "live" /\ connState = "connecting"
  /\ ready = FALSE /\ banner = FALSE /\ demoOffered = FALSE
  /\ levels = NoLevels /\ snapped = FALSE /\ retried = FALSE

BrowserNext ==
  \/ MarketMoves \/ TimerFires \/ MaybeOfferDemo \/ EnterDemo \/ RetryLive
  \/ \E s \in DOMAIN sockets : OnOpen(s) \/ OnClose(s) \/ OnError(s) \/ OnMessage(s)

BrowserSpec == BrowserInit /\ [][BrowserNext]_browserVars

-----------------------------------------------------------------------------
(* Properties.                                                             *)

\* Sample data stays sample data: whatever is on its way when the visitor takes
\* it, frames, close events, timers, no quantity of the market gets into it.
SampleStaysSample == mode = "demo" => levels = Sample /\ ready /\ connState = "demo"

\* A live page is never left without a connection to come: some socket is not at
\* its end yet or a timer is set, after any losses and any clicks.
NeverStranded == mode = "live" => timers > 0 \/ \E s \in DOMAIN sockets : sockets[s].state # "closed"

\* Once the page's socket has been served its frames bring the book to the
\* market's, over connections lost at any point: the old book goes with the
\* snapshot and no earlier socket writes into it any more.  (After retryLive two
\* sockets may feed the book, the later frame of the earlier market last.)
BookFollowsMarket ==
  mode = "live" /\ ~retried /\ sockets[Ws].state = "open" /\ sockets[Ws].served
    => FoldLeft(Applied, levels, sockets[Ws].frames) = market

\* No product is ready, that is shown as live and traded against, on updates
\* alone: handleL2's comment says "A product is ready only after a snapshot leaves
\* at least one bid and ask."
ReadyAfterSnapshot == ready => snapped

\* What a visitor relies on, live or with sample data, and in between.
PageKeepsUp == SampleStaysSample /\ NeverStranded /\ BookFollowsMarket
=============================================================================
