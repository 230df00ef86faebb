------------------------------- MODULE Timing -------------------------------
(***************************************************************************)
(* queued_time_ms of src/bench/common.py: a launch is timed with events    *)
(* that are in the card's queue, behind a kernel that only waits, before   *)
(* the card reaches them.                                                  *)
(*                                                                         *)
(* The host takes its time to enqueue each command, the card executes its  *)
(* queue in order, and both go by the same clock, in ticks.  A launch is   *)
(* one or more kernels.                                                    *)
(***************************************************************************)
EXTENDS Naturals, Sequences

CONSTANTS
  SpinUs,       \* SPIN_US: how long the waiting kernel runs, at least
  SlowestClock, \* by how many ticks a slower card may lengthen it
  MaxKernels,   \* bound on the kernels of a launch
  MaxWork,      \* bound on the ticks of a kernel
  MaxDispatch   \* bound on the ticks the host needs to enqueue a command

ASSUME TimingAssumption ==
  SpinUs \in Nat /\ SlowestClock \in Nat /\ MaxKernels \in Nat /\ MaxWork \in Nat /\ MaxDispatch \in Nat

VARIABLES
  script,   \* what the host has still to enqueue: <<command, ticks of work>>
  dispatch, \* ticks until the command at the head of script is enqueued
  hostTime, \* ticks the host took for the commands after the waiting kernel
  queue,    \* the card's queue, of the same
  events,   \* when they were recorded: [start, end]
  ticks,    \* of the clock
  busy      \* ticks the card spent on the launch's own kernels

timingVars == <<script, dispatch, hostTime, queue, events, ticks, busy>>

-----------------------------------------------------------------------------

\* Mutant: the start event is enqueued first, as in event_time_ms.
StartFirst(spin, launches) == <<<<"start", 0>>, <<"spin", spin>>>> \o launches \o <<<<"end", 0>>>>

\* spin_wait, start.record, launch(), end.record.
QueuedTime(spin, launches) == <<<<"spin", spin>>, <<"start", 0>>>> \o launches \o <<<<"end", 0>>>>

\* spin_cycles, back in ticks at the card's rated clock.
Spin(us) == us

TimingInit ==
  /\ \E m \in 1 .. MaxKernels : \E work \in [1 .. m -> 1 .. MaxWork], late \in 0 .. SlowestClock :
       script = QueuedTime(Spin(SpinUs) + late, [k \in 1 .. m |-> <<"launch", work[k]>>])
  /\ dispatch = 0 /\ hostTime = 0 /\ queue = <<>>
  /\ events = [start |-> 0, end |-> 0] /\ ticks = 0 /\ busy = 0

\* What is at the head of the queue and takes no time is over: an event is recorded.
EventsAfter(q) == IF q # <<>> /\ q[1][1] \in {"start", "end"} THEN [events EXCEPT ![q[1][1]] = ticks] ELSE events

\* The host enqueues a command and turns to the next.
Enqueue ==
  /\ script # <<>> /\ dispatch = 0
  /\ queue' = Append(queue, Head(script)) /\ script' = Tail(script)
  /\ dispatch' \in IF script' = <<>> THEN {0} ELSE 0 .. MaxDispatch
  /\ hostTime' = hostTime + dispatch'
  /\ UNCHANGED <<events, ticks, busy>>

\* The card is through with the command at the head of its queue.
Complete ==
  /\ queue # <<>> /\ queue[1][2] = 0
  /\ events' = EventsAfter(queue)
  /\ queue' = Tail(queue)
  /\ UNCHANGED <<script, dispatch, hostTime, ticks, busy>>

\* A tick, when neither has anything to do at this moment.
Tick ==
  /\ script # <<>> => dispatch > 0
  /\ queue # <<>> => queue[1][2] > 0
  /\ script # <<>> \/ queue # <<>>
  /\ dispatch' = IF dispatch = 0 THEN 0 ELSE dispatch - 1
  /\ queue' = IF queue = <<>> THEN queue ELSE [queue EXCEPT ![1][2] = @ - 1]
  /\ ticks' = ticks + 1
  /\ busy' = IF queue # <<>> /\ queue[1][1] = "launch" THEN busy + 1 ELSE busy
  /\ UNCHANGED <<script, hostTime, events>>

TimingNext == Enqueue \/ Complete \/ Tick

TimingSpec == TimingInit /\ [][TimingNext]_timingVars

-----------------------------------------------------------------------------
(* Properties.                                                             *)

AllThrough == script = <<>> /\ queue = <<>>

\* "The events bracket only GPU execution": as long as the host has enqueued the
\* start event, the launch and the end event within the time the card is told to
\* wait, at whatever pace, what is measured is the time of the launch's kernels,
\* and neither the wait nor the host's time.
OnlyKernelsTimed == AllThrough /\ hostTime <= SpinUs => events.end - events.start = busy
=============================================================================
