-------------------------- MODULE RecorderControl --------------------------
(***************************************************************************)
(* How a recorder is started, stopped and watched from other processes:    *)
(* record.py, poll_recorder.py, and run and should_stop of Recorder.       *)
(*                                                                         *)
(* The processes share three files: the pid file, the stop file and the    *)
(* sidecar.  Nothing keeps a second recorder from starting, a process may  *)
(* be killed at any point, and the pid of one that is gone may be given to *)
(* another program.  What a recorder records is module Recorder's.         *)
(***************************************************************************)
EXTENDS Naturals, FiniteSets

CONSTANTS
  NoFile,     \* the pid file or the sidecar that is not there
  Pid,        \* pids of recorders
  MaxStops    \* bound: stop commands

VARIABLES
  proc,       \* [Pid -> where the recorder is; "none", "ended", "killed" or "other program"]
  pidFile, stopFile,
  aliveField, \* the "alive" field of the sidecar
  stopper,    \* the stop command under way
  stops,
  stopAsked   \* history: [Pid -> a stop was asked for since it removed the stop file]

controlVars == <<proc, pidFile, stopFile, aliveField, stopper, stops, stopAsked>>

Running(p)  == proc[p] \in {"starting", "pid written", "running", "stopping"}
PidAlive(p) == Running(p) \/ proc[p] = "other program"

NoStopper == [at |-> "none", pid |-> NoFile]

-----------------------------------------------------------------------------
(* The recorder.                                                           *)

StartRecorder(p) ==
  /\ proc[p] = "none" /\ proc' = [proc EXCEPT ![p] = "starting"]
  /\ UNCHANGED <<pidFile, stopFile, aliveField, stopper, stops, stopAsked>>

WritePid(p) ==
  /\ proc[p] = "starting" /\ proc' = [proc EXCEPT ![p] = "pid written"]
  /\ pidFile' = p
  /\ UNCHANGED <<stopFile, aliveField, stopper, stops, stopAsked>>

\* Mutant: the stop file is left where it is.
BeginLoopOldStop(p) ==
  /\ proc[p] = "pid written" /\ proc' = [proc EXCEPT ![p] = "running"]
  /\ aliveField' = TRUE /\ stopAsked' = [stopAsked EXCEPT ![p] = FALSE]
  /\ UNCHANGED <<pidFile, stopFile, stopper, stops>>

\* An old stop file is removed, the first sidecar written.
BeginLoop(p) ==
  /\ proc[p] = "pid written" /\ proc' = [proc EXCEPT ![p] = "running"]
  /\ stopFile' = FALSE
  /\ aliveField' = TRUE /\ stopAsked' = [stopAsked EXCEPT ![p] = FALSE]
  /\ UNCHANGED <<pidFile, stopper, stops>>

RefreshSidecar(p) ==
  /\ proc[p] = "running" /\ aliveField' = TRUE
  /\ UNCHANGED <<proc, pidFile, stopFile, stopper, stops, stopAsked>>

\* The end of the loop: the stop file, the deadline, the target or the feed's end.
LeaveLoop(p) ==
  /\ proc[p] = "running" /\ proc' = [proc EXCEPT ![p] = "stopping"]
  /\ UNCHANGED <<pidFile, stopFile, aliveField, stopper, stops, stopAsked>>

\* Mutant: the last sidecar is an ordinary one.
EndStaysAlive(p) ==
  /\ proc[p] = "stopping" /\ proc' = [proc EXCEPT ![p] = "ended"]
  /\ aliveField' = TRUE
  /\ UNCHANGED <<pidFile, stopFile, stopper, stops, stopAsked>>

\* The finally of run; the pid file stays.
End(p) ==
  /\ proc[p] = "stopping" /\ proc' = [proc EXCEPT ![p] = "ended"]
  /\ aliveField' = FALSE
  /\ UNCHANGED <<pidFile, stopFile, stopper, stops, stopAsked>>

Kill(p) ==
  /\ Running(p) /\ proc' = [proc EXCEPT ![p] = "killed"]
  /\ UNCHANGED <<pidFile, stopFile, aliveField, stopper, stops, stopAsked>>

PidReused(p) ==
  /\ proc[p] \in {"ended", "killed"} /\ proc' = [proc EXCEPT ![p] = "other program"]
  /\ UNCHANGED <<pidFile, stopFile, aliveField, stopper, stops, stopAsked>>

-----------------------------------------------------------------------------
(* stop, from record.py --stop or from a poll that sees the target reached. *)

StopReadsPid ==
  /\ stopper.at = "none" /\ stops < MaxStops /\ stops' = stops + 1
  /\ IF pidFile # NoFile /\ PidAlive(pidFile)
     THEN stopper' = [at |-> "write", pid |-> pidFile] ELSE UNCHANGED stopper
  /\ UNCHANGED <<proc, pidFile, stopFile, aliveField, stopAsked>>

StopWritesFile ==
  /\ stopper.at = "write" /\ stopper' = [stopper EXCEPT !.at = "wait"]
  /\ stopFile' = TRUE /\ stopAsked' = [p \in Pid |-> TRUE]
  /\ UNCHANGED <<proc, pidFile, aliveField, stops>>

\* The pid is gone while it waits; the stop file stays.
StopSeesEnd ==
  /\ stopper.at = "wait" /\ ~PidAlive(stopper.pid) /\ stopper' = NoStopper
  /\ UNCHANGED <<proc, pidFile, stopFile, aliveField, stops, stopAsked>>

\* A minute is over: whatever has the pid is terminated; a recorder has no
\* handler for the signal.
StopForces ==
  /\ stopper.at = "wait" /\ PidAlive(stopper.pid) /\ stopper' = NoStopper
  /\ proc' = [proc EXCEPT ![stopper.pid] = "killed"]
  /\ UNCHANGED <<pidFile, stopFile, aliveField, stops, stopAsked>>

ControlInit ==
  /\ proc = [p \in Pid |-> "none"]
  /\ pidFile = NoFile /\ stopFile = FALSE /\ aliveField = NoFile
  /\ stopper = NoStopper /\ stops = 0
  /\ stopAsked = [p \in Pid |-> FALSE]

ControlNext ==
  \/ \E p \in Pid : \/ StartRecorder(p) \/ WritePid(p) \/ BeginLoop(p) \/ RefreshSidecar(p)
                    \/ LeaveLoop(p) \/ End(p) \/ Kill(p) \/ PidReused(p)
  \/ StopReadsPid \/ StopWritesFile \/ StopSeesEnd \/ StopForces

ControlSpec == ControlInit /\ [][ControlNext]_controlVars

-----------------------------------------------------------------------------
(* Properties.                                                             *)

\* A stop file that an earlier stop left behind stops no recorder: what a recorder
\* stops for was asked for since it began, with whatever starts, kills and stops
\* before.  (The file is in the way of no later start; nobody else removes it.)
OldStopForgotten == \A p \in Pid : proc[p] = "running" /\ stopFile => stopAsked[p]

\* When every recorder has come to its own end the sidecar says so, also when two
\* ran at one time: none writes "alive" after its last sidecar.
SidecarTellsEnd ==
  (\E p \in Pid : proc[p] = "ended") /\ (\A p \in Pid : proc[p] \in {"none", "ended"})
    => aliveField = FALSE

\* The two files by which processes talk are never taken for those of an earlier
\* recorder.
FilesAreCurrent == OldStopForgotten /\ SidecarTellsEnd
=============================================================================
