----------------------------- MODULE RemoteJob -----------------------------
(***************************************************************************)
(* Jobs on a remote GPU: push, wait, pull, run and the ledger of           *)
(* src/remote/kaggle.py, the bootstrap of src/remote/base.py and the       *)
(* checks of src/remote/jobs/bench_all.py.                                 *)
(*                                                                         *)
(* A command pushes a version of the Kaggle kernel of one job, polls it,   *)
(* pulls its output into results/<run id> and keeps remote/quota.json.     *)
(* One command runs at a time; it may be interrupted between any two       *)
(* steps, and `wait` and `pull` take any earlier run up again.  Kaggle     *)
(* queues a version, gives it some card, kills it at its time limit, and   *)
(* answers status and output of the version pushed last.                   *)
(*                                                                         *)
(* Time is in minutes.  The datasets, the quota report, the scrubbing of   *)
(* credentials, the checkout of the code and what the job prints are left  *)
(* out.                                                                    *)
(***************************************************************************)
EXTENDS Python, Naturals, FiniteSetsExt

CONSTANTS
  MaxPushes,    \* bound: versions pushed
  MaxMinutes,   \* bound: the clock
  MaxInterrupts,\* bound: commands interrupted
  Timeout,      \* timeout_minutes of a job
  MaxWait,      \* max_minutes of one wait
  Attempts,     \* pushes of one run command
  Budget        \* budget_gpu_hours, in minutes

ASSUME JobAssumption == MaxPushes \in Nat

Version == 1..MaxPushes

VARIABLES
  minute,
  pushed,    \* versions pushed: run ids are given in this order
  remote,    \* [Run -> the version on Kaggle]
  ledger,    \* [Run -> its row in quota.json]
  results,   \* [Run -> the run whose bundle is in results/<run id>, or None]
  command,   \* the command under way
  interrupts

jobVars == <<minute, pushed, remote, ledger, results, command, interrupts>>

Terminal == {"complete", "error"}

\* The archive attached to a version: the one the caller means, another one with the
\* same source label (an earlier or a later version of the dataset), or one of the other
\* label or none at all.
Archives == {"right", "same label", "other label"}

\* A version: its state, its card, its archive, whether it was pushed with the content
\* hash of the archive (--archive-hash is None by default), and the minutes it used.
NotPushed == [state |-> "none", card |-> None, archive |-> None, hashed |-> FALSE, used |-> 0]

\* The fields of a row that the runner reads again.
NoRow == [pushed_at |-> None, running_at |-> None, gpu_minutes |-> None]

NoCommand == [at |-> "idle", run |-> 0, attempt |-> 0, t0 |-> 0, started |-> None, log |-> None]

CommandAt(label) == command.at = label
CommandTo(label) == command' = IF label = "idle" THEN NoCommand ELSE [command EXCEPT !.at = label]

-----------------------------------------------------------------------------
(* The ledger.                                                             *)

\* ledger_update: a new row for a run that has none.
LedgerUpdate(r, fields) ==
  ledger' = [ledger EXCEPT ![r] =
              [f \in DOMAIN NoRow |-> IF f \in DOMAIN fields THEN fields[f] ELSE ledger[r][f]]]

\* gpu_hours_used_estimate: a row with no minutes yet counts nothing.
MinutesUsed ==
  MapThenSumSet(LAMBDA r : IF ledger[r].gpu_minutes = None THEN 0 ELSE ledger[r].gpu_minutes, Version)

\* budget_guard: the minutes the ledger has, and the whole time of the new job.
BudgetAllows == MinutesUsed + Timeout <= Budget

-----------------------------------------------------------------------------
(* The commands.                                                           *)

\* push, to the end of `kaggle kernels push`: the guard, then a new version.
PushVersion(attempt, hashed) ==
  /\ BudgetAllows /\ pushed < MaxPushes
  /\ pushed' = pushed + 1
  /\ remote' = [remote EXCEPT ![pushed + 1].state = "queued", ![pushed + 1].hashed = hashed]
  /\ command' = [NoCommand EXCEPT !.at = "record push", !.run = pushed + 1, !.attempt = attempt]
  /\ UNCHANGED <<minute, ledger, results, interrupts>>

\* kaggle run has attempt 1; kaggle run --no-wait, and wait and pull, have none.
RunCommand == CommandAt("idle") /\ \E attempt \in {0, 1}, hashed \in BOOLEAN : PushVersion(attempt, hashed)

WaitCommand ==
  /\ CommandAt("idle")
  /\ \E r \in 1..pushed, label \in {"begin wait", "pull"} :
       command' = [NoCommand EXCEPT !.at = label, !.run = r]
  /\ UNCHANGED <<minute, pushed, remote, ledger, results, interrupts>>

RecordPush ==
  /\ CommandAt("record push")
  /\ LedgerUpdate(command.run, [pushed_at |-> minute])
  /\ CommandTo(IF command.attempt = 0 THEN "idle" ELSE "begin wait")
  /\ UNCHANGED <<minute, pushed, remote, results, interrupts>>

ForgetStart(r) == None

\* The time the job was first seen running, from the ledger.
KnownStart(r) == ledger[r].running_at

BeginWait ==
  /\ CommandAt("begin wait")
  /\ command' = [command EXCEPT !.at = "poll", !.t0 = minute, !.started = KnownStart(command.run)]
  /\ UNCHANGED <<minute, pushed, remote, ledger, results, interrupts>>

\* status asks for the kernel of the job, so the version pushed last answers.
JobStatus == remote[pushed].state

InTime == minute - command.t0 < MaxWait

SeeRunning ==
  /\ CommandAt("poll") /\ InTime /\ JobStatus = "running" /\ command.started = None
  /\ LedgerUpdate(command.run, [running_at |-> minute])
  /\ command' = [command EXCEPT !.started = minute]
  /\ UNCHANGED <<minute, pushed, remote, results, interrupts>>

\* First seen running, else pushed, else the start of this wait.
CountFrom ==
  IF command.started # None THEN command.started
  ELSE IF ledger[command.run].pushed_at # None THEN ledger[command.run].pushed_at
  ELSE command.t0

SeeTerminal ==
  /\ CommandAt("poll") /\ InTime /\ JobStatus \in Terminal
  /\ LedgerUpdate(command.run, [gpu_minutes |-> minute - CountFrom])
  /\ CommandTo("pull")
  /\ UNCHANGED <<minute, pushed, remote, results, interrupts>>

\* run goes on to pull, a wait command ends.
GiveUpWaiting ==
  /\ CommandAt("poll") /\ ~InTime
  /\ CommandTo(IF command.attempt = 0 THEN "idle" ELSE "pull")
  /\ UNCHANGED <<minute, pushed, remote, ledger, results, interrupts>>

\* The bootstrap's check.
CardPasses(k) == k.card = "T4"

\* The body's checks: the content hash if the job was pushed with one, then the label.
ArchivePasses(k) == (k.hashed => k.archive = "right") /\ k.archive \in {"right", "same label"}

\* The first check that fails ends the job.
Checks(k) == IF ~CardPasses(k) THEN "wrong card" ELSE IF ~ArchivePasses(k) THEN "wrong archive" ELSE "go"

\* What the log of a version that ended says of its checks.
JobLog(k) == IF k.state \in Terminal THEN Checks(k) ELSE None

AnyMember(r, bundleOf) == TRUE

\* The members extracted from a bundle are those under the run's own id.
OwnMembers(r, bundleOf) == bundleOf = r

\* pull: the output of the version pushed last, into results/<run id>.
Pull ==
  /\ CommandAt("pull")
  /\ results' = [results EXCEPT ![command.run] =
       IF remote[pushed].state = "complete" /\ OwnMembers(command.run, pushed) THEN pushed ELSE @]
  /\ command' = IF command.attempt = 0 THEN NoCommand
                ELSE [command EXCEPT !.at = "check card", !.log = JobLog(remote[pushed])]
  /\ UNCHANGED <<minute, pushed, remote, ledger, interrupts>>

\* aborted_wrong_card: a job that aborts leaves no bundle and no manifest, only
\* the log can say so.  run pushes again, or gives up.
CheckCard ==
  /\ CommandAt("check card")
  /\ CommandTo(IF command.log = "wrong card" /\ command.attempt < Attempts THEN "push again" ELSE "idle")
  /\ UNCHANGED <<minute, pushed, remote, ledger, results, interrupts>>

\* The job pushed again is the same, with the same hash.
PushAgain == CommandAt("push again") /\ PushVersion(command.attempt + 1, remote[command.run].hashed)

\* The guard refuses and the command exits, or someone interrupts it.
StopCommand ==
  /\ ~CommandAt("idle")
  /\ \/ CommandAt("push again") /\ ~(BudgetAllows /\ pushed < MaxPushes) /\ UNCHANGED interrupts
     \/ interrupts < MaxInterrupts /\ interrupts' = interrupts + 1
  /\ command' = NoCommand
  /\ UNCHANGED <<minute, pushed, remote, ledger, results>>

-----------------------------------------------------------------------------
(* Kaggle and the job.                                                     *)

NotRemote == <<minute, pushed, ledger, results, command, interrupts>>

StartKernel(r) ==
  /\ remote[r].state = "queued"
  /\ \E card \in {"T4", "P100"}, archive \in Archives :
       /\ card = "P100" => archive = "right"   \* the card is checked first
       /\ remote' = [remote EXCEPT ![r].state = "running", ![r].card = card, ![r].archive = archive]
  /\ UNCHANGED NotRemote

\* sys.exit at a failed check leaves no bundle; else the body, the manifest and
\* the bundle follow, unless the script raises or its time is up.
EndKernel(r) ==
  /\ remote[r].state = "running"
  /\ \E state \in IF Checks(remote[r]) = "go" THEN Terminal ELSE {"error"} :
       remote' = [remote EXCEPT ![r].state = state]
  /\ UNCHANGED NotRemote

JobTick ==
  /\ minute < MaxMinutes
  /\ \A r \in Version : remote[r].state = "running" => remote[r].used < Timeout
  /\ minute' = minute + 1
  /\ remote' = [r \in Version |-> IF remote[r].state = "running"
                                THEN [remote[r] EXCEPT !.used = @ + 1] ELSE remote[r]]
  /\ UNCHANGED <<pushed, ledger, results, command, interrupts>>

JobInit ==
  /\ minute = 0 /\ pushed = 0 /\ interrupts = 0
  /\ remote = [r \in Version |-> NotPushed]
  /\ ledger = [r \in Version |-> NoRow]
  /\ results = [r \in Version |-> None]
  /\ command = NoCommand

CommandStep == \/ RunCommand \/ WaitCommand \/ RecordPush \/ BeginWait \/ SeeRunning
           \/ SeeTerminal \/ GiveUpWaiting \/ Pull \/ CheckCard \/ PushAgain \/ StopCommand

JobNext == CommandStep \/ JobTick \/ \E r \in Version : StartKernel(r) \/ EndKernel(r)

JobSpec == JobInit /\ [][JobNext]_jobVars

-----------------------------------------------------------------------------
(* Properties.                                                             *)

\* The measurements in results/<run id> are those of that run, not of the version
\* that replaced it on Kaggle, and not of a job that should have aborted: they are of a
\* T4 and of an archive with the label of the job, and of the very archive whose
\* content hash was given where one was given, to the first push or to one again.
ResultsVouched ==
  \A r \in Version : results[r] # None =>
    /\ results[r] = r
    /\ remote[r].card = "T4" /\ remote[r].archive # "other label"
    /\ remote[r].hashed => remote[r].archive = "right"

\* The minutes of a run count from the first poll that saw it running, in however
\* many waits and after however many interruptions: the ledger keeps that time,
\* and no wait counts from its own start.
CountsFromFirstSight ==
  \A r \in Version : ledger[r].running_at # None =>
    /\ ledger'[r].running_at = ledger[r].running_at
    /\ ledger'[r].gpu_minutes # ledger[r].gpu_minutes =>
         ledger'[r].gpu_minutes = minute - ledger[r].running_at

MinutesFromFirstSight == [][CountsFromFirstSight]_jobVars

\* Every run that was pushed counts against the budget: what the cards have been
\* used for stays inside it.
BudgetHeld == MapThenSumSet(LAMBDA r : remote[r].used, Version) <= Budget
=============================================================================
