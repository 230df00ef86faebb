------------------------------ MODULE BenchRun ------------------------------
(***************************************************************************)
(* Runs of src/bench/run_all.py into one results directory: metrics.json   *)
(* as kept by Bench of src/bench/common.py, the sections one after         *)
(* another, the list of errors, the time budget, and the C++ benchmark in  *)
(* a child process with a metrics.json of its own.                         *)
(*                                                                         *)
(* A run may be killed at any step, a later one takes up the file the      *)
(* earlier ones left.  A measurement is the number of the run that made    *)
(* it; a section module saves what it has whenever it likes (complete      *)
(* FALSE) and saves all of it before it returns.  metrics.json is replaced *)
(* in one step.                                                            *)
(***************************************************************************)
EXTENDS Python, Naturals, Sequences, SequencesExt, FiniteSets

CONSTANTS
  Section,  \* the GPU sections
  MaxRuns   \* bound: runs of run_all

ASSUME BenchRunAssumption ==
  /\ IsFiniteSet(Section)
  /\ None \notin Nat /\ None \notin [by : Nat, complete : BOOLEAN]

Engine == "engine"
Native == "native_engine"
All == Section \cup {Engine, Native}

VARIABLES
  run,        \* the number of the run under way or last
  file,       \* metrics.json
  mem,        \* bench.metrics
  todo,       \* the sections still to run, in order
  at,         \* "idle", "made", "sections"
  childFile   \* native_engine/metrics.json: the run that wrote it, or None

benchRunVars == <<run, file, mem, todo, at, childFile>>

Empty == [by |-> 0, requested |-> {}, finished |-> FALSE,
          sections |-> [s \in All |-> None], errors |-> {}]

\* Bench.save: a temporary file that replaces metrics.json.
Save(metrics) == mem' = metrics /\ file' = metrics

Measured(complete) == [by |-> run, complete |-> complete]

\* Bench.__init__ takes up what the file has.  (A run whose --source is not that of
\* its archive exits here and changes nothing.)
Loaded == file

Start ==
  /\ at = "idle" /\ run < MaxRuns
  /\ run' = run + 1
  /\ Save(Loaded)
  /\ at' = "made"
  /\ UNCHANGED <<todo, childFile>>

ClearAllErrors(requested) == {}

\* Errors of sections that are not run again stay.
KeptErrors(requested) == mem.errors \ requested

\* The sections that come after those on the GPU.
EngineSections(requested) ==
  (IF Engine \in requested THEN <<Engine>> ELSE <<>>) \o (IF Native \in requested THEN <<Native>> ELSE <<>>)

\* main up to the loop.
Request(requested) ==
  /\ at = "made"
  /\ Save([mem EXCEPT !.by = run, !.requested = requested, !.finished = FALSE,
                      !.errors = KeptErrors(requested)])
  /\ todo' = SetToSeq(requested \cap Section) \o EngineSections(requested)
  /\ at' = "sections"
  /\ UNCHANGED <<run, childFile>>

InSections(s) == at = "sections" /\ todo # <<>> /\ Head(todo) = s

\* bench.section, called by the module of a section.
SaveSection(s, complete) ==
  /\ InSections(s) /\ s \in Section
  /\ mem.sections[s] # Measured(TRUE)
  /\ Save([mem EXCEPT !.sections[s] = Measured(complete)])
  /\ UNCHANGED <<run, todo, at, childFile>>

\* run_section: the module returns, or anything it raises is recorded; it is
\* not started any more when the time is up.
SectionReturns(s) ==
  /\ InSections(s) /\ mem.sections[s] = Measured(TRUE)
  /\ Save(mem)
  /\ todo' = Tail(todo)
  /\ UNCHANGED <<run, at, childFile>>

DropError(s) == mem.errors

Recorded(s) == mem.errors \cup {s}

SectionFails(s) ==
  /\ InSections(s) /\ s \in Section
  /\ Save([mem EXCEPT !.errors = Recorded(s)])
  /\ todo' = Tail(todo)
  /\ UNCHANGED <<run, at, childFile>>

\* run_engine: scripts/benchmark.py in a child process, else the built-in
\* equivalent in another, else an error.
RunEngine ==
  /\ InSections(Engine)
  /\ \E measured \in BOOLEAN :
       Save(IF measured THEN [mem EXCEPT !.sections[Engine] = Measured(TRUE)]
                        ELSE [mem EXCEPT !.errors = Recorded(Engine)])
  /\ todo' = Tail(todo)
  /\ UNCHANGED <<run, at, childFile>>

\* run_native_engine: the child may die before it writes its file; the exit code
\* is not looked at before the file is.
RunNative(written) ==
  /\ InSections(Native)
  /\ childFile' = IF written THEN run ELSE childFile
  /\ Save(IF childFile' = None THEN [mem EXCEPT !.errors = Recorded(Native)]
          ELSE [mem EXCEPT !.sections[Native] = [by |-> childFile', complete |-> TRUE]])
  /\ todo' = Tail(todo)
  /\ UNCHANGED <<run, at>>

Finish ==
  /\ at = "sections" /\ todo = <<>>
  /\ Save([mem EXCEPT !.finished = TRUE])
  /\ at' = "idle"
  /\ UNCHANGED <<run, todo, childFile>>

Kill ==
  /\ at # "idle"
  /\ at' = "idle" /\ todo' = <<>>
  /\ UNCHANGED <<run, file, mem, childFile>>

BenchRunInit == /\ run = 0 /\ file = Empty /\ mem = Empty
        /\ todo = <<>> /\ at = "idle" /\ childFile = None

BenchRunNext ==
  \/ Start
  \/ \E requested \in SUBSET All : Request(requested)
  \/ \E s \in Section : SectionReturns(s) \/ SectionFails(s)
                        \/ \E complete \in BOOLEAN : SaveSection(s, complete)
  \/ RunEngine
  \/ \E written \in BOOLEAN : RunNative(written)
  \/ Finish \/ Kill

BenchRunSpec == BenchRunInit /\ [][BenchRunNext]_benchRunVars

-----------------------------------------------------------------------------
(* Properties.                                                             *)

Fresh(s) == file.sections[s] # None /\ file.sections[s].by = file.by

\* Once a run is marked finished, every section it was asked for is complete and
\* measured by that run, or is in the list of errors: also after runs before it
\* were killed or failed, and whatever they left in the file.
FinishedAccounts ==
  file.finished /\ at = "idle" =>
    \A s \in file.requested \ {Native} :
      (Fresh(s) /\ file.sections[s].complete) \/ s \in file.errors

\* What a run saved is never lost: a section in the file is only ever replaced by
\* a later measurement of a run that was asked for it, and the error of a section
\* only goes away with a run that is asked for it again.
LosesNothing ==
  /\ \A s \in All : file.sections[s] # None /\ file'.sections[s] # file.sections[s] =>
       s \in file'.requested /\ file'.sections[s] # None
  /\ \A s \in file.errors \ file'.errors : s \in file'.requested

NothingLost == [][LosesNothing]_benchRunVars

\* The C++ section of a finished run is what benchmark_native.py measured in that
\* run.
NativeIsOfThisRun ==
  file.finished /\ at = "idle" /\ Native \in file.requested => Fresh(Native) \/ Native \in file.errors
=============================================================================
