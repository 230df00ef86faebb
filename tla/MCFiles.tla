------------------------------ MODULE MCFiles ------------------------------
(***************************************************************************)
(* Instances for TLC of Recorder and of two parts that meet others only in *)
(* files: recorders and the commands that stop them, and the commands that *)
(* push remote jobs and take up each other's.  A behaviour is that of one  *)
(* of the three, chosen in its initial state.                              *)
(*                                                                         *)
(* Events for Recorder: a full and a one-sided snapshot, an update that    *)
(* crosses the book, one below the top and one that removes a level.       *)
(***************************************************************************)
EXTENDS Recorder, RecorderControl, RemoteJob

MCEvent ==
  {[type |-> "snapshot", updates |-> << "bid", 1 >> :> 1 @@ << "offer", 2 >> :> 1],
   [type |-> "snapshot", updates |-> << "offer", 2 >> :> 1],
   [type |-> "update",   updates |-> << "bid", 2 >> :> 1],
   [type |-> "update",   updates |-> << "bid", 1 >> :> 0]}

VARIABLE section

MCInit == section \in {"recorder", "control", "remote"} /\ Init /\ ControlInit /\ JobInit

RecorderStep  == section = "recorder" /\ Next /\ UNCHANGED <<section, controlVars, jobVars>>
ControlStep   == section = "control" /\ ControlNext /\ UNCHANGED <<section, vars, jobVars>>
RemoteJobStep == section = "remote" /\ JobNext /\ UNCHANGED <<section, vars, controlVars>>

MCSpec == MCInit /\ [][RecorderStep \/ ControlStep \/ RemoteJobStep]_<<section, vars, controlVars, jobVars>>

=============================================================================
