------------------------------- MODULE MCGpu -------------------------------
(***************************************************************************)
(* Instances of Lookback, Pipeline and Slippage for TLC.  A benchmark      *)
(* process runs one section after another, the sections share no state: a  *)
(* behaviour is that of one section, chosen in its initial state.          *)
(*                                                                         *)
(* Lookback: four tiles and warps of two lanes, so that the last tile      *)
(* looks through two windows.  Pipeline: six chunks through two buffers,   *)
(* int16 blocks larger than int32 ones.  Slippage: three levels on two     *)
(* lanes, all books with sizes 0 to 2, and targets at, below and above     *)
(* what a level has.                                                       *)
(***************************************************************************)
EXTENDS Lookback, Pipeline, Slippage

\* Sums of different sets of tiles differ, in one input and between the two.
MCTileSum ==
  [first  |-> [t \in Tile |-> 2 ^ t],
   second |-> [t \in Tile |-> 100 * 2 ^ t]]

MCPrefix ==
  [first  |-> [t \in 0..NumTiles |-> 2 ^ t - 1],
   second |-> [t \in 0..NumTiles |-> 100 * (2 ^ t - 1)]]

MCBlock32 == [c \in 0..K-1 |-> 4]
MCBlock16 == [c \in 0..K-1 |-> 5]

MCPrice == <<2, 3, 4>>
MCTarget == <<2, 4, 5, 9>>

VARIABLE section

EmptyBook == [l \in 1..Levels |-> [px |-> 0, sz |-> 0]]

MCInit ==
  /\ section \in {"scans", "pipeline", "slippage"}
  /\ Init /\ (section # "scans" => input = "first")
  /\ PipelineInit
  /\ SlippageInit /\ (section # "slippage" => \A s \in Side : snapshot[s] = EmptyBook)

Scans == section = "scans" /\ Next /\ UNCHANGED <<section, pipelineVars, slippageVars>>
Pipes == section = "pipeline" /\ PipelineNext /\ UNCHANGED <<section, vars, slippageVars>>
Costs == section = "slippage" /\ SlippageNext /\ UNCHANGED <<section, vars, pipelineVars>>

\* The fairness of Lookback.
MCFairness ==
  /\ \A b \in Block : /\ WF_vars(section = "scans" /\ Step(b))
                      /\ \A l \in Lane : WF_vars(section = "scans" /\ Look(b, l))
  /\ WF_vars(section = "scans" /\ \E b \in Block : StartBlock(b))

MCSpec ==
  MCInit /\ [][Scans \/ Pipes \/ Costs]_<<section, vars, pipelineVars, slippageVars>> /\ MCFairness

\* In a process that runs scans every launch ends, whatever order the blocks are
\* started in (EveryScanEnds of Lookback).
EveryLaunchEnds == section = "scans" => EveryScanEnds
=============================================================================
