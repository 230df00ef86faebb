---------------------------- MODULE MCOrderBook ----------------------------
(***************************************************************************)
(* Instances for TLC of the indexed order book and of the two indexes that *)
(* replace its dicts in C++, the bitmap over the slots of a window and the *)
(* map from ids to orders.  NativeBook uses them by what they promise, so  *)
(* they run apart: a behaviour is that of one of the three, chosen in its  *)
(* initial state.                                                          *)
(*                                                                         *)
(* The bitmap has fourteen slots in words of two bits, so that the summary *)
(* has four words, the last of them partly used.  The map grows from four  *)
(* slots to eight, which four ids fill by half.                            *)
(***************************************************************************)
EXTENDS OrderBook, Bitmap, IdMap

VARIABLE section

allVars == <<section, vars, bitmapVars, mapVars>>

MCInit ==
  /\ section \in {"book", "bitmap", "map"}
  /\ Init /\ BitmapInit /\ MapInit
  /\ section # "map" => hash = [id \in OrderId |-> 0]

BookStep   == section = "book" /\ Next /\ UNCHANGED <<section, bitmapVars, mapVars>>
BitmapStep == section = "bitmap" /\ BitmapNext /\ UNCHANGED <<section, vars, mapVars>>
MapStep    == section = "map" /\ MapNext /\ UNCHANGED <<section, vars, bitmapVars>>

\* With the fairness of OrderBook, whose actions nothing enables elsewhere.
MCSpec == MCInit /\ [][BookStep \/ BitmapStep \/ MapStep]_allVars /\ Fairness

=============================================================================
