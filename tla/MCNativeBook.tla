---------------------------- MODULE MCNativeBook ----------------------------
(***************************************************************************)
(* Instances of NativeBook for TLC.                                        *)
(***************************************************************************)
EXTENDS NativeBook

\* Nothing in the book depends on which id an order has.
MCSymmetry == Permutations(Id)

=============================================================================
