------------------------------- MODULE Python -------------------------------
(***************************************************************************)
(* What the modules of the Python programs share.                          *)
(***************************************************************************)

CONSTANT None  \* no number, no name, no record
=============================================================================
