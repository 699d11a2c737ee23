--------------------------- MODULE MCEmailOutbox ----------------------------
(***************************************************************************)
(* Instances of EmailOutbox for TLC.                                       *)
(***************************************************************************)
EXTENDS EmailOutbox, TLC

MCRows == 1..2
=============================================================================
