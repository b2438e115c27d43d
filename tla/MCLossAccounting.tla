-------------------------- MODULE MCLossAccounting --------------------------
(* The power meter's accounting with a counter of a few values. *)
EXTENDS LossAccounting, TLC
=============================================================================
