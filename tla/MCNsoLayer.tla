---------------------------- MODULE MCNsoLayer ----------------------------
(* The NSO layer with a few application threads. *)
EXTENDS NsoLayer, TLC

CONSTANTS r1, r2, s1, p1, p2

TwoReceivers == Permutations({r1, r2}) \cup Permutations({p1, p2})
=============================================================================
