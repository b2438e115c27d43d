---------------------------- MODULE MCDataPlane ----------------------------
(* DataPlane with one device. *)
EXTENDS DataPlane
=============================================================================
