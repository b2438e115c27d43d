-------------------------- MODULE MCTopologyGraph --------------------------
(* TopologyGraph on small instances. *)
EXTENDS TopologyGraph, TLC

Symmetry == Permutations(ID)
=============================================================================
