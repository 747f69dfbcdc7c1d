------------------------------ MODULE MCTopology ------------------------------
(* An instance of Topology for TLC. *)
EXTENDS Topology, TLC

=============================================================================
