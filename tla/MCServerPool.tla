----------------------------- MODULE MCServerPool -----------------------------
(* An instance of ServerPool for TLC. *)
EXTENDS ServerPool, TLC
=============================================================================
