------------------------------- MODULE MCReading -------------------------------
(* An instance of Reading for TLC. *)
EXTENDS Reading, TLC

CONSTANTS f1, g1, g2, r1, r2

MCWants == (r1 :> {f1, Dir}) @@ (r2 :> {g1})

=============================================================================
