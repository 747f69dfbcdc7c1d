--------------------------- MODULE MCWriteContainer ---------------------------
(* Instances of WriteContainer for TLC. *)
EXTENDS WriteContainer, TLC

\* Below ten containers their names are listed in the order of their numbers.
ListedByNumber == [n \in Number |-> n]

\* The workers of the pool are interchangeable.
Interchangeable == Permutations(Worker)
=============================================================================
