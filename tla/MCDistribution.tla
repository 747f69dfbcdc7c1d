---------------------------- MODULE MCDistribution ----------------------------
(* Instances of Distribution for TLC: a directory in a directory, and a file *)
(* in each.                                                                  *)
EXTENDS Distribution, TLC

TwoNodes == {1, 2}
ThreeNodes == {1, 2, 3}
Outer == "/a"
Inner == "/a/b"
Directories == {Outer, Inner}
Files == {"/a/f", "/a/b/g"}
OneFile == {"/a/b/g"}
Slash == "/"
ParentOf ==
    [p \in Path |-> CASE p = Outer -> Slash
                      [] p \in {Inner, "/a/f"} -> Outer
                      [] p = "/a/b/g" -> Inner]

\* One file is with its directory; creating the other paths needs recoveries in
\* both directions.
Crosswise ==
    [S \in (SUBSET Node) \ {{}} |->
        [p \in Path |-> IF S # TwoNodes THEN CHOOSE n \in S : TRUE
                        ELSE IF p = Inner THEN 2 ELSE 1]]

\* A third node takes over the outer directory and nothing else.
WithThird ==
    [S \in (SUBSET Node) \ {{}} |->
        [p \in Path |-> IF p = Outer /\ 3 \in S THEN 3
                        ELSE IF p = Inner /\ 2 \in S THEN 2
                        ELSE CHOOSE n \in S : \A m \in S : n <= m]]

Interchangeable == Permutations(Request)
=============================================================================
