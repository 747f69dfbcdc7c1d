----------------------------- MODULE MCRedirects -----------------------------
(* Instances of Redirects for TLC: five nodes, all of one shard, the fewest  *)
(* with a chain that meets a node twice, or the third in a shard of its own. *)
EXTENDS Redirects, TLC

Nodes == 1 .. 5
OneShard == [n \in Node |-> "shard"]
ThirdApart == [n \in Node |-> IF n = 3 THEN "other" ELSE "shard"]
OneShardOrTwo == {OneShard, ThirdApart}

\* A dispatcher that prefers the second node, then the last one there is.
SecondOrLast ==
    [S \in (SUBSET Node) \ {{}} |->
        IF 2 \in S THEN 2 ELSE CHOOSE n \in S : \A m \in S : m <= n]
=============================================================================
