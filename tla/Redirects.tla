------------------------------ MODULE Redirects ------------------------------
(***************************************************************************)
(* A read of one regular file through package http's servers.  A node that *)
(* does not list the file sends the client to the node the dispatcher      *)
(* makes responsible for it; a node that lists the file but lacks its tar  *)
(* sends the client to the node that wrote it or to another of its shard.  *)
(* The nodes already visited travel in the URL as traversed-node.          *)
(* Where index and tar files are is arbitrary: they are copied and moved   *)
(* by hand (the repository's tests do) or by replication yet to be written.*)
(***************************************************************************)
EXTENDS Naturals, Sequences, FiniteSets

CONSTANTS
    Node,           \* node names: naturals, in the order of the strings
    Shards,         \* configurations: functions from nodes to their shards
    Maglev,         \* the dispatcher: set of backends -> node for the file
    MaxRequests,    \* requests that net/http's client sends for one read
    MaxChanges,     \* bound: changes of the topology the nodes see
    MaxChanged,     \* bound: nodes that come or go in one of them
    None            \* no node

ASSUME NodeAssumption == Node \subseteq Nat /\ IsFiniteSet(Node) /\ None \notin Node
ASSUME ShardAssumption == \A S \in Shards : DOMAIN S = Node
ASSUME MaglevAssumption ==
    /\ DOMAIN Maglev = (SUBSET Node) \ {{}}
    /\ \A S \in DOMAIN Maglev : Maglev[S] \in S
ASSUME BoundAssumption == MaxRequests \in Nat /\ MaxChanges \in Nat /\ MaxChanged \in Nat

VARIABLES
    shard,          \* config: shard of each node
    writer,         \* node that created the file
    holding,        \* nodes with the tar, and the index or none
    indexed,        \* nodes with a copy of the index alone
    nodes,          \* the others that each node's topology client knows
    changes,        \* number of changes of nodes so far
    calm,           \* has nodes been the same since the request was sent?
    pc,             \* the client: where the read is
    at,             \* node that serves the request, or will
    traversed       \* the query's traversed-node values

placement == <<shard, writer, indexed, holding>>
topology == <<nodes, changes, calm>>
vars == <<placement, topology, pc, at, traversed>>

Answer == {"data", "notFound", "noData", "unreachable"}

Init ==
    /\ shard \in Shards
    /\ writer \in Node /\ holding \in SUBSET Node /\ indexed \in SUBSET (Node \ holding)
    /\ nodes = [n \in Node |-> Node \ {n}]
    /\ changes = 0 /\ calm = TRUE
    /\ pc = "idle" /\ at = None /\ traversed = <<>>

-----------------------------------------------------------------------------
(* What a node knows.                                                       *)

\* A container without an index is searched by reading its tar.
Lists(n) == n \in indexed \cup holding

\* The dispatcher has every node of the list, the client's map not its own.
GetNodeForObject(n) ==
    LET name == Maglev[nodes[n] \cup {n}]
    IN  IF name \in nodes[n] THEN name ELSE None

\* sort.SearchStrings: binary search for where x is or would be inserted, in
\* a list that it takes to be sorted; a range has positions from 0, as in Go.
Middle(r) == (r[1] + r[2]) \div 2
SearchStrings(a, x) ==
    LET search[r \in (0 .. Len(a)) \X (0 .. Len(a))] ==
            IF r[1] >= r[2] THEN r[1]
            ELSE IF a[Middle(r) + 1] >= x THEN search[<<r[1], Middle(r)>>]
                 ELSE search[<<Middle(r) + 1, r[2]>>]
    IN  search[<<0, Len(a)>>]

\* Mutant: the query's nodes are not appended.
TraversedNodesNoQuery == <<at>>

TraversedNodes == <<at>> \o traversed

NodeAlreadyTraversed(n) ==
    SearchStrings(TraversedNodes, n) # Len(TraversedNodes)

\* Mutant: the shard to look in is the node's own.
OthersInOwnShard ==
    {n \in nodes[at] : shard[n] = shard[at] /\ ~NodeAlreadyTraversed(n)}

\* Mutant: the first node of the shard, asked already or not.
FirstInShard ==
    {n \in nodes[at] : /\ shard[n] = shard[writer]
                       /\ \A m \in nodes[at] : shard[m] = shard[n] => n <= m}

\* The nodes a map iteration may meet first.
OthersInShard ==
    {n \in nodes[at] : shard[n] = shard[writer] /\ ~NodeAlreadyTraversed(n)}

-----------------------------------------------------------------------------
(* The client, and the node that serves its request.                        *)

Send(n) ==
    /\ pc = "idle"
    /\ pc' = "serving" /\ at' = n
    /\ UNCHANGED <<placement, topology, traversed>>

Reply(a) ==
    /\ pc' = a
    /\ UNCHANGED <<placement, topology, at, traversed>>

\* The Location leads the client to n, at gone into the query.
RedirectToNode(n) ==
    /\ pc' = "redirected"
    /\ at' = n
    /\ traversed' = Append(traversed, at)
    /\ UNCHANGED <<placement, topology>>

DistributeRequest ==
    /\ pc = "serving" /\ ~Lists(at)
    /\ traversed = <<>> /\ GetNodeForObject(at) # None
    /\ RedirectToNode(GetNodeForObject(at))

\* Mutant: only a node that the topology does not know answers 404.
NotFoundAtOnce ==
    /\ pc = "serving" /\ ~Lists(at)
    /\ Reply("notFound")

NotFound ==
    /\ pc = "serving" /\ ~Lists(at)
    /\ traversed # <<>> \/ GetNodeForObject(at) = None
    /\ Reply("notFound")

ReturnData ==
    /\ pc = "serving" /\ at \in holding
    /\ Reply("data")

\* tryRedirectToNode, once the tar could not be opened.
LacksData == pc = "serving" /\ at \in indexed
WriterOnline == writer \in nodes[at] /\ ~NodeAlreadyTraversed(writer)

RedirectToWriter ==
    /\ LacksData /\ WriterOnline
    /\ RedirectToNode(writer)

RedirectInShard ==
    /\ LacksData /\ ~WriterOnline
    /\ \E n \in OthersInShard : RedirectToNode(n)

NoData ==
    /\ LacksData /\ ~WriterOnline /\ OthersInShard = {}
    /\ Reply("noData")

\* The client goes on as long as it is redirected (see RedirectsEndInTime).
Follow ==
    /\ pc = "redirected"
    /\ pc' = "serving"
    /\ UNCHANGED <<placement, topology, at, traversed>>

\* The node is known, but not there any more.
FollowFails ==
    /\ pc = "redirected"
    /\ Reply("unreachable")

Changed(n, S) == (nodes[n] \ S) \cup (S \ nodes[n])

\* Mutant: a node lists itself.
UpdateNodesWithSelf(n, S) ==
    /\ changes < MaxChanges /\ pc \notin Answer
    /\ Cardinality(Changed(n, S)) <= MaxChanged
    /\ nodes' = [nodes EXCEPT ![n] = S \cup {n}]
    /\ changes' = changes + 1
    /\ calm' = (calm /\ pc = "idle")
    /\ UNCHANGED <<placement, pc, at, traversed>>

\* A topology client learns of other nodes that come or go.
UpdateNodes(n, S) ==
    /\ changes < MaxChanges /\ pc \notin Answer
    /\ Cardinality(Changed(n, S)) \in 1 .. MaxChanged
    /\ nodes' = [nodes EXCEPT ![n] = S]
    /\ changes' = changes + 1
    /\ calm' = (calm /\ pc = "idle")
    /\ UNCHANGED <<placement, pc, at, traversed>>

Answered == pc \in Answer /\ UNCHANGED vars

Serve ==
    \/ DistributeRequest \/ NotFound \/ ReturnData
    \/ RedirectToWriter \/ RedirectInShard \/ NoData

Next ==
    \/ \E n \in Node : Send(n)
    \/ Serve
    \/ Follow \/ FollowFails
    \/ \E n \in Node : \E S \in SUBSET (Node \ {n}) : UpdateNodes(n, S)
    \/ Answered

Spec == Init /\ [][Next]_vars

-----------------------------------------------------------------------------
(* Properties.                                                              *)

\* The nodes of the redirect chain, in the order they were visited.
Hops == Append(traversed, at)

TypeOK ==
    /\ shard \in Shards
    /\ writer \in Node /\ holding \subseteq Node /\ indexed \subseteq Node \ holding
    /\ nodes \in [Node -> SUBSET Node]
    /\ \A n \in Node : n \notin nodes[n]
    /\ changes \in 0 .. MaxChanges /\ calm \in BOOLEAN
    /\ pc \in Answer \cup {"idle", "serving", "redirected"}
    /\ at \in Node \cup {None} /\ traversed \in Seq(Node)
    /\ pc = "idle" <=> at = None

\* A node is never reached again straight from the node it led to, and in
\* every other step of the chain the names grow, whatever the indexes say and
\* however the topology changes.  This is what ends a chain: the test for
\* nodes already traversed is a binary search of a list that is not sorted.
HopsGrow ==
    \A k \in 1 .. Len(Hops) :
        /\ k > 1 => Hops[k - 1] # Hops[k]
        /\ k > 2 => Hops[k - 2] < Hops[k]

\* No chain of redirects is so long that net/http's client gives it up.
RedirectsEndInTime == Len(traversed) < MaxRequests

\* While all nodes know each other: a file of which the responsible node has
\* index and tar, and of which no node has the index alone, is found through
\* any node.  (The comment in GetFileWithData: "if it was created, it is
\* certainly on the node reponsible for it".)
EveryoneKnown == calm /\ \A n \in Node : nodes[n] = Node \ {n}
CreatedFileIsFound ==
    EveryoneKnown /\ Maglev[Node] \in holding /\ indexed = {}
        => pc \notin {"notFound", "noData"}

\* While all nodes know each other and list the file: data on the last named
\* node is found, if the node is of the writer's shard.
LastCopyIsFound ==
    LET last == CHOOSE n \in Node : \A m \in Node : m <= n
    IN  EveryoneKnown /\ Node = indexed \cup holding
            /\ last \in holding /\ shard[last] = shard[writer]
        => pc \notin {"notFound", "noData"}

\* The comments in GetFileWithData and tryRedirectToNode: when the data is not
\* here, the request goes to "any other node in the same shard"; so it is not
\* refused while a node of the shard that it has not visited holds the data.
OtherCopyIsTried ==
    pc = "noData" =>
        \A n \in nodes[at] \cap holding :
            shard[n] = shard[writer] => \E k \in 1 .. Len(Hops) : Hops[k] = n
=============================================================================
