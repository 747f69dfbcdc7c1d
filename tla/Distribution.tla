----------------------------- MODULE Distribution -----------------------------
(***************************************************************************)
(* Directories and files are created on the node the dispatcher makes      *)
(* responsible for their path, and looked for there.  A node that is told  *)
(* to create something in a directory it does not have asks the node       *)
(* responsible for that directory, with a request of its own for which a   *)
(* worker of the other node must be free while it keeps one of its own.    *)
(***************************************************************************)
EXTENDS Naturals, FiniteSets

CONSTANTS
    Node,
    Dir, File,      \* paths of directories, but the root, and of regular files
    Root, Parent,   \* path.Dir of each path
    Maglev,         \* the dispatcher: set of backends -> path -> node
    Request,        \* requests of clients
    PoolSize,       \* FILE_WORKER_POOL_SIZE
    MaxChanges,     \* bound: changes of the topology the nodes see
    None            \* no node, no path

Path == Dir \cup File

ASSUME PathAssumption ==
    /\ Dir \cap File = {} /\ Root \notin Path
    /\ None \notin Node /\ None \notin Path
    /\ Parent \in [Path -> Dir \cup {Root}]
ASSUME MaglevAssumption ==
    /\ DOMAIN Maglev = (SUBSET Node) \ {{}}
    /\ \A S \in DOMAIN Maglev : Maglev[S] \in [Path -> S]
ASSUME BoundAssumption == PoolSize \in Nat \ {0} /\ MaxChanges \in Nat

VARIABLES
    dirs, files,    \* what is in each node's storage
    nodes,          \* the others that each node's topology client knows
    changes,        \* number of changes of nodes so far
    up,             \* nodes whose process runs
    job,            \* the request of each client, and where it is
    head,           \* the HEAD request of a job that recovers a directory
    asked           \* the paths acknowledged when each request was sent

vars == <<dirs, files, nodes, changes, up, job, head, asked>>

Op == {"mkdir", "create", "get"}
Outcome == {"ok", "exists", "notFound", "lost"}

Init ==
    /\ dirs = [n \in Node |-> {Root}]
    /\ files = [n \in Node |-> {}]
    /\ nodes = [n \in Node |-> Node \ {n}]
    /\ changes = 0
    /\ up = Node
    /\ job = [r \in Request |->
                [pc |-> "idle", op |-> "get", path |-> None, at |-> None,
                 traversed |-> FALSE]]
    /\ head = [r \in Request |-> [pc |-> "none", at |-> None, traversed |-> FALSE]]
    /\ asked = [r \in Request |-> {}]

-----------------------------------------------------------------------------
\* The dispatcher has every node of the list, the client's map not its own.
GetNodeForObject(n, p) ==
    LET name == Maglev[nodes[n] \cup {n}][p]
    IN  IF name \in nodes[n] THEN name ELSE None

\* Requests that keep a worker of n, the recovering ones included.
Busy(n) ==
    {r \in Request : job[r].at = n /\ job[r].pc \in {"serving", "recovering", "retry"}}

\* Mutant: one job more than the pool has workers.
WorkerFreeOneMore(n) == n \in up /\ Cardinality(Busy(n)) <= PoolSize

WorkerFree(n) == n \in up /\ Cardinality(Busy(n)) < PoolSize

\* Directories whose parents are there too; the directories MkdirAll makes are
\* the fewest such with d.
Closed(ds) == \A d \in ds \ {Root} : Parent[d] \in ds
Ancestors(d) ==
    {e \in Dir \cup {Root} :
        \A ds \in SUBSET (Dir \cup {Root}) : d \in ds /\ Closed(ds) => e \in ds}

Acknowledged ==
    {job[r].path : r \in {q \in Request : job[q].pc = "ok" /\ job[q].op # "get"}}

Goto(r, pc) == job' = [job EXCEPT ![r].pc = pc]

-----------------------------------------------------------------------------
(* The client's requests.                                                   *)

Send(r, n, op, p) ==
    /\ job[r].pc = "idle"
    /\ p \in (CASE op = "mkdir" -> Dir [] op = "create" -> File [] op = "get" -> Path)
    /\ job' = [job EXCEPT ![r] = [pc |-> "queued", op |-> op, path |-> p, at |-> n,
                                  traversed |-> FALSE]]
    /\ asked' = [asked EXCEPT ![r] = Acknowledged]
    /\ UNCHANGED <<dirs, files, nodes, changes, up, head>>

\* The node the request is sent or redirected to does not run.
NotServed(r) ==
    /\ job[r].pc = "queued" /\ job[r].at \notin up
    /\ Goto(r, "lost")
    /\ UNCHANGED <<dirs, files, nodes, changes, up, head, asked>>

\* Mutant: requests are never distributed.
ElsewhereNever(r) == None

\* distributeRequestIfPossible: where the request should go instead, if any.
Elsewhere(r) ==
    IF job[r].traversed THEN None ELSE GetNodeForObject(job[r].at, job[r].path)

Redirect(r) ==
    /\ job[r].pc = "queued" /\ WorkerFree(job[r].at)
    /\ Elsewhere(r) # None
    /\ job[r].op = "get" => job[r].path \notin dirs[job[r].at] \cup files[job[r].at]
    /\ job' = [job EXCEPT ![r].at = Elsewhere(r), ![r].traversed = TRUE]
    /\ UNCHANGED <<dirs, files, nodes, changes, up, head, asked>>

\* Mutant: what is not in the node's storage does not exist.
GetAtOnce(r) ==
    /\ job[r].pc = "queued" /\ WorkerFree(job[r].at)
    /\ job[r].op = "get"
    /\ Goto(r, IF job[r].path \in dirs[job[r].at] \cup files[job[r].at]
               THEN "ok" ELSE "notFound")
    /\ UNCHANGED <<dirs, files, nodes, changes, up, head, asked>>

\* GetFile and GetFileWithData look in the node's storage first.
Get(r) ==
    /\ job[r].pc = "queued" /\ WorkerFree(job[r].at)
    /\ job[r].op = "get"
    /\ LET found == job[r].path \in dirs[job[r].at] \cup files[job[r].at]
       IN  /\ found \/ Elsewhere(r) = None
           /\ Goto(r, IF found THEN "ok" ELSE "notFound")
    /\ UNCHANGED <<dirs, files, nodes, changes, up, head, asked>>

Serve(r) ==
    /\ job[r].pc = "queued" /\ WorkerFree(job[r].at)
    /\ job[r].op # "get" /\ Elsewhere(r) = None
    /\ Goto(r, "serving")
    /\ UNCHANGED <<dirs, files, nodes, changes, up, head, asked>>

\* Storage's CreateDirectory and CreateRegularFile in an existing directory;
\* a file can be created again, a directory cannot.
ParentHere(r) == Parent[job[r].path] \in dirs[job[r].at]

CreateLocally(r) ==
    /\ job[r].pc \in {"serving", "retry"} /\ ParentHere(r)
    /\ \/ /\ job[r].op = "mkdir" /\ job[r].path \in dirs[job[r].at]
          /\ Goto(r, "exists")
          /\ UNCHANGED <<dirs, files>>
       \/ /\ job[r].op = "mkdir" /\ job[r].path \notin dirs[job[r].at]
          /\ dirs' = [dirs EXCEPT ![job[r].at] = @ \cup {job[r].path}]
          /\ Goto(r, "ok")
          /\ UNCHANGED files
       \/ /\ job[r].op = "create"
          /\ files' = [files EXCEPT ![job[r].at] = @ \cup {job[r].path}]
          /\ Goto(r, "ok")
          /\ UNCHANGED dirs
    /\ UNCHANGED <<nodes, changes, up, head, asked>>

-----------------------------------------------------------------------------
(* tryRecoverMissingDirectory.                                              *)

Responsible(r) == GetNodeForObject(job[r].at, Parent[job[r].path])

\* The log message dereferences the node before the test for nil: the
\* process ends, with every request that it serves.
Panic(r) ==
    /\ job[r].pc = "serving" /\ ~ParentHere(r)
    /\ Responsible(r) = None
    /\ up' = up \ {job[r].at}
    /\ LET gone == {q \in Request : job[q].at = job[r].at /\ job[q].pc \notin Outcome}
       IN  /\ job' = [q \in Request |-> IF q \in gone THEN [job[q] EXCEPT !.pc = "lost"]
                                                      ELSE job[q]]
           /\ head' = [q \in Request |-> IF q \in gone THEN [head[q] EXCEPT !.pc = "none"]
                                                       ELSE head[q]]
    /\ UNCHANGED <<dirs, files, nodes, changes, asked>>

AskResponsible(r) ==
    /\ job[r].pc = "serving" /\ ~ParentHere(r)
    /\ Responsible(r) # None
    /\ Goto(r, "recovering")
    /\ head' = [head EXCEPT ![r] = [pc |-> "sent", at |-> Responsible(r),
                                    traversed |-> FALSE]]
    /\ UNCHANGED <<dirs, files, nodes, changes, up, asked>>

HeadElsewhere(r) ==
    IF head[r].traversed THEN None
    ELSE GetNodeForObject(head[r].at, Parent[job[r].path])

\* The other node answers, or redirects the HEAD request as any other.
HeadServed(r) ==
    /\ head[r].pc = "sent" /\ WorkerFree(head[r].at)
    /\ LET found == Parent[job[r].path] \in dirs[head[r].at]
       IN  head' = IF ~found /\ HeadElsewhere(r) # None
                   THEN [head EXCEPT ![r].at = HeadElsewhere(r), ![r].traversed = TRUE]
                   ELSE [head EXCEPT ![r].pc = IF found THEN "directory" ELSE "missing"]
    /\ UNCHANGED <<dirs, files, nodes, changes, up, job, asked>>

\* Mutant: the client waits for a node that is gone.
HeadFailsNever(r) ==
    /\ head[r].pc = "sent" /\ head[r].at \notin up
    /\ UNCHANGED vars

HeadFails(r) ==
    /\ head[r].pc = "sent" /\ head[r].at \notin up
    /\ head' = [head EXCEPT ![r].pc = "missing"]
    /\ UNCHANGED <<dirs, files, nodes, changes, up, job, asked>>

\* Mutant: whatever the answer is, the directory is created.
RecoverAnyway(r) ==
    /\ job[r].pc = "recovering" /\ head[r].pc \in {"directory", "missing"}
    /\ dirs' = [dirs EXCEPT ![job[r].at] = @ \cup Ancestors(Parent[job[r].path])]
    /\ head' = [head EXCEPT ![r].pc = "none"]
    /\ Goto(r, "retry")
    /\ UNCHANGED <<files, nodes, changes, up, asked>>

\* CreateDirectoryAndParents, and the create is tried again.
Recover(r) ==
    /\ job[r].pc = "recovering" /\ head[r].pc = "directory"
    /\ dirs' = [dirs EXCEPT ![job[r].at] = @ \cup Ancestors(Parent[job[r].path])]
    /\ head' = [head EXCEPT ![r].pc = "none"]
    /\ Goto(r, "retry")
    /\ UNCHANGED <<files, nodes, changes, up, asked>>

NotRecovered(r) ==
    /\ job[r].pc = "recovering" /\ head[r].pc = "missing"
    /\ head' = [head EXCEPT ![r].pc = "none"]
    /\ Goto(r, "notFound")
    /\ UNCHANGED <<dirs, files, nodes, changes, up, asked>>

\* A topology client learns of other nodes that come or go.
UpdateNodes(n, S) ==
    /\ changes < MaxChanges
    /\ nodes' = [nodes EXCEPT ![n] = S]
    /\ changes' = changes + 1
    /\ UNCHANGED <<dirs, files, up, job, head, asked>>

Finished ==
    /\ \A r \in Request : job[r].pc \in Outcome
    /\ UNCHANGED vars

Step(r) ==
    \/ NotServed(r) \/ Redirect(r) \/ Get(r) \/ Serve(r)
    \/ CreateLocally(r) \/ Panic(r) \/ AskResponsible(r)
    \/ HeadServed(r) \/ HeadFails(r) \/ Recover(r) \/ NotRecovered(r)

Next ==
    \/ \E r \in Request, n \in Node, op \in Op, p \in Path : Send(r, n, op, p)
    \/ \E r \in Request : Step(r)
    \/ \E n \in Node : \E S \in SUBSET (Node \ {n}) : UpdateNodes(n, S)
    \/ Finished

Spec == Init /\ [][Next]_vars

\* Workers that can run do; the channel to them is first come first served.
FairSpec == Spec /\ \A r \in Request : WF_vars(Step(r))

-----------------------------------------------------------------------------
(* Properties.                                                              *)

\* No node has more requests in hand than workers, a request has a HEAD
\* request exactly while it recovers, and directories have parents.
TypeOK ==
    /\ dirs \in [Node -> SUBSET (Dir \cup {Root})]
    /\ files \in [Node -> SUBSET File]
    /\ nodes \in [Node -> SUBSET Node] /\ changes \in 0 .. MaxChanges
    /\ up \subseteq Node
    /\ job \in [Request ->
          [pc : {"idle", "queued", "serving", "recovering", "retry"} \cup Outcome,
           op : Op, path : Path \cup {None}, at : Node \cup {None},
           traversed : BOOLEAN]]
    /\ head \in [Request -> [pc : {"none", "sent", "directory", "missing"},
                             at : Node \cup {None}, traversed : BOOLEAN]]
    /\ \A r \in Request : job[r].pc = "recovering" <=> head[r].pc # "none"
    /\ \A n \in Node : Cardinality(Busy(n)) <= PoolSize
    /\ \A n \in Node : Closed(dirs[n])

\* Copies that recovery makes of a directory, parents included, are copies: the
\* directory is also on the node responsible for it, whatever other requests
\* were doing meanwhile.
DirectoriesAreWithTheirNode ==
    \A n \in Node : \A d \in dirs[n] \ {Root} : d \in dirs[Maglev[Node][d]]

\* Of all the clients that create a directory, through any node, at most one
\* is told that it did.
OneMkdirWins ==
    \A q, r \in Request :
        /\ job[q].op = "mkdir" /\ job[r].op = "mkdir" /\ job[q].path = job[r].path
        /\ job[q].pc = "ok" /\ job[r].pc = "ok"
        => q = r

\* A client that was told that a path exists before it asked finds it through
\* any node, and can create in it: "not found" is the answer only when the
\* path, or the directory to create in, was not acknowledged or when a node
\* has died.
AcknowledgedIsFound ==
    \A r \in Request :
        /\ job[r].pc = "notFound" /\ up = Node
        => (IF job[r].op = "get" THEN job[r].path ELSE Parent[job[r].path])
                \notin asked[r] \cup {Root}

\* The comment in GetFile and GetFileWithData: "if it was created, it is
\* certainly on the node reponsible for it", at least whenever all the nodes
\* know each other, however they came to.
FilesAreWithTheirNode ==
    (\A n \in Node : nodes[n] = Node \ {n})
    => \A f \in File : f \in Acknowledged => f \in files[Maglev[Node][f]]

\* tryRecoverMissingDirectory tests the node for nil: a node that does not know
\* who is responsible for a directory reports it missing and goes on.
ServersSurvive == up = Node

\* Some nodes wait for each other: each of their workers recovers a directory
\* and waits for a worker of one of them.
PoolsWait ==
    \E S \in (SUBSET up) \ {{}} : \A n \in S :
        /\ Cardinality(Busy(n)) = PoolSize
        /\ \A r \in Busy(n) : head[r].pc = "sent" /\ head[r].at \in S

\* Every request ends, though recoveries wait for workers of other nodes, which
\* may be waiting for others, and nodes die: only nodes that wait for each
\* other leave a request without an answer.
EveryRequestEndsUnlessPoolsWait ==
    \A r \in Request : job[r].pc # "idle" ~> (job[r].pc \in Outcome \/ PoolsWait)

\* The tests' clients send creates to several nodes and expect an answer to
\* each: every request ends.
EveryRequestEnds ==
    \A r \in Request : job[r].pc # "idle" ~> job[r].pc \in Outcome
=============================================================================
