-------------------------------- MODULE Topology --------------------------------
(***************************************************************************)
(* The topology client of one node against ZooKeeper.  The connection      *)
(* goroutine connects, registers the node as an ephemeral znode and, when  *)
(* it is disconnected, clears the view and makes another ZooKeeper client. *)
(* The one before is not closed: it connects again on its own and resumes  *)
(* its session, unless that has expired.  Every client that registered the *)
(* node starts a watcher, which lists the children of the namespace,       *)
(* updates the map of nodes name by name and then the dispatcher, and      *)
(* waits for its watch; it carries on with the next client.  The map is    *)
(* not locked: zkClientLock only keeps zkClient during a listing.          *)
(* ZooKeeper, its client library and the other nodes are external.         *)
(***************************************************************************)
EXTENDS Naturals, Sequences, FiniteSets, FiniteSetsExt

CONSTANTS
    Node,       \* the other nodes of the namespace
    Self,       \* this node
    Address,    \* addresses a node may register
    Absent,     \* no entry in the map
    Unknown,    \* an entry whose data could not be read
    Sessions,   \* at most this many ZooKeeper clients matter at a time
    MaxDisturbances \* bound on lost connections, failed calls, joins and leaves

ASSUME TopologyAssumption ==
    /\ Self \notin Node
    /\ Absent \notin Address /\ Unknown \notin Address /\ Absent # Unknown
    /\ Sessions \in Nat /\ MaxDisturbances \in Nat

VARIABLES
    children,   \* names registered in ZooKeeper
    data,       \* address registered by each other node
    owner,      \* client whose session owns Self's znode, 0 if none
    rewritten,  \* has Self's znode been Set, so that its version is not 0?
    session,    \* is each ZooKeeper client open or closed?
    zkClient,   \* the one in use, 0 for nil
    events,     \* session events not received yet
    conn,       \* where the connection goroutine is
    nodes,      \* the map of nodes
    backends,   \* what the dispatcher was last set to
    wpc,        \* where the watcher that each client started is
    names,      \* what each watcher has listed
    todo,       \* names each watcher has not visited yet
    watch,      \* each watcher's channel: of which client, and its state
    closed,     \* has the user called Close?
    disturbances

zkVars == <<children, data, owner, rewritten, session>>
connVars == <<zkClient, events, conn, closed>>
viewVars == <<nodes, backends>>
watchVars == <<wpc, names, todo, watch>>
vars == <<zkVars, connVars, viewVars, watchVars, disturbances>>

Session == 1..Sessions
ConnPC == {"connect", "watch", "set", "clearing", "lock", "done", "panicked"}
WatchPC == {"none", "list", "delete", "add", "wait"}
Past == Sessions + 1     \* the client of this node before it was restarted
NoWatch == [on |-> 0, st |-> "idle"]

Init ==
    /\ data \in [Node -> Address]
    /\ \/ children \in SUBSET Node /\ owner = 0 /\ rewritten = FALSE
       \/ /\ \E others \in SUBSET Node : children = others \cup {Self}
          /\ owner = Past /\ rewritten \in BOOLEAN
    /\ session = [s \in Session |-> "closed"]
    /\ zkClient = 0 /\ events = <<>> /\ conn = "connect" /\ closed = FALSE
    /\ nodes = [n \in Node |-> Absent] /\ backends = {}
    /\ wpc = [s \in Session |-> "none"]
    /\ names = [s \in Session |-> {}]
    /\ todo = [s \in Session |-> {}]
    /\ watch = [s \in Session |-> NoWatch]
    /\ disturbances = 0

-----------------------------------------------------------------------------
(* ZooKeeper.                                                               *)

\* A change of the children fires every channel that is armed, once.
Fire(w) ==
    [s \in Session |-> IF w[s].st = "armed" THEN [on |-> 0, st |-> "fired"] ELSE w[s]]

\* The channels of client s get an event NotWatching and are closed.
Disarm(w, s) ==
    [t \in Session |-> IF w[t].st = "armed" /\ w[t].on = s
                       THEN [on |-> 0, st |-> "lost"] ELSE w[t]]

\* The ephemeral znode of session s goes with it.
RemoveEphemeral(s, w) ==
    IF owner = s
    THEN /\ children' = children \ {Self} /\ owner' = 0 /\ rewritten' = FALSE
         /\ watch' = Fire(w)
    ELSE UNCHANGED <<children, owner, rewritten>> /\ watch' = w

\* The client in use has lost its connection: its calls may fail, or wait
\* until it is connected again.
Disrupted ==
    \/ conn \in {"clearing", "lock"}
    \/ \E i \in DOMAIN events : events[i] = "disconnected"

\* What is received of a client that is closed: nothing comes after a
\* disconnection, and one that was not connected yet may just end.
Announced(pending) ==
    IF \E i \in DOMAIN pending : pending[i] = "disconnected" THEN {pending}
    ELSE {Append(pending, "disconnected")}
         \cup {<<"end">> : i \in {j \in DOMAIN pending : pending[j] = "connected"}}

\* zkClient.Close: the session ends with it, or expires where ZooKeeper cannot
\* be told; a client that is closed twice panics.
CloseClient(pending) ==
    IF session[zkClient] = "closed"
    THEN /\ conn' = "panicked" /\ events' = pending
         /\ UNCHANGED <<children, owner, rewritten, session, watch>>
    ELSE /\ session' = [session EXCEPT ![zkClient] = "closed"]
         /\ \/ RemoveEphemeral(zkClient, Disarm(watch, zkClient))
            \/ /\ Disrupted /\ watch' = Disarm(watch, zkClient)
               /\ UNCHANGED <<children, owner, rewritten>>
         /\ events' \in Announced(pending)
         /\ conn' = IF conn = "set" THEN "watch" ELSE conn

\* Nothing depends on the client any more, whether it lives or not.
Forgotten(s) ==
    /\ zkClient # s /\ owner # s /\ wpc[s] = "none"
    /\ \A t \in Session : watch[t].on # s

Running == conn # "panicked"

\* The connection is lost; the session may survive that.
Break ==
    /\ Running /\ disturbances < MaxDisturbances
    /\ zkClient # 0 /\ session[zkClient] = "open" /\ ~Disrupted
    /\ disturbances' = disturbances + 1
    /\ events' = Append(events, "disconnected")
    /\ UNCHANGED <<zkVars, zkClient, conn, closed, viewVars, watchVars>>

\* The session of a client that was disconnected expires.  The client lives on
\* in a session that owns nothing and watches nothing.
Expire(s) ==
    /\ Running
    /\ session[s] = "open" /\ (s # zkClient \/ Disrupted)
    /\ RemoveEphemeral(s, Disarm(watch, s))
    /\ UNCHANGED <<data, session, connVars, viewVars, wpc, names, todo, disturbances>>

\* The session of the process before, or of a client that was closed, expires.
ExpireDead ==
    /\ Running
    /\ owner # 0 /\ (owner \in Session => session[owner] = "closed")
    /\ RemoveEphemeral(owner, watch)
    /\ UNCHANGED <<data, session, connVars, viewVars, wpc, names, todo, disturbances>>

\* Another node starts, or stops.
Join(n) ==
    /\ Running /\ disturbances < MaxDisturbances
    /\ n \notin children
    /\ children' = children \cup {n}
    /\ \E a \in Address : data' = [data EXCEPT ![n] = a]
    /\ watch' = Fire(watch)
    /\ disturbances' = disturbances + 1
    /\ UNCHANGED <<owner, rewritten, session, connVars, viewVars, wpc, names, todo>>

Leave(n) ==
    /\ Running /\ disturbances < MaxDisturbances
    /\ n \in children
    /\ children' = children \ {n}
    /\ watch' = Fire(watch)
    /\ disturbances' = disturbances + 1
    /\ UNCHANGED <<data, owner, rewritten, session, connVars, viewVars, wpc, names, todo>>

-----------------------------------------------------------------------------
(* The connection goroutine: connect, doConnect and watchConnection.        *)

\* doConnect: a new client, whose first event is StateConnected.
Connect ==
    /\ conn = "connect"
    /\ \E s \in Session :
          /\ Forgotten(s) /\ \A t \in Session : Forgotten(t) => s <= t
          /\ session' = [session EXCEPT ![s] = "open"]
          /\ zkClient' = s
    /\ events' = <<"connected">>
    /\ conn' = "watch"
    /\ UNCHANGED <<children, data, owner, rewritten, closed, viewVars, watchVars,
                   disturbances>>

ConnectFails ==
    /\ conn = "connect" /\ disturbances < MaxDisturbances
    /\ disturbances' = disturbances + 1
    /\ conn' = "lock"
    /\ UNCHANGED <<zkVars, zkClient, events, closed, viewVars, watchVars>>

Received(e) ==
    /\ conn = "watch" /\ events # <<>> /\ Head(events) = e
    /\ events' = Tail(events)

\* The channel of events is closed: the view is kept.
EventsEnd ==
    /\ Received("end")
    /\ conn' = "lock"
    /\ UNCHANGED <<zkVars, zkClient, closed, viewVars, watchVars, disturbances>>

\* clear, first half: the map, which a watcher may be filling.
ClearNodes == nodes' = [n \in Node |-> Absent]

Disconnected ==
    /\ Received("disconnected")
    /\ ClearNodes
    /\ conn' = "clearing"
    /\ UNCHANGED <<zkVars, zkClient, closed, backends, watchVars, disturbances>>

Cancelled ==
    /\ conn = "watch" /\ closed
    /\ ClearNodes
    /\ conn' = "clearing"
    /\ UNCHANGED <<zkVars, zkClient, events, closed, backends, watchVars, disturbances>>

ClearDispatcher ==
    /\ conn = "clearing"
    /\ backends' = {}
    /\ conn' = "lock"
    /\ UNCHANGED <<zkVars, zkClient, events, closed, nodes, watchVars, disturbances>>

\* The client is set to nil, and not closed.
DropClient == zkClient' = 0 /\ events' = <<>>

\* Mutant: the client is dropped while a watcher works with it.
ResetUnlocked ==
    /\ conn = "lock"
    /\ conn' = IF closed THEN "done" ELSE "connect"
    /\ DropClient
    /\ UNCHANGED <<zkVars, closed, viewVars, watchVars, disturbances>>

\* Mutant: the goroutine does not look whether it was cancelled.
ResetForgetting ==
    /\ conn = "lock"
    /\ \A s \in Session : wpc[s] \notin {"delete", "add"}
    /\ conn' = "connect"
    /\ DropClient
    /\ UNCHANGED <<zkVars, closed, viewVars, watchVars, disturbances>>

\* zkClientLock is taken for writing once no watcher is updating the view.
Reset ==
    /\ conn = "lock"
    /\ \A s \in Session : wpc[s] \notin {"delete", "add"}
    /\ conn' = IF closed THEN "done" ELSE "connect"
    /\ DropClient
    /\ UNCHANGED <<zkVars, closed, viewVars, watchVars, disturbances>>

-----------------------------------------------------------------------------
(* startNodeManagement.                                                     *)

\* Mutant: no watcher is started when the znode is already there.
StartWatcherOfNew ==
    wpc' = [wpc EXCEPT ![zkClient] = IF Self \in children THEN "none" ELSE "list"]

StartWatcher == wpc' = [wpc EXCEPT ![zkClient] = "list"]

\* updateNodeInfo: the znode is created, or is there already.
Register ==
    /\ Received("connected") /\ session[zkClient] = "open"
    /\ Self \notin children
    /\ children' = children \cup {Self}
    /\ owner' = zkClient
    /\ watch' = Fire(watch)
    /\ StartWatcher
    /\ UNCHANGED <<data, rewritten, session, zkClient, conn, closed, viewVars, names, todo,
                   disturbances>>

NodeExists ==
    /\ Received("connected") /\ session[zkClient] = "open"
    /\ Self \in children
    /\ conn' = "set"
    /\ UNCHANGED <<zkVars, zkClient, closed, viewVars, watchVars, disturbances>>

\* Set is refused unless the znode is there and its version is 0.
Refused == conn = "set" /\ (Self \notin children \/ rewritten)

\* The znode is Set, and still belongs to the session that created it.
Set ==
    /\ conn = "set" /\ session[zkClient] = "open" /\ ~Refused
    /\ rewritten' = TRUE
    /\ conn' = "watch"
    /\ StartWatcher
    /\ UNCHANGED <<children, data, owner, session, zkClient, events, closed, viewVars,
                   names, todo, watch, disturbances>>

\* Create or Set fails: the client is closed.
RegisterFails ==
    /\ \/ Received("connected") /\ (session[zkClient] = "closed" \/ Disrupted)
          /\ CloseClient(Tail(events))
       \/ conn = "set" /\ (session[zkClient] = "closed" \/ Disrupted \/ Refused)
          /\ CloseClient(events)
    /\ UNCHANGED <<data, zkClient, closed, viewVars, wpc, names, todo, disturbances>>

\* The user's Close, which the goroutine may be anywhere during.
Close ==
    /\ Running /\ ~closed
    /\ closed' = TRUE
    /\ IF zkClient = 0
       THEN UNCHANGED <<children, owner, rewritten, session, events, conn, watch>>
       ELSE CloseClient(events)
    /\ UNCHANGED <<data, zkClient, viewVars, wpc, names, todo, disturbances>>

-----------------------------------------------------------------------------
(* watchNodes of the watcher that client s started; zkClientLock is held    *)
(* for reading from List to SetDispatcher.                                  *)

\* ChildrenW: the names, and a channel armed in the same step.
List(s) ==
    /\ Running /\ wpc[s] = "list"
    /\ zkClient # 0 /\ session[zkClient] = "open"
    /\ names' = [names EXCEPT ![s] = children]
    /\ watch' = [watch EXCEPT ![s] = [on |-> zkClient, st |-> "armed"]]
    /\ wpc' = [wpc EXCEPT ![s] = "delete"]
    /\ UNCHANGED <<zkVars, connVars, viewVars, todo, disturbances>>

\* No client, or one that is closing or not connected: the watcher ends.
ListEnds(s) ==
    /\ Running /\ wpc[s] = "list"
    /\ zkClient # 0 => session[zkClient] = "closed" \/ Disrupted
    /\ wpc' = [wpc EXCEPT ![s] = "none"]
    /\ UNCHANGED <<zkVars, connVars, viewVars, names, todo, watch, disturbances>>

\* Any other error, as that the session has expired: the watcher closes the
\* client as well.
ListFails(s) ==
    /\ Running /\ wpc[s] = "list"
    /\ zkClient # 0 /\ session[zkClient] = "open"
    /\ \/ Disrupted /\ UNCHANGED disturbances
       \/ ~Disrupted /\ disturbances < MaxDisturbances /\ disturbances' = disturbances + 1
    /\ CloseClient(events)
    /\ wpc' = [wpc EXCEPT ![s] = "none"]
    /\ UNCHANGED <<data, zkClient, closed, viewVars, names, todo>>

\* Mutant: Self is treated like the other nodes.
DeleteWithSelf(s) ==
    /\ Running /\ wpc[s] = "delete"
    /\ nodes' = [n \in Node |-> IF n \in names[s] THEN nodes[n] ELSE Absent]
    /\ todo' = [todo EXCEPT ![s] = names[s]]
    /\ wpc' = [wpc EXCEPT ![s] = "add"]
    /\ UNCHANGED <<zkVars, connVars, backends, names, watch, disturbances>>

\* updateNodes, first loop; the second has nothing to do for Self.
Delete(s) ==
    /\ Running /\ wpc[s] = "delete"
    /\ nodes' = [n \in Node |-> IF n \in names[s] THEN nodes[n] ELSE Absent]
    /\ todo' = [todo EXCEPT ![s] = names[s] \ {Self}]
    /\ wpc' = [wpc EXCEPT ![s] = "add"]
    /\ UNCHANGED <<zkVars, connVars, backends, names, watch, disturbances>>

\* addNode: an error of Get leaves an entry without data.
CanGet(n) == zkClient # 0 /\ session[zkClient] = "open" /\ n \in children

AddNode(n) ==
    \/ nodes[n] # Absent /\ UNCHANGED nodes
    \/ nodes[n] = Absent /\ CanGet(n) /\ nodes' = [nodes EXCEPT ![n] = data[n]]
    \/ /\ nodes[n] = Absent /\ (~CanGet(n) \/ Disrupted)
       /\ nodes' = [nodes EXCEPT ![n] = Unknown]

\* updateNodes, second loop: the next name.
Visit(s) ==
    /\ Running /\ wpc[s] = "add"
    /\ \E n \in todo[s] : AddNode(n) /\ todo' = [todo EXCEPT ![s] = @ \ {n}]
    /\ UNCHANGED <<zkVars, connVars, backends, wpc, names, watch, disturbances>>

\* Every name visited: the dispatcher gets the list, and the lock is released.
SetDispatcher(s) ==
    /\ Running /\ wpc[s] = "add" /\ todo[s] = {}
    /\ backends' = names[s]
    /\ names' = [names EXCEPT ![s] = {}]
    /\ wpc' = [wpc EXCEPT ![s] = "wait"]
    /\ UNCHANGED <<zkVars, connVars, nodes, todo, watch, disturbances>>

\* The children changed or the channel was closed: list again.
Wake(s) ==
    /\ Running /\ wpc[s] = "wait" /\ watch[s].st = "fired"
    /\ watch' = [watch EXCEPT ![s] = NoWatch]
    /\ wpc' = [wpc EXCEPT ![s] = "list"]
    /\ UNCHANGED <<zkVars, connVars, viewVars, names, todo, disturbances>>

\* EventNotWatching: the watcher ends.
NotWatching(s) ==
    /\ Running /\ wpc[s] = "wait" /\ watch[s].st = "lost"
    /\ watch' = [watch EXCEPT ![s] = NoWatch]
    /\ wpc' = [wpc EXCEPT ![s] = "none"]
    /\ UNCHANGED <<zkVars, connVars, viewVars, names, todo, disturbances>>

-----------------------------------------------------------------------------
ConnStep ==
    \/ Connect \/ ConnectFails \/ EventsEnd
    \/ Disconnected \/ Cancelled \/ ClearDispatcher \/ Reset
    \/ Register \/ NodeExists \/ Set \/ RegisterFails

WatchStep(s) ==
    \/ List(s) \/ ListEnds(s) \/ ListFails(s) \/ Delete(s) \/ Visit(s)
    \/ SetDispatcher(s) \/ Wake(s) \/ NotWatching(s)

Next ==
    \/ Break \/ ExpireDead
    \/ \E n \in Node : Join(n) \/ Leave(n)
    \/ ConnStep \/ Close
    \/ \E s \in Session : Expire(s) \/ WatchStep(s)

Spec == Init /\ [][Next]_vars

\* The goroutines run, and ZooKeeper drops the sessions of processes and clients
\* that are gone.  A client that was only dropped may live for ever, a
\* connection need never be lost, and a node need never join or leave.
FairSpec ==
    /\ Spec
    /\ WF_vars(ConnStep) /\ WF_vars(ExpireDead)
    /\ \A s \in Session : WF_vars(WatchStep(s))

-----------------------------------------------------------------------------
(* Properties.                                                              *)

TypeOK ==
    /\ children \subseteq Node \cup {Self}
    /\ data \in [Node -> Address]
    /\ owner \in 0..Past /\ (owner # 0 <=> Self \in children)
    /\ rewritten \in BOOLEAN /\ (rewritten => Self \in children)
    /\ session \in [Session -> {"open", "closed"}]
    /\ zkClient \in 0..Sessions
    /\ events \in Seq({"connected", "disconnected", "end"})
    /\ conn \in ConnPC /\ closed \in BOOLEAN
    /\ nodes \in [Node -> Address \cup {Absent, Unknown}]
    /\ backends \subseteq Node \cup {Self}
    /\ wpc \in [Session -> WatchPC]
    /\ names \in [Session -> SUBSET (Node \cup {Self})]
    /\ todo \in [Session -> SUBSET Node]
    /\ watch \in [Session -> [on : 0..Sessions, st : {"idle", "armed", "fired", "lost"}]]
    /\ disturbances \in 0..MaxDisturbances

Names == {n \in Node : nodes[n] # Absent}

\* Every watcher that lives waits, and one of them on the current session.
Settled ==
    /\ conn = "watch" /\ events = <<>> /\ session[zkClient] = "open"
    /\ \E s \in Session : wpc[s] = "wait"
    /\ \A s \in Session : wpc[s] # "none" => wpc[s] = "wait" /\ watch[s].st = "armed"

\* Once all watchers wait the map has exactly the other registered nodes and
\* the dispatcher all registered names, whatever two watchers and a clear
\* did to the unlocked map before (updateNodes, clear).
SettledViewIsExact ==
    Settled => Names = children \ {Self} /\ backends = children

Agrees == Names = children \ {Self} /\ backends = children

\* When connections and nodes are left in peace the view comes to agree with
\* ZooKeeper and stays so, unless the node's registration is refused again and
\* again: no change is missed between a listing and its watch, whichever
\* client it belongs to, and every client is followed by another (watchNodes,
\* connect).
ViewConvergesIfRegistered ==
    \/ []<>Refused
    \/ <>[](closed \/ ~Running \/ Agrees)

\* The node discovers the others, as the tests have it, however often it was
\* disconnected from ZooKeeper (updateNodeInfo).
ViewConverges == <>[](closed \/ ~Running \/ Agrees)

\* After Close the goroutine ends, unless closing the client twice ends the
\* process (connect).
CloseEnds == closed ~> (conn \in {"done", "panicked"})

\* The node comes to be registered and stays so until it is closed: others
\* discover it (updateNodeInfo).
StaysRegistered == <>[](closed \/ ~Running \/ Self \in children)

\* After Close the other nodes no longer discover the node, as the tests have
\* it (Close).
CloseUnregisters == <>[](closed => ~Running \/ Self \notin children)

=============================================================================
