----------------------------- MODULE TopologyProofs -----------------------------
(***************************************************************************)
(* Proofs about Topology, for any nodes, clients and disturbances: the     *)
(* types, and that the view is exact whenever every watcher waits.         *)
(* Watchers share the map without a lock, so what is kept is about all of  *)
(* them: as long as none has to list again, whoever is still at work knows *)
(* what the map and the dispatcher lack.                                   *)
(***************************************************************************)
EXTENDS Topology, SequenceTheorems, TLAPS

Status == {"open", "closed"}
Event == {"connected", "disconnected", "end"}
WatchType == [on : 0 .. Sessions, st : {"idle", "armed", "fired", "lost"}]
Updating == {"delete", "add"}

ClientOpen == zkClient \in Session /\ session[zkClient] = "open"

\* The client in use can be relied on, and the goroutine has nothing to do.
Undisturbed == ClientOpen /\ ~Disrupted
Attentive == ClientOpen /\ conn = "watch" /\ events = <<>>

ClientInv ==
    /\ conn \in {"connect", "done"} => zkClient = 0
    /\ conn \in {"watch", "set", "clearing"} => zkClient \in Session

\* A watcher that updates the view has the client for as long, and its channel
\* is one of this client; the list is what the children are while the channel
\* is armed, and the channel is lost only with the connection.
ChannelInv(s) ==
    /\ wpc[s] \in Updating =>
          /\ zkClient \in Session /\ watch[s].st # "idle"
          /\ watch[s].st = "armed" => watch[s].on = zkClient /\ names[s] = children
          /\ watch[s].st = "lost" => ~Undisturbed
    /\ wpc[s] = "wait" => watch[s].st # "idle"
    /\ wpc[s] = "add" => todo[s] \subseteq names[s]

\* A watcher whose list is what the children are, and one that will list again.
Fresh(s) == wpc[s] \in {"delete", "add", "wait"} /\ watch[s].st = "armed"
Stale(s) ==
    \/ wpc[s] = "list"
    \/ wpc[s] \in {"delete", "add"} /\ watch[s].st # "armed"
    \/ wpc[s] = "wait" /\ watch[s].st = "fired"

\* Nobody will list again, and the goroutine is not about to clear the view or
\* to start a watcher.
Calm ==
    /\ Attentive
    /\ \E s \in Session : Fresh(s)
    /\ \A s \in Session : ~Stale(s)

\* Then what the view lacks or has too much is still before a watcher.
ViewInv ==
    Calm =>
        /\ (\E s \in Session : wpc[s] = "delete") \/ Names \subseteq children
        /\ \A n \in children \ {Self} :
              \/ n \in Names
              \/ \E s \in Session : wpc[s] = "delete" \/ (wpc[s] = "add" /\ n \in todo[s])
        /\ (\E s \in Session : wpc[s] \in {"delete", "add"}) \/ backends = children

TopologyInv ==
    TypeOK /\ ClientInv /\ (\A s \in Session : ChannelInv(s)) /\ ViewInv

-----------------------------------------------------------------------------
(* What a step of ZooKeeper, or the end of a session, does to the channels. *)

\* Changes of the children fire all channels, the end of a session disarms its
\* own; the client's session ends only when it is closed or not connected.
ZkStep ==
    /\ children' \subseteq Node \cup {Self} /\ owner' \in 0 .. Past
    /\ (owner' # 0 <=> Self \in children')
    /\ rewritten' \in BOOLEAN /\ (rewritten' => Self \in children')
    /\ session' \in [Session -> Status] /\ watch' \in [Session -> WatchType]
    /\ \A t \in Session :
          /\ \/ watch'[t] = watch[t]
             \/ watch[t].st = "armed" /\ watch'[t].st = "fired"
             \/ /\ watch[t].st = "armed" /\ watch'[t].st = "lost"
                /\ watch[t].on = zkClient => ~Undisturbed'
          /\ watch'[t].st = "armed" => children' = children

\* Sessions are numbers; 0 is none and Past those that are forgotten.
LEMMA Numbers == 0 \notin Session /\ Session \subseteq 0 .. Sessions /\ Session \subseteq 0 .. Past
                 /\ 0 \in 0 .. Sessions /\ 0 \in 0 .. Past /\ Past \in 0 .. Past /\ Past # 0
BY TopologyAssumption DEF Session, Past

\* A change of the children fires the watches that are armed, and no others.
LEMMA FireFires ==
    ASSUME NEW w \in [Session -> WatchType]
    PROVE  /\ Fire(w) \in [Session -> WatchType]
           /\ \A t \in Session :
                 Fire(w)[t] = IF w[t].st = "armed" THEN [on |-> 0, st |-> "fired"] ELSE w[t]
<1>1. [on |-> 0, st |-> "fired"] \in WatchType BY Numbers DEF WatchType
<1> QED BY <1>1 DEF Fire

\* The end of a session disarms the watches of that session.
LEMMA DisarmDisarms ==
    ASSUME NEW w \in [Session -> WatchType], NEW s \in Session
    PROVE  /\ Disarm(w, s) \in [Session -> WatchType]
           /\ \A t \in Session :
                 Disarm(w, s)[t] = IF w[t].st = "armed" /\ w[t].on = s
                                   THEN [on |-> 0, st |-> "lost"] ELSE w[t]
<1>1. [on |-> 0, st |-> "lost"] \in WatchType BY Numbers DEF WatchType
<1> QED BY <1>1 DEF Disarm

\* The children change, and nobody's session does.
LEMMA ChildrenChange ==
    ASSUME TopologyInv, watch' = Fire(watch), UNCHANGED session,
           children' \subseteq Node \cup {Self}, owner' \in 0 .. Past,
           owner' # 0 <=> Self \in children',
           rewritten' \in BOOLEAN, rewritten' => Self \in children'
    PROVE  ZkStep
<1>1. watch \in [Session -> WatchType] /\ session \in [Session -> Status]
  BY DEF TopologyInv, TypeOK, WatchType, Status
<1>2. /\ watch' \in [Session -> WatchType]
      /\ \A t \in Session :
            watch'[t] = IF watch[t].st = "armed" THEN [on |-> 0, st |-> "fired"] ELSE watch[t]
  BY <1>1, FireFires
<1>3. ASSUME NEW t \in Session
      PROVE  /\ watch'[t] = watch[t] \/ (watch[t].st = "armed" /\ watch'[t].st = "fired")
             /\ watch'[t].st # "armed"
  BY <1>2
<1> QED BY <1>1, <1>2, <1>3 DEF ZkStep

\* The znode of a session goes, perhaps with the session.
LEMMA EphemeralGoes ==
    ASSUME TypeOK, NEW s \in 1 .. Past, NEW w \in [Session -> WatchType], RemoveEphemeral(s, w)
    PROVE  /\ children' \subseteq Node \cup {Self} /\ owner' \in 0 .. Past
           /\ (owner' # 0 <=> Self \in children')
           /\ rewritten' \in BOOLEAN /\ (rewritten' => Self \in children')
           /\ (watch' = w /\ UNCHANGED <<children, owner, rewritten>>) \/ watch' = Fire(w)
BY Numbers DEF TypeOK, RemoveEphemeral

\* A session that ends disarms its watches; its znode goes with it, or later.
LEMMA SessionEnds ==
    ASSUME TopologyInv, NEW s \in Session, session' \in [Session -> Status],
           s = zkClient => ~Undisturbed',
           \/ RemoveEphemeral(s, Disarm(watch, s))
           \/ watch' = Disarm(watch, s) /\ UNCHANGED <<children, owner, rewritten>>
    PROVE  ZkStep
<1> DEFINE w == Disarm(watch, s)
<1>1. watch \in [Session -> WatchType] BY DEF TopologyInv, TypeOK, WatchType
<1>2. /\ w \in [Session -> WatchType]
      /\ \A t \in Session :
            w[t] = IF watch[t].st = "armed" /\ watch[t].on = s
                   THEN [on |-> 0, st |-> "lost"] ELSE watch[t]
  BY <1>1, DisarmDisarms
<1>3. RemoveEphemeral(s, w) \/ (watch' = w /\ UNCHANGED <<children, owner, rewritten>>)
  OBVIOUS
<1> HIDE DEF w
<1>4. /\ children' \subseteq Node \cup {Self} /\ owner' \in 0 .. Past
      /\ (owner' # 0 <=> Self \in children')
      /\ rewritten' \in BOOLEAN /\ (rewritten' => Self \in children')
      /\ (watch' = w /\ UNCHANGED <<children, owner, rewritten>>) \/ watch' = Fire(w)
  <2>1. CASE RemoveEphemeral(s, w)
    <3>1. s \in 1 .. Past BY TopologyAssumption DEF Session, Past
    <3> QED BY <1>2, <2>1, <3>1, EphemeralGoes DEF TopologyInv
  <2>2. CASE watch' = w /\ UNCHANGED <<children, owner, rewritten>>
    BY <2>2 DEF TopologyInv, TypeOK
  <2> QED BY <1>3, <2>1, <2>2
<1>5. /\ watch' \in [Session -> WatchType]
      /\ \A t \in Session :
            \/ watch'[t] = w[t] /\ children' = children
            \/ watch'[t] = w[t] /\ w[t].st # "armed"
            \/ w[t].st = "armed" /\ watch'[t] = [on |-> 0, st |-> "fired"]
  <2>1. CASE watch' = w /\ UNCHANGED <<children, owner, rewritten>> BY <1>2, <2>1
  <2>2. CASE watch' = Fire(w) BY <1>2, <2>2, FireFires
  <2> QED BY <1>4, <2>1, <2>2
<1>6. ASSUME NEW t \in Session
      PROVE  /\ \/ watch'[t] = watch[t]
                \/ watch[t].st = "armed" /\ watch'[t].st = "fired"
                \/ /\ watch[t].st = "armed" /\ watch'[t].st = "lost"
                   /\ watch[t].on = zkClient => ~Undisturbed'
             /\ watch'[t].st = "armed" => children' = children
  <2>1. CASE watch[t].st = "armed" /\ watch[t].on = s
    <3>1. w[t] = [on |-> 0, st |-> "lost"] BY <1>2, <2>1
    <3>2. watch'[t] = w[t] BY <1>5, <3>1
    <3> QED BY <2>1, <3>1, <3>2
  <2>2. CASE ~(watch[t].st = "armed" /\ watch[t].on = s)
    <3>1. w[t] = watch[t] BY <1>2, <2>2
    <3> QED BY <1>5, <3>1
  <2> QED BY <2>1, <2>2
<1> QED BY <1>4, <1>5, <1>6 DEF ZkStep

\* A step that ZooKeeper does not see.
LEMMA NothingInZooKeeper ==
    ASSUME TopologyInv, UNCHANGED <<children, owner, rewritten, session, watch>>
    PROVE  ZkStep
BY DEF TopologyInv, TypeOK, ZkStep, WatchType, Status

\* The events of a client that is closed.
LEMMA AnnouncedType ==
    ASSUME NEW pending \in Seq(Event), NEW es \in Announced(pending)
    PROVE  es \in Seq(Event)
<1>1. es = pending \/ es = Append(pending, "disconnected") \/ es = <<"end">> BY DEF Announced
<1>2. "disconnected" \in Event /\ "end" \in Event BY DEF Event
<1>3. Append(pending, "disconnected") \in Seq(Event) BY <1>2, AppendProperties
<1>4. <<"end">> \in Seq(Event) BY <1>2
<1> QED BY <1>1, <1>3, <1>4

\* Closing the client ends its session; closing it twice panics.
LEMMA ClientCloses ==
    ASSUME TopologyInv, zkClient \in Session, NEW pending \in Seq(Event), CloseClient(pending),
           UNCHANGED zkClient
    PROVE  /\ ZkStep /\ ~ClientOpen' /\ events' \in Seq(Event)
           /\ conn' \in {conn, "panicked"} \/ (conn = "set" /\ conn' = "watch")
<1>0. session \in [Session -> Status] BY DEF TopologyInv, TypeOK, Status
<1>1. CASE session[zkClient] = "closed"
  <2>1. /\ conn' = "panicked" /\ events' = pending
        /\ UNCHANGED <<children, owner, rewritten, session, watch>>
    BY <1>1 DEF CloseClient
  <2> QED BY <1>1, <2>1, NothingInZooKeeper DEF ClientOpen
<1>2. CASE session[zkClient] # "closed"
  <2>1. /\ session' = [session EXCEPT ![zkClient] = "closed"]
        /\ \/ RemoveEphemeral(zkClient, Disarm(watch, zkClient))
           \/ watch' = Disarm(watch, zkClient) /\ UNCHANGED <<children, owner, rewritten>>
        /\ events' \in Announced(pending)
        /\ conn' = IF conn = "set" THEN "watch" ELSE conn
    BY <1>2 DEF CloseClient
  <2>2. session' \in [Session -> Status] /\ ~ClientOpen' BY <1>0, <2>1 DEF ClientOpen, Status
  <2>3. ZkStep BY <2>1, <2>2, SessionEnds DEF Undisturbed
  <2> QED BY <2>1, <2>2, <2>3, AnnouncedType
<1> QED BY <1>1, <1>2

\* A step of anybody that leaves the lists of the watchers as they are.
LEMMA QuietStep ==
    ASSUME TopologyInv, ZkStep, ClientInv', UNCHANGED <<names, todo, zkClient>>,
           data' \in [Node -> Address],
           conn' \in ConnPC, events' \in Seq(Event), closed' \in BOOLEAN,
           disturbances' \in 0 .. MaxDisturbances,
           nodes' \in [Node -> Address \cup {Absent, Unknown}],
           backends' \subseteq Node \cup {Self},
           wpc' \in [Session -> WatchPC],
           \A s \in Session : \/ wpc'[s] = wpc[s] \/ wpc'[s] = "list"
                              \/ wpc'[s] = "none" /\ ~Attentive',
           Undisturbed' => Undisturbed,
           Attentive' => \/ Attentive /\ UNCHANGED viewVars
                         \/ \E s \in Session : wpc'[s] = "list"
    PROVE  TopologyInv'
<1>1. TypeOK'
  BY DEF TopologyInv, TypeOK, ZkStep, Status, Event, WatchType
<1>2. ASSUME NEW s \in Session PROVE ChannelInv(s)'
  <2>1. ChannelInv(s) BY DEF TopologyInv
  <2>2. wpc'[s] \in {"delete", "add", "wait"} => wpc'[s] = wpc[s] OBVIOUS
  <2>3. ASSUME wpc'[s] \in Updating
        PROVE  /\ zkClient' \in Session /\ watch'[s].st # "idle"
               /\ watch'[s].st = "armed" => watch'[s].on = zkClient' /\ names'[s] = children'
               /\ watch'[s].st = "lost" => ~Undisturbed'
    <3>1. wpc[s] \in Updating BY <2>2, <2>3 DEF Updating
    <3>2. watch'[s].st = "armed" => watch'[s] = watch[s] /\ children' = children BY DEF ZkStep
    <3>3. watch'[s].st = "lost" => watch[s].st = "lost" \/ ~Undisturbed'
      BY <2>1, <3>1 DEF ChannelInv, ZkStep
    <3>4. watch'[s].st # "idle" BY <2>1, <3>1 DEF ChannelInv, ZkStep
    <3> QED BY <2>1, <3>1, <3>2, <3>3, <3>4 DEF ChannelInv
  <2>4. wpc'[s] = "wait" => watch'[s].st # "idle" BY <2>1, <2>2 DEF ChannelInv, ZkStep
  <2>5. wpc'[s] = "add" => todo'[s] \subseteq names'[s] BY <2>1, <2>2 DEF ChannelInv
  <2> QED BY <2>3, <2>4, <2>5 DEF ChannelInv
<1>3. ViewInv'
  <2> SUFFICES ASSUME Calm' PROVE ViewInv'
    BY DEF ViewInv
  <2>1. \A s \in Session : ~Stale(s)' BY DEF Calm
  <2>2. \A s \in Session : wpc'[s] # "list" BY <2>1 DEF Stale
  <2>3. Attentive /\ UNCHANGED viewVars BY <2>2 DEF Calm
  <2>4. \A s \in Session : wpc'[s] = wpc[s] BY <2>2 DEF Calm
  <2>5. PICK s \in Session : Fresh(s)' BY DEF Calm
  <2>6. watch[s].st = "armed" /\ children' = children BY <2>5 DEF Fresh, ZkStep
  <2>7. Fresh(s) BY <2>4, <2>5, <2>6 DEF Fresh
  <2>8. \A t \in Session : ~Stale(t)
    <3> TAKE t \in Session
    <3>1. watch'[t].st = watch[t].st \/ watch[t].st = "armed" BY DEF ZkStep
    <3> QED BY <2>1, <2>4, <3>1 DEF Stale
  <2>9. Calm BY <2>3, <2>7, <2>8 DEF Calm
  <2> QED BY <2>3, <2>4, <2>6, <2>9 DEF TopologyInv, ViewInv, viewVars, Names
<1> QED BY <1>1, <1>2, <1>3 DEF TopologyInv

-----------------------------------------------------------------------------
(* ZooKeeper and the user.                                                  *)

\* The types that the steps of ZooKeeper and of the connection need.
LEMMA Types0 ==
    ASSUME TopologyInv
    PROVE  /\ data \in [Node -> Address] /\ conn \in ConnPC /\ closed \in BOOLEAN
           /\ events \in Seq(Event) /\ disturbances \in 0 .. MaxDisturbances
           /\ nodes \in [Node -> Address \cup {Absent, Unknown}]
           /\ backends \subseteq Node \cup {Self}
           /\ wpc \in [Session -> WatchPC] /\ session \in [Session -> Status]
           /\ watch \in [Session -> WatchType]
           /\ MaxDisturbances \in Nat
BY TopologyAssumption DEF TopologyInv, TypeOK, Event, Status, WatchType

\* Nothing of the goroutine, its client and its events.
LEMMA ClientStays ==
    ASSUME TopologyInv, UNCHANGED <<zkClient, events, conn, closed, session>>
    PROVE  ClientInv' /\ (Undisturbed' <=> Undisturbed) /\ (Attentive' <=> Attentive)
BY DEF TopologyInv, ClientInv, Undisturbed, Attentive, ClientOpen, Disrupted

\* The connection is lost, and nothing else.
LEMMA BreakStep == ASSUME TopologyInv, Break PROVE TopologyInv'
<1>1. /\ zkClient \in Session /\ disturbances' = disturbances + 1 /\ disturbances < MaxDisturbances
      /\ events' = Append(events, "disconnected")
      /\ UNCHANGED <<zkVars, zkClient, conn, closed, viewVars, watchVars>>
  BY DEF Break, TopologyInv, TypeOK, Session
<1>2. ZkStep BY <1>1, NothingInZooKeeper DEF zkVars, watchVars
<1>3. ClientInv' BY <1>1 DEF TopologyInv, ClientInv
<1>4. /\ events' \in Seq(Event) /\ Len(events') = Len(events) + 1 /\ Len(events) \in Nat
      /\ events'[Len(events) + 1] = "disconnected" /\ DOMAIN events' = 1 .. Len(events')
  <2>1. "disconnected" \in Event BY DEF Event
  <2>2. events' \in Seq(Event) /\ Len(events) \in Nat BY <1>1, <2>1, Types0, AppendProperties
  <2>3. Len(events') = Len(events) + 1 /\ events'[Len(events) + 1] = "disconnected"
    BY <1>1, <2>1, Types0, AppendProperties
  <2> QED BY <2>2, <2>3
<1>5. Len(events) + 1 \in DOMAIN events' BY <1>4
<1>6. ~Undisturbed' BY <1>4, <1>5 DEF Undisturbed, Disrupted
<1>7. ~Attentive' BY <1>4, <1>5 DEF Attentive
<1>8. disturbances' \in 0 .. MaxDisturbances BY <1>1, Types0
<1> QED BY <1>1, <1>2, <1>3, <1>4, <1>6, <1>7, <1>8, Types0, QuietStep
        DEF zkVars, viewVars, watchVars

\* A session that expires takes its watches and its znode along.
LEMMA ExpireStep == ASSUME TopologyInv, NEW s \in Session, Expire(s) PROVE TopologyInv'
<1>1. /\ s # zkClient \/ Disrupted
      /\ RemoveEphemeral(s, Disarm(watch, s))
      /\ UNCHANGED <<data, session, connVars, viewVars, wpc, names, todo, disturbances>>
  BY DEF Expire
<1>2. ClientInv' /\ (Undisturbed' <=> Undisturbed) /\ (Attentive' <=> Attentive)
  BY <1>1, ClientStays DEF connVars
<1>3. s = zkClient => ~Undisturbed' BY <1>1, <1>2 DEF Undisturbed
<1>4. ZkStep BY <1>1, <1>3, Types0, SessionEnds
<1> QED BY <1>1, <1>2, <1>4, Types0, QuietStep DEF connVars, viewVars

\* The znode of a process or client that is gone goes.
LEMMA ExpireDeadStep == ASSUME TopologyInv, ExpireDead PROVE TopologyInv'
<1>1. /\ owner # 0 /\ RemoveEphemeral(owner, watch)
      /\ UNCHANGED <<data, session, connVars, viewVars, wpc, names, todo, disturbances>>
  BY DEF ExpireDead
<1>2. owner \in 1 .. Past /\ watch \in [Session -> WatchType]
  BY <1>1, TopologyAssumption DEF TopologyInv, TypeOK, WatchType, Past
<1>3. ZkStep
  <2>1. /\ children' \subseteq Node \cup {Self} /\ owner' \in 0 .. Past
        /\ (owner' # 0 <=> Self \in children')
        /\ rewritten' \in BOOLEAN /\ (rewritten' => Self \in children')
        /\ (watch' = watch /\ UNCHANGED <<children, owner, rewritten>>) \/ watch' = Fire(watch)
    BY <1>1, <1>2, EphemeralGoes DEF TopologyInv
  <2> QED BY <1>1, <2>1, ChildrenChange, NothingInZooKeeper
<1>4. ClientInv' /\ (Undisturbed' <=> Undisturbed) /\ (Attentive' <=> Attentive)
  BY <1>1, ClientStays DEF connVars
<1> QED BY <1>1, <1>3, <1>4, Types0, QuietStep DEF connVars, viewVars

\* Another node that comes or goes fires the watches.
LEMMA JoinStep == ASSUME TopologyInv, NEW n \in Node, Join(n) \/ Leave(n) PROVE TopologyInv'
<1>1. /\ disturbances' = disturbances + 1 /\ disturbances < MaxDisturbances /\ watch' = Fire(watch)
      /\ children' = children \cup {n} \/ children' = children \ {n}
      /\ data' \in [Node -> Address]
      /\ UNCHANGED <<owner, rewritten, session, connVars, viewVars, wpc, names, todo>>
  BY DEF Join, Leave, TopologyInv, TypeOK
<1>2. Self # n BY TopologyAssumption
<1>3. ZkStep BY <1>1, <1>2, ChildrenChange DEF TopologyInv, TypeOK
<1>4. ClientInv' /\ (Undisturbed' <=> Undisturbed) /\ (Attentive' <=> Attentive)
  BY <1>1, ClientStays DEF connVars
<1>5. disturbances' \in 0 .. MaxDisturbances BY <1>1, Types0
<1> QED BY <1>1, <1>3, <1>4, <1>5, Types0, QuietStep DEF connVars, viewVars

\* Close marks the client closed and ends its session.
LEMMA CloseStep == ASSUME TopologyInv, Close PROVE TopologyInv'
<1>1. /\ closed' = TRUE
      /\ UNCHANGED <<data, zkClient, viewVars, wpc, names, todo, disturbances>>
  BY DEF Close
<1>2. CASE zkClient = 0
  <2>1. UNCHANGED <<children, owner, rewritten, session, events, conn, watch>>
    BY <1>2 DEF Close
  <2>2. ZkStep BY <2>1, NothingInZooKeeper
  <2>3. ~ClientOpen /\ ~ClientOpen' BY <1>1, <1>2, Numbers DEF ClientOpen
  <2>4. ClientInv' BY <1>1, <2>1 DEF TopologyInv, ClientInv
  <2> QED BY <1>1, <2>1, <2>2, <2>3, <2>4, Types0, QuietStep
          DEF viewVars, Undisturbed, Attentive
<1>3. CASE zkClient # 0
  <2>1. zkClient \in Session BY <1>3 DEF TopologyInv, TypeOK, Session
  <2>2. CloseClient(events) BY <1>3 DEF Close
  <2>3. /\ ZkStep /\ ~ClientOpen' /\ events' \in Seq(Event)
        /\ conn' \in {conn, "panicked"} \/ (conn = "set" /\ conn' = "watch")
    BY <1>1, <2>1, <2>2, Types0, ClientCloses
  <2>4. ClientInv' BY <1>1, <2>1, <2>3, Numbers DEF TopologyInv, ClientInv
  <2>5. conn' \in ConnPC BY <2>3, Types0 DEF ConnPC
  <2> QED BY <1>1, <2>3, <2>4, <2>5, Types0, QuietStep
          DEF viewVars, Undisturbed, Attentive
<1> QED BY <1>2, <1>3

-----------------------------------------------------------------------------
(* The connection goroutine.                                                *)

\* No client is made.
LEMMA ConnectFailsStep == ASSUME TopologyInv, ConnectFails PROVE TopologyInv'
<1>1. /\ conn = "connect" /\ conn' = "lock" /\ disturbances' = disturbances + 1 /\ disturbances < MaxDisturbances
      /\ UNCHANGED <<zkVars, zkClient, events, closed, viewVars, watchVars>>
  BY DEF ConnectFails
<1>2. ZkStep BY <1>1, NothingInZooKeeper DEF zkVars, watchVars
<1>3. ~Attentive' /\ ~Undisturbed' BY <1>1 DEF Attentive, Undisturbed, Disrupted
<1>4. ClientInv' BY <1>1 DEF TopologyInv, ClientInv
<1>5. disturbances' \in 0 .. MaxDisturbances /\ "lock" \in ConnPC BY <1>1, Types0 DEF ConnPC
<1> QED BY <1>1, <1>2, <1>3, <1>4, <1>5, Types0, QuietStep DEF zkVars, viewVars, watchVars

\* An event that is taken leaves the others.
LEMMA ReceivedEvent ==
    ASSUME TopologyInv, NEW e, Received(e)
    PROVE  /\ conn = "watch" /\ events' \in Seq(Event) /\ zkClient \in Session
           /\ \A j \in DOMAIN events : events[j] = e \/ \E i \in DOMAIN events' : events'[i] = events[j]
<1>1. /\ events \in Seq(Event) /\ events # <<>> /\ Head(events) = e /\ events' = Tail(events)
      /\ conn = "watch"
  BY Types0 DEF Received
<1>2. Len(events) \in Nat \ {0} /\ DOMAIN events = 1 .. Len(events)
  BY <1>1, EmptySeq, LenProperties
<1>3. /\ Tail(events) \in Seq(Event) /\ Len(Tail(events)) = Len(events) - 1
      /\ \A i \in 1 .. Len(Tail(events)) : Tail(events)[i] = events[i + 1]
  BY <1>1, HeadTailProperties
<1>4. events[1] = e BY <1>1, HeadTailProperties
<1>5. DOMAIN events' = 1 .. Len(events) - 1 BY <1>1, <1>3, LenProperties
<1>6. ASSUME NEW j \in DOMAIN events
      PROVE  events[j] = e \/ \E i \in DOMAIN events' : events'[i] = events[j]
  <2>1. CASE j = 1 BY <1>4, <2>1
  <2>2. CASE j # 1
    <3>1. j - 1 \in DOMAIN events' /\ j - 1 \in 1 .. Len(Tail(events)) /\ (j - 1) + 1 = j
      BY <1>2, <1>3, <1>5, <2>2
    <3>2. events'[j - 1] = events[j] BY <1>1, <1>3, <3>1
    <3> QED BY <3>1, <3>2
  <2> QED BY <2>1, <2>2
<1> QED BY <1>1, <1>3, <1>6 DEF TopologyInv, ClientInv

\* The end of the events keeps the view, a disconnection clears the map.
LEMMA EventsEndStep ==
    ASSUME TopologyInv, EventsEnd \/ Disconnected
    PROVE  TopologyInv'
<1>1. PICK e \in {"end", "disconnected"} : Received(e) BY DEF EventsEnd, Disconnected
<1>2. conn = "watch" /\ events' \in Seq(Event) /\ zkClient \in Session
  BY <1>1, ReceivedEvent
<1>3. /\ conn' \in {"lock", "clearing"}
      /\ UNCHANGED <<zkVars, zkClient, closed, backends, watchVars, disturbances>>
      /\ nodes' \in [Node -> Address \cup {Absent, Unknown}]
  BY Types0 DEF EventsEnd, Disconnected, ClearNodes, viewVars
<1>4. ZkStep BY <1>3, NothingInZooKeeper DEF zkVars, watchVars
<1>5. ~Attentive' /\ ~Undisturbed' BY <1>3 DEF Attentive, Undisturbed, Disrupted
<1>6. ClientInv' BY <1>2, <1>3 DEF ClientInv
<1>7. conn' \in ConnPC BY <1>3 DEF ConnPC
<1> QED BY <1>2, <1>3, <1>4, <1>5, <1>6, <1>7, Types0, QuietStep DEF zkVars, watchVars

\* clear: first the map, then the dispatcher.
LEMMA CancelledStep ==
    ASSUME TopologyInv, Cancelled \/ ClearDispatcher
    PROVE  TopologyInv'
<1>1. /\ (conn = "watch" /\ conn' = "clearing") \/ (conn = "clearing" /\ conn' = "lock")
      /\ UNCHANGED <<zkVars, zkClient, events, closed, watchVars, disturbances>>
      /\ nodes' \in [Node -> Address \cup {Absent, Unknown}]
      /\ backends' \subseteq Node \cup {Self}
  BY Types0 DEF Cancelled, ClearDispatcher, ClearNodes, viewVars
<1>2. ZkStep BY <1>1, NothingInZooKeeper DEF zkVars, watchVars
<1>3. ClientInv' BY <1>1 DEF TopologyInv, ClientInv
<1>4. ~Attentive' /\ ~Undisturbed' BY <1>1 DEF Attentive, Undisturbed, Disrupted
<1>5. conn' \in ConnPC BY <1>1 DEF ConnPC
<1> QED BY <1>1, <1>2, <1>3, <1>4, <1>5, Types0, QuietStep DEF zkVars, watchVars

\* A client that cannot register the node is closed.
LEMMA RegisterFailsStep == ASSUME TopologyInv, RegisterFails PROVE TopologyInv'
<1>1. /\ conn \in {"watch", "set"}
      /\ UNCHANGED <<data, zkClient, closed, viewVars, wpc, names, todo, disturbances>>
  BY DEF RegisterFails, Received
<1>2. PICK pending \in Seq(Event) : CloseClient(pending)
  <2>1. CASE Received("connected") /\ CloseClient(Tail(events))
    <3>1. Tail(events) \in Seq(Event) BY <2>1, Types0, HeadTailProperties DEF Received
    <3> QED BY <2>1, <3>1
  <2>2. CASE CloseClient(events) BY <2>2, Types0
  <2> QED BY <2>1, <2>2 DEF RegisterFails
<1>3. zkClient \in Session BY <1>1 DEF TopologyInv, ClientInv
<1>4. /\ ZkStep /\ ~ClientOpen' /\ events' \in Seq(Event)
      /\ conn' \in {conn, "panicked"} \/ (conn = "set" /\ conn' = "watch")
  BY <1>1, <1>2, <1>3, ClientCloses
<1>5. ClientInv' BY <1>1, <1>3, <1>4, Numbers DEF TopologyInv, ClientInv
<1>6. conn' \in ConnPC BY <1>4, Types0 DEF ConnPC
<1> QED BY <1>1, <1>4, <1>5, <1>6, Types0, QuietStep DEF viewVars, Undisturbed, Attentive

\* The client's watcher is started, with a list to come.
LEMMA RegisterStep == ASSUME TopologyInv, Register PROVE TopologyInv'
<1>1. /\ Received("connected") /\ Self \notin children
      /\ children' = children \cup {Self} /\ owner' = zkClient /\ watch' = Fire(watch)
      /\ wpc' = [wpc EXCEPT ![zkClient] = "list"]
      /\ UNCHANGED <<data, rewritten, session, zkClient, conn, closed, viewVars, names, todo, disturbances>>
  BY DEF Register, StartWatcher
<1>2. /\ conn = "watch" /\ events' \in Seq(Event) /\ zkClient \in Session
      /\ \A j \in DOMAIN events :
            events[j] = "connected" \/ \E i \in DOMAIN events' : events'[i] = events[j]
  BY <1>1, ReceivedEvent
<1>3. owner' \in 0 .. Past /\ owner' # 0 BY <1>1, <1>2, Numbers
<1>4. ZkStep BY <1>1, <1>3, ChildrenChange DEF TopologyInv, TypeOK
<1>5. ClientInv' BY <1>1, <1>2 DEF TopologyInv, ClientInv
<1>6. /\ wpc' \in [Session -> WatchPC] /\ wpc'[zkClient] = "list"
      /\ \A s \in Session : wpc'[s] = wpc[s] \/ wpc'[s] = "list"
  BY <1>1, <1>2, Types0 DEF WatchPC
<1>7. Undisturbed' => Undisturbed BY <1>1, <1>2 DEF Undisturbed, ClientOpen, Disrupted
<1> QED BY <1>1, <1>2, <1>4, <1>5, <1>6, <1>7, Types0, QuietStep DEF viewVars

\* The znode is there already, and is to be Set.
LEMMA NodeExistsStep == ASSUME TopologyInv, NodeExists PROVE TopologyInv'
<1>1. /\ Received("connected") /\ conn' = "set"
      /\ UNCHANGED <<zkVars, zkClient, closed, viewVars, watchVars, disturbances>>
  BY DEF NodeExists
<1>2. /\ conn = "watch" /\ events' \in Seq(Event) /\ zkClient \in Session
      /\ \A j \in DOMAIN events :
            events[j] = "connected" \/ \E i \in DOMAIN events' : events'[i] = events[j]
  BY <1>1, ReceivedEvent
<1>3. ZkStep BY <1>1, NothingInZooKeeper DEF zkVars, watchVars
<1>4. ClientInv' BY <1>1, <1>2 DEF ClientInv
<1>5. Undisturbed' => Undisturbed BY <1>1, <1>2 DEF Undisturbed, ClientOpen, Disrupted, zkVars
<1>6. ~Attentive' /\ conn' \in ConnPC BY <1>1 DEF Attentive, ConnPC
<1> QED BY <1>1, <1>2, <1>3, <1>4, <1>5, <1>6, Types0, QuietStep
        DEF zkVars, viewVars, watchVars

\* The znode is Set, and the client's watcher started.
LEMMA SetStep == ASSUME TopologyInv, Set PROVE TopologyInv'
<1>1. /\ conn = "set" /\ conn' = "watch" /\ Self \in children /\ rewritten' = TRUE
      /\ wpc' = [wpc EXCEPT ![zkClient] = "list"]
      /\ UNCHANGED <<children, data, owner, session, zkClient, events, closed, viewVars,
                     names, todo, watch, disturbances>>
  BY DEF Set, Refused, StartWatcher
<1>2. zkClient \in Session BY <1>1 DEF TopologyInv, ClientInv
<1>3. ZkStep BY <1>1, Types0 DEF TopologyInv, TypeOK, ZkStep
<1>4. ClientInv' BY <1>1, <1>2 DEF ClientInv
<1>5. /\ wpc' \in [Session -> WatchPC] /\ wpc'[zkClient] = "list"
      /\ \A s \in Session : wpc'[s] = wpc[s] \/ wpc'[s] = "list"
  BY <1>1, <1>2, Types0 DEF WatchPC
<1>6. Undisturbed' => Undisturbed BY <1>1 DEF Undisturbed, ClientOpen, Disrupted
<1>7. conn' \in ConnPC BY <1>1 DEF ConnPC
<1> QED BY <1>1, <1>2, <1>3, <1>4, <1>5, <1>6, <1>7, Types0, QuietStep DEF viewVars

\* A client is made while no watcher updates the view.
LEMMA ConnectStep == ASSUME TopologyInv, Connect PROVE TopologyInv'
<1>1. /\ conn = "connect" /\ conn' = "watch" /\ events' = <<"connected">>
      /\ UNCHANGED <<children, data, owner, rewritten, closed, viewVars, watchVars, disturbances>>
  BY DEF Connect
<1>2. PICK s \in Session : session' = [session EXCEPT ![s] = "open"] /\ zkClient' = s
  BY DEF Connect
<1>3. zkClient = 0 /\ \A t \in Session : wpc[t] \notin Updating
  BY <1>1, Numbers DEF TopologyInv, ClientInv, ChannelInv
<1>4. session' \in [Session -> Status] BY <1>2, Types0 DEF Status
<1>5. events' \in Seq(Event) /\ events' # <<>> BY <1>1 DEF Event
<1>6. TypeOK'
  <2>1. zkClient' \in 0 .. Sessions BY <1>2, Numbers
  <2>2. conn' \in ConnPC BY <1>1 DEF ConnPC
  <2> QED BY <1>1, <1>4, <1>5, <2>1, <2>2
          DEF TopologyInv, TypeOK, viewVars, watchVars, Status, Event
<1>7. ClientInv' BY <1>1, <1>2 DEF ClientInv
<1>8. ASSUME NEW t \in Session PROVE ChannelInv(t)'
  <2>1. ChannelInv(t) BY DEF TopologyInv
  <2> QED BY <1>1, <1>3, <2>1 DEF ChannelInv, watchVars, Updating
<1>9. ~Calm' BY <1>5 DEF Calm, Attentive
<1> QED BY <1>6, <1>7, <1>8, <1>9 DEF TopologyInv, ViewInv

\* The client is dropped while no watcher updates the view.
LEMMA ResetStep == ASSUME TopologyInv, Reset PROVE TopologyInv'
<1>1. /\ conn = "lock" /\ conn' = (IF closed THEN "done" ELSE "connect")
      /\ \A s \in Session : wpc[s] \notin Updating
      /\ zkClient' = 0 /\ events' = <<>>
      /\ UNCHANGED <<zkVars, closed, viewVars, watchVars, disturbances>>
  BY DEF Reset, DropClient, Updating
<1>2. events' \in Seq(Event) BY <1>1
<1>3. TypeOK'
  BY <1>1, <1>2, Numbers
     DEF TopologyInv, TypeOK, zkVars, viewVars, watchVars, Event, ConnPC
<1>4. ClientInv' BY <1>1 DEF ClientInv
<1>5. ASSUME NEW t \in Session PROVE ChannelInv(t)'
  <2>1. ChannelInv(t) BY DEF TopologyInv
  <2> QED BY <1>1, <2>1 DEF ChannelInv, watchVars, Updating
<1>6. ~Calm' BY <1>1 DEF Calm, Attentive
<1> QED BY <1>3, <1>4, <1>5, <1>6 DEF TopologyInv, ViewInv

-----------------------------------------------------------------------------
(* The watchers.                                                            *)

\* A watcher that cannot list ends.
LEMMA ListEndsStep ==
    ASSUME TopologyInv, NEW s \in Session, ListEnds(s) \/ ListFails(s)
    PROVE  TopologyInv'
<1>1. /\ wpc[s] = "list" /\ wpc' = [wpc EXCEPT ![s] = "none"]
      /\ UNCHANGED <<data, zkClient, closed, viewVars, names, todo>>
      /\ disturbances' \in 0 .. MaxDisturbances
  BY Types0 DEF ListEnds, ListFails, zkVars, connVars
<1>2. wpc' \in [Session -> WatchPC] /\ \A t \in Session : t # s => wpc'[t] = wpc[t]
  BY <1>1, Types0 DEF WatchPC
<1>3. /\ ZkStep /\ ~Attentive' /\ ClientInv' /\ events' \in Seq(Event)
      /\ conn' \in ConnPC /\ (Undisturbed' => Undisturbed)
  <2>1. CASE ListEnds(s)
    <3>1. /\ UNCHANGED <<zkVars, connVars, watch>>
          /\ (zkClient # 0 => session[zkClient] = "closed" \/ Disrupted)
      BY <2>1 DEF ListEnds
    <3>2. ZkStep BY <3>1, NothingInZooKeeper DEF zkVars
    <3>3. ClientInv' /\ (Undisturbed' <=> Undisturbed) /\ (Attentive' <=> Attentive)
      BY <3>1, ClientStays DEF connVars, zkVars
    <3>4. ~Attentive
      <4>1. SUFFICES ASSUME Attentive PROVE FALSE OBVIOUS
      <4>2. Disrupted BY <3>1, <4>1, Numbers DEF Attentive, ClientOpen
      <4> QED BY <4>1, <4>2 DEF Attentive, Disrupted
    <3> QED BY <3>1, <3>2, <3>3, <3>4, Types0 DEF connVars
  <2>2. CASE ListFails(s)
    <3>1. zkClient \in Session /\ CloseClient(events)
      BY <2>2 DEF ListFails, TopologyInv, TypeOK, Session
    <3>2. /\ ZkStep /\ ~ClientOpen' /\ events' \in Seq(Event)
          /\ conn' \in {conn, "panicked"} \/ (conn = "set" /\ conn' = "watch")
      BY <1>1, <3>1, Types0, ClientCloses
    <3>3. ClientInv' BY <1>1, <3>1, <3>2, Numbers DEF TopologyInv, ClientInv
    <3> QED BY <3>2, <3>3, Types0 DEF Attentive, Undisturbed, ConnPC
  <2> QED BY <2>1, <2>2
<1>4. \A t \in Session : wpc'[t] = wpc[t] \/ (wpc'[t] = "none" /\ ~Attentive')
  BY <1>1, <1>2, <1>3, Types0
<1> QED BY <1>1, <1>2, <1>3, <1>4, Types0, QuietStep DEF viewVars

\* A step of one watcher, of which only this and the view has to be said.
LEMMA WatcherStep ==
    ASSUME TopologyInv, NEW s \in Session, UNCHANGED <<zkVars, connVars, disturbances>>,
           nodes' \in [Node -> Address \cup {Absent, Unknown}],
           backends' \subseteq Node \cup {Self},
           wpc' \in [Session -> WatchPC], watch' \in [Session -> WatchType],
           names' \in [Session -> SUBSET (Node \cup {Self})],
           todo' \in [Session -> SUBSET Node],
           \A t \in Session : t # s =>
              wpc'[t] = wpc[t] /\ watch'[t] = watch[t] /\ names'[t] = names[t] /\ todo'[t] = todo[t],
           ChannelInv(s)', ViewInv'
    PROVE  TopologyInv'
<1>1. TypeOK' BY DEF TopologyInv, TypeOK, zkVars, connVars, WatchType
<1>2. ClientInv' BY DEF TopologyInv, ClientInv, zkVars, connVars
<1>3. ASSUME NEW t \in Session, t # s PROVE ChannelInv(t)'
  <2>1. ChannelInv(t) BY DEF TopologyInv
  <2> QED BY <1>3, <2>1 DEF ChannelInv, Undisturbed, ClientOpen, Disrupted, zkVars, connVars
<1> QED BY <1>1, <1>2, <1>3 DEF TopologyInv

\* The types of what the watchers work with.
LEMMA Types1 ==
    ASSUME TopologyInv
    PROVE  /\ watch \in [Session -> WatchType] /\ wpc \in [Session -> WatchPC]
           /\ names \in [Session -> SUBSET (Node \cup {Self})]
           /\ todo \in [Session -> SUBSET Node]
           /\ children \subseteq Node \cup {Self}
           /\ nodes \in [Node -> Address \cup {Absent, Unknown}]
           /\ backends \subseteq Node \cup {Self}
BY DEF TopologyInv, TypeOK, WatchType

\* The watcher has the children of now, and everything before it.
LEMMA ListStep == ASSUME TopologyInv, NEW s \in Session, List(s) PROVE TopologyInv'
<1>1. /\ wpc[s] = "list" /\ zkClient \in Session /\ session[zkClient] = "open"
      /\ names' = [names EXCEPT ![s] = children]
      /\ watch' = [watch EXCEPT ![s] = [on |-> zkClient, st |-> "armed"]]
      /\ wpc' = [wpc EXCEPT ![s] = "delete"]
      /\ UNCHANGED <<zkVars, connVars, viewVars, todo, disturbances>>
  <2>1. zkClient \in Session BY DEF List, TopologyInv, TypeOK, Session
  <2> QED BY <2>1 DEF List
<1>2. [on |-> zkClient, st |-> "armed"] \in WatchType BY <1>1, Numbers DEF WatchType
<1>3. /\ wpc' \in [Session -> WatchPC] /\ watch' \in [Session -> WatchType]
      /\ names' \in [Session -> SUBSET (Node \cup {Self})]
      /\ wpc'[s] = "delete" /\ names'[s] = children
      /\ watch'[s] = [on |-> zkClient, st |-> "armed"]
      /\ \A t \in Session : t # s =>
              wpc'[t] = wpc[t] /\ watch'[t] = watch[t] /\ names'[t] = names[t]
  BY <1>1, <1>2, Types1 DEF WatchPC
<1>4. ChannelInv(s)' BY <1>1, <1>3 DEF ChannelInv, Updating, zkVars, connVars
<1>5. ViewInv' BY <1>3 DEF ViewInv
<1> QED BY <1>1, <1>3, <1>4, <1>5, Types1, WatcherStep DEF viewVars

\* The watcher waits, lists again, or ends: it was before nothing.
LEMMA WakeStep ==
    ASSUME TopologyInv, NEW s \in Session, Wake(s) \/ NotWatching(s)
    PROVE  TopologyInv'
<1>1. /\ wpc[s] = "wait" /\ watch' = [watch EXCEPT ![s] = NoWatch]
      /\ \/ watch[s].st = "fired" /\ wpc' = [wpc EXCEPT ![s] = "list"]
         \/ watch[s].st = "lost" /\ wpc' = [wpc EXCEPT ![s] = "none"]
      /\ UNCHANGED <<zkVars, connVars, viewVars, names, todo, disturbances>>
  BY DEF Wake, NotWatching
<1>2. NoWatch \in WatchType BY Numbers DEF NoWatch, WatchType
<1>3. /\ wpc' \in [Session -> WatchPC] /\ watch' \in [Session -> WatchType]
      /\ watch'[s] = NoWatch
      /\ (watch[s].st = "fired" /\ wpc'[s] = "list") \/ (watch[s].st = "lost" /\ wpc'[s] = "none")
      /\ \A t \in Session : t # s => wpc'[t] = wpc[t] /\ watch'[t] = watch[t]
  BY <1>1, <1>2, Types1 DEF WatchPC
<1>4. ChannelInv(s)' BY <1>3 DEF ChannelInv, Updating, NoWatch
<1>5. ViewInv'
  <2> SUFFICES ASSUME Calm' PROVE ViewInv'
    BY DEF ViewInv
  <2>1. ~Stale(s)' BY DEF Calm
  <2>2. watch[s].st = "lost" /\ wpc'[s] = "none" BY <1>3, <2>1 DEF Stale
  <2>3. \A t \in Session : t # s => ~Stale(t) BY <1>3 DEF Calm, Stale
  <2>4. ~Stale(s) BY <1>1, <2>2 DEF Stale
  <2>5. PICK t \in Session : Fresh(t)' BY DEF Calm
  <2>6. Fresh(t) BY <1>3, <2>2, <2>5 DEF Fresh
  <2>7. Calm BY <1>1, <2>3, <2>4, <2>6 DEF Calm, Attentive, ClientOpen, zkVars, connVars
  <2>8. \A u \in Session : wpc[u] \in {"delete", "add"} => wpc'[u] = wpc[u]
    BY <1>1, <1>3
  <2>9. UNCHANGED <<nodes, backends, children, todo>> BY <1>1 DEF zkVars, viewVars
  <2> QED BY <2>7, <2>8, <2>9 DEF TopologyInv, ViewInv, Names
<1> QED BY <1>1, <1>3, <1>4, <1>5, Types1, WatcherStep DEF viewVars

\* A step of a watcher that is updating the view, with what it listed.
LEMMA FreshStays ==
    ASSUME TopologyInv, NEW s \in Session, wpc[s] \in {"delete", "add"},
           UNCHANGED <<zkVars, connVars, watch>>, wpc'[s] \in {"delete", "add", "wait"},
           \A t \in Session : t # s => wpc'[t] = wpc[t],
           Calm'
    PROVE  Calm /\ Fresh(s) /\ names[s] = children
<1>1. ChannelInv(s) BY DEF TopologyInv
<1>2. Attentive BY DEF Calm, Attentive, ClientOpen, zkVars, connVars
<1>3. ~Stale(s)' BY DEF Calm
<1>4. Undisturbed BY <1>2 DEF Attentive, Undisturbed, Disrupted
<1>5. watch[s].st = "armed"
  <2>1. watch[s].st \in {"armed", "fired", "lost"}
    <3>1. watch[s] \in WatchType BY Types1
    <3> QED BY <1>1, <3>1 DEF ChannelInv, Updating, WatchType
  <2> QED BY <1>1, <1>3, <1>4, <2>1 DEF ChannelInv, Updating, Stale
<1>6. Fresh(s) /\ names[s] = children /\ ~Stale(s)
  BY <1>1, <1>5 DEF Fresh, ChannelInv, Updating, Stale
<1>7. \A t \in Session : t # s => ~Stale(t) BY DEF Calm, Stale
<1> QED BY <1>2, <1>6, <1>7 DEF Calm

\* Names that the list lacks leave the map; those of the list are still before
\* this watcher.
LEMMA DeleteStep == ASSUME TopologyInv, NEW s \in Session, Delete(s) PROVE TopologyInv'
<1>1. /\ wpc[s] = "delete"
      /\ nodes' = [n \in Node |-> IF n \in names[s] THEN nodes[n] ELSE Absent]
      /\ todo' = [todo EXCEPT ![s] = names[s] \ {Self}]
      /\ wpc' = [wpc EXCEPT ![s] = "add"]
      /\ UNCHANGED <<zkVars, connVars, backends, names, watch, disturbances>>
  BY DEF Delete
<1>2. names[s] \ {Self} \subseteq Node BY Types1
<1>3. /\ wpc' \in [Session -> WatchPC] /\ todo' \in [Session -> SUBSET Node]
      /\ nodes' \in [Node -> Address \cup {Absent, Unknown}]
      /\ wpc'[s] = "add" /\ todo'[s] = names[s] \ {Self}
      /\ \A t \in Session : t # s => wpc'[t] = wpc[t] /\ todo'[t] = todo[t]
  BY <1>1, <1>2, Types1 DEF WatchPC
<1>4. ChannelInv(s)'
  <2>1. ChannelInv(s) BY DEF TopologyInv
  <2> QED BY <1>1, <1>3, <2>1
          DEF ChannelInv, Updating, Undisturbed, ClientOpen, Disrupted, zkVars, connVars
<1>5. ViewInv'
  <2> SUFFICES ASSUME Calm' PROVE ViewInv'
    BY DEF ViewInv
  <2>1. names[s] = children BY <1>1, <1>3, FreshStays
  <2>2. children' = children BY <1>1 DEF zkVars
  <2>3. Names' \subseteq children' BY <1>1, <2>1, <2>2 DEF Names
  <2>4. \A n \in children' \ {Self} : n \in todo'[s] BY <1>3, <2>1, <2>2
  <2> QED BY <1>3, <2>3, <2>4 DEF ViewInv
<1> QED BY <1>1, <1>3, <1>4, <1>5, Types1, WatcherStep

\* One name is added to the map and is no longer before this watcher.
LEMMA VisitStep == ASSUME TopologyInv, NEW s \in Session, Visit(s) PROVE TopologyInv'
<1>1. PICK n \in todo[s] : /\ AddNode(n) /\ todo' = [todo EXCEPT ![s] = todo[s] \ {n}]
  BY Types1 DEF Visit
<1>2. wpc[s] = "add" /\ UNCHANGED <<zkVars, connVars, backends, wpc, names, watch, disturbances>>
  BY DEF Visit
<1>3. n \in Node BY <1>1, Types1
<1>4. /\ nodes' \in [Node -> Address \cup {Absent, Unknown}]
      /\ nodes'[n] # Absent
      /\ \A m \in Node : m # n => nodes'[m] = nodes[m]
  <2>1. CASE nodes[n] # Absent BY <1>1, <2>1, Types1 DEF AddNode, CanGet
  <2>2. CASE nodes[n] = Absent
    <3>1. PICK a \in Address \cup {Unknown} : nodes' = [nodes EXCEPT ![n] = a]
      BY <1>1, <1>3, <2>2 DEF AddNode, CanGet, TopologyInv, TypeOK
    <3> QED BY <1>3, <3>1, Types1, TopologyAssumption
  <2> QED BY <2>1, <2>2
<1>5. /\ todo' \in [Session -> SUBSET Node] /\ todo'[s] = todo[s] \ {n}
      /\ \A t \in Session : t # s => todo'[t] = todo[t]
  BY <1>1, Types1
<1>6. ChannelInv(s)'
  <2>1. ChannelInv(s) BY DEF TopologyInv
  <2> QED BY <1>2, <1>5, <2>1
          DEF ChannelInv, Updating, Undisturbed, ClientOpen, Disrupted, zkVars, connVars
<1>7. ViewInv'
  <2> SUFFICES ASSUME Calm' PROVE ViewInv'
    BY DEF ViewInv
  <2>1. Calm /\ names[s] = children BY <1>2, FreshStays
  <2>2. children' = children BY <1>2 DEF zkVars
  <2>3. n \in children
    <3>1. ChannelInv(s) BY DEF TopologyInv
    <3> QED BY <1>1, <1>2, <2>1, <3>1 DEF ChannelInv
  <2>4. \A m \in Node : m \in Names' <=> m \in Names \/ m = n BY <1>3, <1>4 DEF Names
  <2>5. Names \subseteq children => Names' \subseteq children' BY <2>2, <2>3, <2>4 DEF Names
  <2>6. ASSUME NEW m \in children' \ {Self}
        PROVE  \/ m \in Names'
               \/ \E t \in Session : wpc'[t] = "delete" \/ (wpc'[t] = "add" /\ m \in todo'[t])
    <3>1. m \in Node BY <2>2, Types1
    <3>2. CASE m \in Names \/ m = n BY <2>4, <3>1, <3>2
    <3>3. CASE ~(m \in Names \/ m = n)
      <4>1. PICK t \in Session : wpc[t] = "delete" \/ (wpc[t] = "add" /\ m \in todo[t])
        BY <2>1, <2>2, <3>3 DEF TopologyInv, ViewInv
      <4> QED BY <1>2, <1>5, <3>3, <4>1
    <3> QED BY <3>2, <3>3
  <2> QED BY <1>2, <2>1, <2>5, <2>6 DEF TopologyInv, ViewInv
<1> QED BY <1>2, <1>4, <1>5, <1>6, <1>7, Types1, WatcherStep

\* The dispatcher gets what the map has, and the watcher waits.
LEMMA SetDispatcherStep ==
    ASSUME TopologyInv, NEW s \in Session, SetDispatcher(s)
    PROVE  TopologyInv'
<1>1. /\ wpc[s] = "add" /\ todo[s] = {} /\ backends' = names[s]
      /\ names' = [names EXCEPT ![s] = {}]
      /\ wpc' = [wpc EXCEPT ![s] = "wait"]
      /\ UNCHANGED <<zkVars, connVars, nodes, todo, watch, disturbances>>
  BY DEF SetDispatcher
<1>2. /\ wpc' \in [Session -> WatchPC] /\ names' \in [Session -> SUBSET (Node \cup {Self})]
      /\ backends' \subseteq Node \cup {Self} /\ wpc'[s] = "wait"
      /\ \A t \in Session : t # s => wpc'[t] = wpc[t] /\ names'[t] = names[t]
  BY <1>1, Types1 DEF WatchPC
<1>3. ChannelInv(s)'
  <2>1. ChannelInv(s) BY DEF TopologyInv
  <2> QED BY <1>1, <1>2, <2>1
          DEF ChannelInv, Updating, Undisturbed, ClientOpen, Disrupted, zkVars, connVars
<1>4. ViewInv'
  <2> SUFFICES ASSUME Calm' PROVE ViewInv'
    BY DEF ViewInv
  <2>1. Calm /\ names[s] = children BY <1>1, <1>2, FreshStays
  <2>2. children' = children /\ Names' = Names BY <1>1 DEF zkVars, Names
  <2>3. \A t \in Session : wpc[t] = "delete" => wpc'[t] = "delete" BY <1>1, <1>2
  <2>4. \A t \in Session : \A n \in todo[t] : wpc[t] = "add" => wpc'[t] = "add"
    BY <1>1, <1>2
  <2>5. backends' = children' BY <1>1, <2>1, <2>2
  <2> QED BY <1>1, <2>1, <2>2, <2>3, <2>4, <2>5 DEF TopologyInv, ViewInv
<1> QED BY <1>1, <1>2, <1>3, <1>4, Types1, WatcherStep

-----------------------------------------------------------------------------
(* The theorems.                                                            *)

\* Nothing is connected, and no watcher runs.
LEMMA InitTopology == Init => TopologyInv
<1> SUFFICES ASSUME Init PROVE TopologyInv
  OBVIOUS
<1>1. 0 \in 0 .. MaxDisturbances /\ 0 \in 0 .. Sessions
  BY TopologyAssumption
<1>2. events \in Seq(Event) /\ DOMAIN events = {} BY DEF Init
<1>3. [on |-> 0, st |-> "idle"] \in WatchType BY <1>1 DEF WatchType
<1>4. TypeOK
  <2>1. /\ children \subseteq Node \cup {Self} /\ owner \in 0 .. Past
        /\ (owner # 0 <=> Self \in children)
        /\ rewritten \in BOOLEAN /\ (rewritten => Self \in children)
    <3>1. CASE children \in SUBSET Node /\ owner = 0 /\ rewritten = FALSE
      BY <3>1, Numbers, TopologyAssumption
    <3>2. CASE /\ \E others \in SUBSET Node : children = others \cup {Self}
               /\ owner = Past /\ rewritten \in BOOLEAN
      BY <3>2, Numbers
    <3> QED BY <3>1, <3>2 DEF Init
  <2>2. conn \in ConnPC /\ \A s \in Session : wpc[s] \in WatchPC BY DEF Init, ConnPC, WatchPC
  <2>3. watch \in [Session -> WatchType] BY <1>3 DEF Init, NoWatch
  <2> QED BY <1>1, <1>2, <2>1, <2>2, <2>3 DEF Init, TypeOK, Event, WatchType
<1>5. ClientInv BY <1>2 DEF Init, ClientInv
<1>6. \A s \in Session : ChannelInv(s) BY DEF Init, ChannelInv, Updating, NoWatch
<1>7. ViewInv BY DEF Init, ViewInv, Calm, Attentive
<1> QED BY <1>4, <1>5, <1>6, <1>7 DEF TopologyInv

\* Every step keeps the invariant.
LEMMA NextTopology == TopologyInv /\ [Next]_vars => TopologyInv'
<1> SUFFICES ASSUME TopologyInv, [Next]_vars PROVE TopologyInv'
  OBVIOUS
<1>1. CASE Break \/ ExpireDead BY <1>1, BreakStep, ExpireDeadStep
<1>2. CASE \E n \in Node : Join(n) \/ Leave(n) BY <1>2, JoinStep
<1>3. CASE ConnStep
  BY <1>3, ConnectStep, ConnectFailsStep, EventsEndStep, CancelledStep, ResetStep,
     RegisterStep, NodeExistsStep, SetStep, RegisterFailsStep DEF ConnStep
<1>4. CASE Close BY <1>4, CloseStep
<1>5. ASSUME NEW s \in Session, Expire(s) \/ WatchStep(s) PROVE TopologyInv'
  BY <1>5, ExpireStep, ListStep, ListEndsStep, DeleteStep, VisitStep, SetDispatcherStep, WakeStep
     DEF WatchStep
<1>6. CASE UNCHANGED vars
  <2>1. ZkStep BY <1>6, NothingInZooKeeper DEF vars, zkVars, watchVars
  <2>2. ClientInv' /\ (Undisturbed' <=> Undisturbed) /\ (Attentive' <=> Attentive)
    BY <1>6, ClientStays DEF vars, connVars, zkVars
  <2> QED BY <1>6, <2>1, <2>2, Types0, QuietStep
          DEF vars, connVars, viewVars, zkVars, watchVars
<1> QED BY <1>1, <1>2, <1>3, <1>4, <1>5, <1>6 DEF Next

\* A watcher that updates the view has a client and, while its channel is armed,
\* the names that the children are; when no watcher has to list again, and the
\* goroutine has nothing to do, what the view lacks is still before one of them.
THEOREM TopologyInvariance == Spec => []TopologyInv
<1>1. Init => TopologyInv BY InitTopology
<1>2. TopologyInv /\ [Next]_vars => TopologyInv' BY NextTopology
<1> QED BY <1>1, <1>2, PTL DEF Spec

\* The node's znode is there exactly when a session owns it, and is only
\* rewritten while it is there.
THEOREM TopologyTypeCorrectness == Spec => []TypeOK
<1>1. TopologyInv => TypeOK BY DEF TopologyInv
<1> QED BY <1>1, TopologyInvariance, PTL

\* Whenever all watchers wait, the map has exactly the other registered nodes
\* and the dispatcher all registered names, however many watchers of earlier
\* sessions work on the same map and whatever clear did to it.
THEOREM SettledViews == Spec => []SettledViewIsExact
<1>1. ASSUME TopologyInv, Settled PROVE Names = children \ {Self} /\ backends = children
  <2>1. zkClient \in Session BY <1>1 DEF TopologyInv, ClientInv, Settled
  <2>2. \A s \in Session : wpc[s] \notin {"list", "delete", "add"} BY <1>1 DEF Settled
  <2>3. Calm BY <1>1, <2>1, <2>2 DEF Settled, Calm, Attentive, ClientOpen, Fresh, Stale
  <2>4. Self \notin Names BY TopologyAssumption DEF Names
  <2> QED BY <1>1, <2>2, <2>3, <2>4 DEF TopologyInv, ViewInv
<1>2. TopologyInv => SettledViewIsExact BY <1>1 DEF SettledViewIsExact
<1> QED BY <1>2, TopologyInvariance, PTL
=============================================================================
