-------------------------- MODULE DistributionProofs --------------------------
(***************************************************************************)
(* Proofs about Distribution, for any nodes, paths, requests and pools:    *)
(* the types, with the bound of the pools, for any changes of the topology *)
(* and, while the nodes keep knowing each other, where directories and     *)
(* files are, that one mkdir wins, and that what is acknowledged is found. *)
(***************************************************************************)
EXTENDS Distribution, FiniteSetTheorems, TLAPS

Known == Dir \cup {Root}
Working == {"serving", "recovering", "retry"}

\* Typing for TypeOK's parts.
PC == {"idle", "queued", "serving", "recovering", "retry"} \cup Outcome
JobType == [pc : PC, op : Op, path : Path \cup {None}, at : Node \cup {None}, traversed : BOOLEAN]
HeadType == [pc : {"none", "sent", "directory", "missing"}, at : Node \cup {None},
             traversed : BOOLEAN]

\* What a request j with the HEAD request h has in each of its places.
JobOK(j, h) ==
    /\ j.pc = "idle" => j.at = None
    /\ j.pc # "idle" =>
          /\ j.at \in Node /\ j.path \in Path
          /\ j.op = "mkdir" => j.path \in Dir
          /\ j.op = "create" => j.path \in File
    /\ j.pc \in Working => j.op # "get"
    /\ j.pc = "recovering" <=> h.pc # "none"
    /\ j.pc = "recovering" => Parent[j.path] \in Dir /\ h.at \in Node
JobInv == \A r \in Request : JobOK(job[r], head[r])

PoolInv == \A n \in Node : IsFiniteSet(Busy(n)) /\ Cardinality(Busy(n)) <= PoolSize

TypeInv ==
    /\ dirs \in [Node -> SUBSET Known]
    /\ \A n \in Node : Closed(dirs[n]) /\ Root \in dirs[n]
    /\ files \in [Node -> SUBSET File]
    /\ nodes \in [Node -> SUBSET Node] /\ changes \in 0 .. MaxChanges
    /\ up \subseteq Node
    /\ job \in [Request -> JobType] /\ head \in [Request -> HeadType]
    /\ JobInv /\ PoolInv

-----------------------------------------------------------------------------
(* Trees of directories.                                                    *)

\* The directories MkdirAll makes for d: d, closed, and in every closed set
\* with d.
LEMMA AncestorsClosed ==
    ASSUME NEW d \in Known
    PROVE  /\ Ancestors(d) \subseteq Known /\ d \in Ancestors(d) /\ Closed(Ancestors(d))
           /\ \A ds \in SUBSET Known : d \in ds /\ Closed(ds) => Ancestors(d) \subseteq ds
<1>1. Ancestors(d) \subseteq Known BY DEF Ancestors, Known
<1>2. d \in Ancestors(d) BY DEF Ancestors, Known
<1>3. \A ds \in SUBSET Known : d \in ds /\ Closed(ds) => Ancestors(d) \subseteq ds
  BY DEF Ancestors, Known
<1>4. ASSUME NEW e \in Ancestors(d) \ {Root} PROVE Parent[e] \in Ancestors(d)
  <2>1. e \in Path BY <1>1, <1>4 DEF Known, Path
  <2>2. Parent[e] \in Known BY <2>1, PathAssumption DEF Known
  <2>3. ASSUME NEW ds \in SUBSET Known, d \in ds, Closed(ds) PROVE Parent[e] \in ds
    <3>1. e \in ds BY <1>3, <1>4, <2>3
    <3> QED BY <1>4, <2>3, <3>1 DEF Closed
  <2> QED BY <2>2, <2>3 DEF Ancestors, Known
<1> QED BY <1>1, <1>2, <1>3, <1>4 DEF Closed

\* A tree stays one when a directory is made in it, or another tree is added.
LEMMA TreeGrows ==
    ASSUME NEW ds \in SUBSET Known, Closed(ds), Root \in ds
    PROVE  /\ \A d \in Dir : Parent[d] \in ds => Closed(ds \cup {d})
           /\ \A d \in Known : ds \cup Ancestors(d) \in SUBSET Known /\ Closed(ds \cup Ancestors(d))
<1>1. \A d \in Dir : Parent[d] \in ds => Closed(ds \cup {d}) BY DEF Closed
<1>2. ASSUME NEW d \in Known
      PROVE  ds \cup Ancestors(d) \in SUBSET Known /\ Closed(ds \cup Ancestors(d))
  BY AncestorsClosed DEF Closed
<1> QED BY <1>1, <1>2

\* A node is never responsible in its own eyes.
LEMMA ResponsibleType ==
    ASSUME nodes \in [Node -> SUBSET Node], NEW n \in Node, NEW p \in Path
    PROVE  GetNodeForObject(n, p) \in Node \cup {None}
<1>1. nodes[n] \cup {n} \in (SUBSET Node) \ {{}} OBVIOUS
<1>2. Maglev[nodes[n] \cup {n}] \in [Path -> nodes[n] \cup {n}] BY <1>1, MaglevAssumption
<1> QED BY <1>1, <1>2 DEF GetNodeForObject

-----------------------------------------------------------------------------
(* Types and pools.                                                         *)

\* The types are part of their inductive invariant.
LEMMA TypeInvIsTyping == TypeInv => TypeOK
BY DEF TypeInv, TypeOK, Known, JobType, HeadType, PC, JobInv, JobOK, PoolInv

\* Only Serve gives a worker something to do: if no other request comes to
\* keep a worker of a node, the pools stay within their size.
LEMMA BusyShrinks ==
    ASSUME PoolInv,
           \A r \in Request : job'[r].pc \in Working =>
              job[r].pc \in Working /\ job[r].at = job'[r].at
    PROVE  PoolInv'
<1> SUFFICES ASSUME NEW n \in Node
             PROVE  IsFiniteSet(Busy(n)') /\ Cardinality(Busy(n)') <= PoolSize
  BY DEF PoolInv
<1>1. Busy(n)' \subseteq Busy(n) BY DEF Busy, Working
<1>2. IsFiniteSet(Busy(n)) /\ Cardinality(Busy(n)) <= PoolSize BY DEF PoolInv
<1>3. IsFiniteSet(Busy(n)') /\ Cardinality(Busy(n)') <= Cardinality(Busy(n))
  BY <1>1, <1>2, FS_Subset
<1>4. Cardinality(Busy(n)') \in Nat /\ Cardinality(Busy(n)) \in Nat
  BY <1>2, <1>3, FS_CardinalityType
<1> QED BY <1>2, <1>3, <1>4, BoundAssumption

\* A worker that is free takes one request.
LEMMA FreeWorkerServes ==
    ASSUME PoolInv, NEW r \in Request, WorkerFree(job[r].at),
           \A q \in Request \ {r} : job'[q] = job[q], job'[r].at = job[r].at
    PROVE  PoolInv'
<1> SUFFICES ASSUME NEW n \in Node
             PROVE  IsFiniteSet(Busy(n)') /\ Cardinality(Busy(n)') <= PoolSize
  BY DEF PoolInv
<1>1. IsFiniteSet(Busy(n)) /\ Cardinality(Busy(n)) <= PoolSize BY DEF PoolInv
<1>2. CASE n # job[r].at
  <2>1. Busy(n)' = Busy(n) BY <1>2 DEF Busy
  <2> QED BY <1>1, <2>1
<1>3. CASE n = job[r].at
  <2>1. Busy(n)' \subseteq Busy(n) \cup {r} BY DEF Busy
  <2>2. IsFiniteSet(Busy(n) \cup {r})
        /\ Cardinality(Busy(n) \cup {r}) <= Cardinality(Busy(n)) + 1
    <3>1. IsFiniteSet(Busy(n) \cup {r}) /\ Cardinality(Busy(n) \cup {r}) =
             (IF r \in Busy(n) THEN Cardinality(Busy(n)) ELSE Cardinality(Busy(n)) + 1)
      BY <1>1, FS_AddElement
    <3> QED BY <1>1, <3>1, FS_CardinalityType
  <2>3. IsFiniteSet(Busy(n)') /\ Cardinality(Busy(n)') <= Cardinality(Busy(n) \cup {r})
    BY <2>1, <2>2, FS_Subset
  <2>4. /\ Cardinality(Busy(n)) \in Nat /\ Cardinality(Busy(n)') \in Nat
        /\ Cardinality(Busy(n) \cup {r}) \in Nat
    BY <1>1, <2>2, <2>3, FS_CardinalityType
  <2>5. Cardinality(Busy(n)) < PoolSize BY <1>3 DEF WorkerFree
  <2> QED BY <2>2, <2>3, <2>4, <2>5, BoundAssumption
<1> QED BY <1>2, <1>3

\* Initially no request is on its way and every pool is free.
LEMMA InitTypes == Init => TypeInv
<1> SUFFICES ASSUME Init PROVE TypeInv
  OBVIOUS
<1>1. \A n \in Node : Busy(n) = {} BY DEF Init, Busy
<1>2. PoolInv BY <1>1, FS_EmptySet, BoundAssumption DEF PoolInv
<1>3. \A n \in Node : Closed(dirs[n]) /\ Root \in dirs[n] BY DEF Init, Closed
<1>4. job \in [Request -> JobType] /\ head \in [Request -> HeadType]
      /\ \A r \in Request : job[r].pc = "idle" /\ head[r].pc = "none"
  BY DEF Init, JobType, HeadType, PC, Op
<1>5. JobInv BY <1>4 DEF Init, JobInv, JobOK, Working
<1>6. changes \in 0 .. MaxChanges BY BoundAssumption DEF Init
<1>7. dirs \in [Node -> SUBSET Known] /\ files \in [Node -> SUBSET File]
      /\ nodes \in [Node -> SUBSET Node] /\ up \subseteq Node
  BY DEF Init, Known
<1> QED BY <1>2, <1>3, <1>4, <1>5, <1>6, <1>7 DEF TypeInv

\* A step that changes one request, its HEAD request and the directories keeps
\* the types if what it makes of them fits.
LEMMA OneRequest ==
    ASSUME TypeInv, PoolInv', NEW r \in Request, NEW j \in JobType, NEW h \in HeadType,
           JobOK(j, h), job' = [job EXCEPT ![r] = j], head' = [head EXCEPT ![r] = h],
           dirs' \in [Node -> SUBSET Known],
           \A n \in Node : Closed(dirs'[n]) /\ Root \in dirs'[n],
           files' \in [Node -> SUBSET File], UNCHANGED <<nodes, changes, up>>
    PROVE  TypeInv'
<1>1. job' \in [Request -> JobType] /\ head' \in [Request -> HeadType] BY DEF TypeInv
<1>2. JobInv' BY DEF TypeInv, JobInv
<1> QED BY <1>1, <1>2 DEF TypeInv

\* The same when the storages do not change.
LEMMA OneRequestMoves ==
    ASSUME TypeInv, PoolInv', NEW r \in Request, NEW j \in JobType, NEW h \in HeadType,
           JobOK(j, h), job' = [job EXCEPT ![r] = j], head' = [head EXCEPT ![r] = h],
           UNCHANGED <<dirs, files, nodes, changes, up>>
    PROVE  TypeInv'
<1>1. \A n \in Node : Closed(dirs'[n]) /\ Root \in dirs'[n] BY DEF TypeInv, Closed
<1> QED BY <1>1, OneRequest DEF TypeInv

\* A request is sent to any node.
LEMMA SendTypes ==
    ASSUME TypeInv, NEW r \in Request, NEW n \in Node, NEW op \in Op, NEW p \in Path,
           Send(r, n, op, p)
    PROVE  TypeInv'
<1> DEFINE j == [pc |-> "queued", op |-> op, path |-> p, at |-> n, traversed |-> FALSE]
<1>1. j \in JobType BY DEF JobType, PC
<1>2. head[r] \in HeadType /\ head' = [head EXCEPT ![r] = head[r]] BY DEF TypeInv, Send
<1>3. JobOK(j, head[r])
  <2>1. head[r].pc = "none" BY DEF Send, TypeInv, JobInv, JobOK
  <2>2. (op = "mkdir" => p \in Dir) /\ (op = "create" => p \in File) BY DEF Send
  <2> QED BY <2>1, <2>2 DEF JobOK, Working
<1>4. job' = [job EXCEPT ![r] = j] BY DEF Send
<1>5. PoolInv' BY <1>4, BusyShrinks DEF TypeInv, Working
<1> HIDE DEF j
<1> QED BY <1>1, <1>2, <1>3, <1>4, <1>5, OneRequestMoves DEF Send

\* A request to a node that is gone fails.
LEMMA NotServedTypes ==
    ASSUME TypeInv, NEW r \in Request, NotServed(r)
    PROVE  TypeInv'
<1> DEFINE j == [job[r] EXCEPT !.pc = "lost"]
<1>0. job[r] \in JobType /\ JobOK(job[r], head[r]) /\ job[r].pc = "queued"
  BY DEF TypeInv, JobInv, NotServed
<1>1. j \in JobType BY <1>0 DEF JobType, PC, Outcome
<1>2. head[r] \in HeadType /\ head' = [head EXCEPT ![r] = head[r]] BY DEF TypeInv, NotServed
<1>3. JobOK(j, head[r]) BY <1>0 DEF JobOK, Working, JobType
<1>4. job' = [job EXCEPT ![r] = j] BY DEF NotServed, Goto
<1>5. PoolInv' BY <1>0, <1>4, BusyShrinks DEF TypeInv, Working, JobType
<1> HIDE DEF j
<1> QED BY <1>1, <1>2, <1>3, <1>4, <1>5, OneRequestMoves DEF NotServed

\* A request is redirected to a node.
LEMMA ElsewhereType ==
    ASSUME TypeInv, NEW r \in Request, job[r].pc # "idle", Elsewhere(r) # None
    PROVE  Elsewhere(r) \in Node
BY ResponsibleType DEF TypeInv, JobInv, JobOK, Elsewhere

\* A redirected request waits for the next node's pool.
LEMMA RedirectTypes ==
    ASSUME TypeInv, NEW r \in Request, Redirect(r)
    PROVE  TypeInv'
<1> DEFINE j == [job[r] EXCEPT !.at = Elsewhere(r), !.traversed = TRUE]
<1>0. job[r] \in JobType /\ JobOK(job[r], head[r]) /\ job[r].pc = "queued"
  BY DEF TypeInv, JobInv, Redirect
<1>a. Elsewhere(r) \in Node BY <1>0, ElsewhereType DEF Redirect
<1>1. j \in JobType BY <1>0, <1>a DEF JobType
<1>2. head[r] \in HeadType /\ head' = [head EXCEPT ![r] = head[r]] BY DEF TypeInv, Redirect
<1>3. JobOK(j, head[r]) BY <1>0, <1>a DEF JobOK, Working, JobType
<1>4. job' = [job EXCEPT ![r] = j] BY DEF Redirect
<1>5. PoolInv' BY <1>0, <1>4, BusyShrinks DEF TypeInv, Working, JobType
<1> HIDE DEF j
<1> QED BY <1>1, <1>2, <1>3, <1>4, <1>5, OneRequestMoves DEF Redirect

\* A read is answered from the node's storage.
LEMMA GetTypes ==
    ASSUME TypeInv, NEW r \in Request, Get(r)
    PROVE  TypeInv'
<1>0. job[r] \in JobType /\ JobOK(job[r], head[r]) /\ job[r].pc = "queued"
  BY DEF TypeInv, JobInv, Get
<1>a. PICK pc \in {"ok", "notFound"} : job' = [job EXCEPT ![r].pc = pc]
  BY DEF Get, Goto
<1> DEFINE j == [job[r] EXCEPT !.pc = pc]
<1>1. j \in JobType BY <1>0 DEF JobType, PC, Outcome
<1>2. head[r] \in HeadType /\ head' = [head EXCEPT ![r] = head[r]] BY DEF TypeInv, Get
<1>3. JobOK(j, head[r]) BY <1>0 DEF JobOK, Working, JobType
<1>4. job' = [job EXCEPT ![r] = j] BY <1>a
<1>5. PoolInv' BY <1>0, <1>4, BusyShrinks DEF TypeInv, Working, JobType
<1> HIDE DEF j
<1> QED BY <1>1, <1>2, <1>3, <1>4, <1>5, OneRequestMoves DEF Get

\* A create that belongs here takes a worker.
LEMMA ServeTypes ==
    ASSUME TypeInv, NEW r \in Request, Serve(r)
    PROVE  TypeInv'
<1> DEFINE j == [job[r] EXCEPT !.pc = "serving"]
<1>0. job[r] \in JobType /\ JobOK(job[r], head[r]) /\ job[r].pc = "queued"
  BY DEF TypeInv, JobInv, Serve
<1>1. j \in JobType BY <1>0 DEF JobType, PC
<1>2. head[r] \in HeadType /\ head' = [head EXCEPT ![r] = head[r]] BY DEF TypeInv, Serve
<1>3. JobOK(j, head[r]) BY <1>0 DEF JobOK, Working, JobType, Serve
<1>4. job' = [job EXCEPT ![r] = j] BY DEF Serve, Goto
<1>5. PoolInv' BY <1>0, <1>4, FreeWorkerServes DEF TypeInv, JobType, Serve
<1> HIDE DEF j
<1> QED BY <1>1, <1>2, <1>3, <1>4, <1>5, OneRequestMoves DEF Serve

\* A file or a directory is made below one that is there, so the storage stays a
\* tree.
LEMMA CreateLocallyTypes ==
    ASSUME TypeInv, NEW r \in Request, CreateLocally(r)
    PROVE  TypeInv'
<1>0. job[r] \in JobType /\ JobOK(job[r], head[r]) /\ job[r].pc \in {"serving", "retry"}
  BY DEF TypeInv, JobInv, CreateLocally
<1>a. PICK pc \in {"ok", "exists"} : job' = [job EXCEPT ![r].pc = pc]
  BY DEF CreateLocally, Goto
<1> DEFINE j == [job[r] EXCEPT !.pc = pc]
<1>1. j \in JobType BY <1>0 DEF JobType, PC, Outcome
<1>2. head[r] \in HeadType /\ head' = [head EXCEPT ![r] = head[r]]
  BY DEF TypeInv, CreateLocally
<1>3. JobOK(j, head[r]) BY <1>0 DEF JobOK, Working, JobType
<1>4. job' = [job EXCEPT ![r] = j] BY <1>a
<1>5. PoolInv' BY <1>0, <1>4, BusyShrinks DEF TypeInv, Working, JobType
<1>6. /\ dirs' \in [Node -> SUBSET Known] /\ files' \in [Node -> SUBSET File]
      /\ \A n \in Node : Closed(dirs'[n]) /\ Root \in dirs'[n]
  <2>1. CASE UNCHANGED <<dirs, files>> BY <2>1 DEF TypeInv, Closed
  <2>2. CASE /\ job[r].op = "mkdir"
             /\ dirs' = [dirs EXCEPT ![job[r].at] = @ \cup {job[r].path}]
             /\ UNCHANGED files
    <3>1. job[r].path \in Dir /\ job[r].at \in Node BY <1>0, <2>2 DEF JobOK
    <3>2. dirs' \in [Node -> SUBSET Known] BY <2>2, <3>1 DEF TypeInv, Known
    <3>3. Closed(dirs[job[r].at] \cup {job[r].path})
      BY <3>1, TreeGrows DEF TypeInv, CreateLocally, ParentHere
    <3>4. \A n \in Node : Closed(dirs'[n]) /\ Root \in dirs'[n]
      BY <2>2, <3>1, <3>3 DEF TypeInv
    <3> QED BY <2>2, <3>2, <3>4 DEF TypeInv
  <2>3. CASE /\ job[r].op = "create"
             /\ files' = [files EXCEPT ![job[r].at] = @ \cup {job[r].path}]
             /\ UNCHANGED dirs
    <3>1. job[r].path \in File /\ job[r].at \in Node BY <1>0, <2>3 DEF JobOK
    <3>2. files' \in [Node -> SUBSET File] BY <2>3, <3>1 DEF TypeInv
    <3> QED BY <2>3, <3>2 DEF TypeInv, Closed
  <2> QED BY <2>1, <2>2, <2>3 DEF CreateLocally
<1> HIDE DEF j
<1> QED BY <1>1, <1>2, <1>3, <1>4, <1>5, <1>6, OneRequest DEF CreateLocally

\* The requests that end with the process keep their types.
LEMMA PanicTypes ==
    ASSUME TypeInv, NEW r \in Request, Panic(r)
    PROVE  TypeInv'
<1> DEFINE gone == {q \in Request : job[q].at = job[r].at /\ job[q].pc \notin Outcome}
<1>0. job[r].at \in Node BY DEF Panic, TypeInv, JobInv, JobOK
<1>1. ASSUME NEW q \in Request
      PROVE  /\ job'[q] \in JobType /\ head'[q] \in HeadType /\ JobOK(job'[q], head'[q])
             /\ job'[q].pc \in Working => job[q].pc \in Working /\ job[q].at = job'[q].at
  <2>0. job[q] \in JobType /\ head[q] \in HeadType /\ JobOK(job[q], head[q])
    BY DEF TypeInv, JobInv
  <2>1. CASE q \in gone
    <3>1. job'[q] = [job[q] EXCEPT !.pc = "lost"] /\ head'[q] = [head[q] EXCEPT !.pc = "none"]
      BY <2>1 DEF Panic
    <3>2. job[q].pc # "idle" => job[q].at \in Node BY <2>0 DEF JobOK
    <3>3. job'[q] \in JobType BY <2>0, <3>1 DEF JobType, PC, Outcome
    <3>4. head'[q] \in HeadType BY <2>0, <3>1 DEF HeadType
    <3>5. JobOK(job'[q], head'[q]) /\ job'[q].pc \notin Working
      <4>1. job[q].pc # "idle" BY <1>0, <2>0, <2>1, PathAssumption DEF JobOK
      <4> QED BY <2>0, <3>1, <4>1 DEF JobOK, JobType, HeadType, Working
    <3> QED BY <3>3, <3>4, <3>5
  <2>2. CASE q \notin gone BY <2>0, <2>2 DEF Panic
  <2> QED BY <2>1, <2>2
<1>2. DOMAIN job' = Request /\ DOMAIN head' = Request BY DEF Panic
<1>3. job' \in [Request -> JobType] /\ head' \in [Request -> HeadType]
  BY <1>1 DEF Panic
<1>4. JobInv' BY <1>1 DEF JobInv
<1>5. PoolInv' BY <1>1, BusyShrinks DEF TypeInv
<1>6. up' \subseteq Node BY DEF TypeInv, Panic
<1> QED BY <1>3, <1>4, <1>5, <1>6 DEF Panic, TypeInv, Closed

\* The recovering request keeps its worker and sends a HEAD request.
LEMMA AskResponsibleTypes ==
    ASSUME TypeInv, NEW r \in Request, AskResponsible(r)
    PROVE  TypeInv'
<1> DEFINE j == [job[r] EXCEPT !.pc = "recovering"]
           h == [pc |-> "sent", at |-> Responsible(r), traversed |-> FALSE]
<1>0. job[r] \in JobType /\ JobOK(job[r], head[r]) /\ job[r].pc = "serving"
  BY DEF TypeInv, JobInv, AskResponsible
<1>a. Parent[job[r].path] \in Dir
  <2>1. job[r].path \in Path /\ job[r].at \in Node BY <1>0 DEF JobOK
  <2>2. Parent[job[r].path] # Root BY <2>1 DEF TypeInv, AskResponsible, ParentHere
  <2> QED BY <2>1, <2>2, PathAssumption
<1>b. Responsible(r) \in Node
  <2>1. job[r].at \in Node /\ Parent[job[r].path] \in Path BY <1>0, <1>a DEF JobOK, Path
  <2> QED BY <2>1, ResponsibleType DEF TypeInv, AskResponsible, Responsible
<1>1. j \in JobType BY <1>0 DEF JobType, PC
<1>2. h \in HeadType BY <1>b DEF HeadType
<1>3. JobOK(j, h) BY <1>0, <1>a, <1>b DEF JobOK, Working, JobType
<1>4. job' = [job EXCEPT ![r] = j] /\ head' = [head EXCEPT ![r] = h]
  BY DEF AskResponsible, Goto
<1>5. PoolInv' BY <1>0, <1>4, BusyShrinks DEF TypeInv, Working, JobType
<1> HIDE DEF j, h
<1> QED BY <1>1, <1>2, <1>3, <1>4, <1>5, OneRequestMoves DEF AskResponsible

\* A HEAD request is redirected to a node.
LEMMA HeadElsewhereType ==
    ASSUME TypeInv, NEW r \in Request, head[r].pc = "sent", HeadElsewhere(r) # None
    PROVE  HeadElsewhere(r) \in Node
<1>1. head[r].at \in Node /\ Parent[job[r].path] \in Path BY DEF TypeInv, JobInv, JobOK, Path
<1> QED BY <1>1, ResponsibleType DEF TypeInv, HeadElsewhere

\* The HEAD request is answered, or redirected as any other.
LEMMA HeadServedTypes ==
    ASSUME TypeInv, NEW r \in Request, HeadServed(r)
    PROVE  TypeInv'
<1>0. /\ job[r] \in JobType /\ head[r] \in HeadType /\ JobOK(job[r], head[r])
      /\ head[r].pc = "sent"
  BY DEF TypeInv, JobInv, HeadServed
<1>a. PICK h \in HeadType : /\ head' = [head EXCEPT ![r] = h]
                            /\ h.pc # "none" /\ h.at \in Node
  <2>1. CASE head' = [head EXCEPT ![r].at = HeadElsewhere(r), ![r].traversed = TRUE]
             /\ HeadElsewhere(r) # None
    <3> DEFINE h == [head[r] EXCEPT !.at = HeadElsewhere(r), !.traversed = TRUE]
    <3>1. HeadElsewhere(r) \in Node BY <1>0, <2>1, HeadElsewhereType
    <3>2. h \in HeadType /\ h.pc # "none" /\ h.at \in Node BY <1>0, <3>1 DEF HeadType
    <3>3. head' = [head EXCEPT ![r] = h] BY <2>1
    <3> HIDE DEF h
    <3> QED BY <3>2, <3>3
  <2>2. ASSUME NEW pc \in {"directory", "missing"}, head' = [head EXCEPT ![r].pc = pc]
        PROVE  \E h \in HeadType : /\ head' = [head EXCEPT ![r] = h]
                                   /\ h.pc # "none" /\ h.at \in Node
    <3> DEFINE h == [head[r] EXCEPT !.pc = pc]
    <3>1. head[r].at \in Node BY <1>0 DEF JobOK
    <3>2. h \in HeadType /\ h.pc # "none" /\ h.at \in Node BY <1>0, <3>1 DEF HeadType
    <3>3. head' = [head EXCEPT ![r] = h] BY <2>2
    <3> HIDE DEF h
    <3> QED BY <3>2, <3>3
  <2> QED BY <2>1, <2>2 DEF HeadServed
<1>1. job' = [job EXCEPT ![r] = job[r]] BY DEF HeadServed, TypeInv
<1>2. JobOK(job[r], h) BY <1>0, <1>a DEF JobOK
<1>3. PoolInv' BY BusyShrinks DEF TypeInv, HeadServed
<1> QED BY <1>0, <1>a, <1>1, <1>2, <1>3, OneRequestMoves DEF HeadServed

\* The HEAD request fails with the node it was sent to.
LEMMA HeadFailsTypes ==
    ASSUME TypeInv, NEW r \in Request, HeadFails(r)
    PROVE  TypeInv'
<1> DEFINE h == [head[r] EXCEPT !.pc = "missing"]
<1>0. /\ job[r] \in JobType /\ head[r] \in HeadType /\ JobOK(job[r], head[r])
      /\ head[r].pc = "sent"
  BY DEF TypeInv, JobInv, HeadFails
<1>1. h \in HeadType BY <1>0 DEF HeadType
<1>2. JobOK(job[r], h) BY <1>0 DEF JobOK, HeadType
<1>3. head' = [head EXCEPT ![r] = h] BY DEF HeadFails
<1>4. job' = [job EXCEPT ![r] = job[r]] BY DEF HeadFails, TypeInv
<1>5. PoolInv' BY BusyShrinks DEF TypeInv, HeadFails
<1> HIDE DEF h
<1> QED BY <1>0, <1>1, <1>2, <1>3, <1>4, <1>5, OneRequestMoves DEF HeadFails

\* The recovered directory is made with all its ancestors, so the storage stays
\* a tree.
LEMMA RecoverTypes ==
    ASSUME TypeInv, NEW r \in Request, Recover(r)
    PROVE  TypeInv'
<1> DEFINE j == [job[r] EXCEPT !.pc = "retry"]
           h == [head[r] EXCEPT !.pc = "none"]
           d == Parent[job[r].path]
<1>0. /\ job[r] \in JobType /\ head[r] \in HeadType /\ JobOK(job[r], head[r])
      /\ job[r].pc = "recovering"
  BY DEF TypeInv, JobInv, Recover
<1>1. j \in JobType /\ h \in HeadType BY <1>0 DEF JobType, HeadType, PC
<1>2. JobOK(j, h) BY <1>0 DEF JobOK, Working, JobType, HeadType
<1>3. job' = [job EXCEPT ![r] = j] /\ head' = [head EXCEPT ![r] = h] BY DEF Recover, Goto
<1>4. PoolInv' BY <1>0, <1>3, BusyShrinks DEF TypeInv, Working, JobType
<1>5. d \in Known /\ job[r].at \in Node BY <1>0 DEF JobOK, Known
<1> HIDE DEF d
<1>6. dirs' = [dirs EXCEPT ![job[r].at] = @ \cup Ancestors(d)] BY DEF Recover, d
<1>7. dirs[job[r].at] \cup Ancestors(d) \in SUBSET Known
      /\ Closed(dirs[job[r].at] \cup Ancestors(d))
  BY <1>5, TreeGrows DEF TypeInv
<1>8. dirs' \in [Node -> SUBSET Known]
      /\ \A n \in Node : Closed(dirs'[n]) /\ Root \in dirs'[n]
  BY <1>5, <1>6, <1>7 DEF TypeInv
<1> HIDE DEF j, h
<1> QED BY <1>1, <1>2, <1>3, <1>4, <1>8, OneRequest DEF Recover, TypeInv

\* The directory is missing, and the worker is let go.
LEMMA NotRecoveredTypes ==
    ASSUME TypeInv, NEW r \in Request, NotRecovered(r)
    PROVE  TypeInv'
<1> DEFINE j == [job[r] EXCEPT !.pc = "notFound"]
           h == [head[r] EXCEPT !.pc = "none"]
<1>0. /\ job[r] \in JobType /\ head[r] \in HeadType /\ JobOK(job[r], head[r])
      /\ job[r].pc = "recovering"
  BY DEF TypeInv, JobInv, NotRecovered
<1>1. j \in JobType /\ h \in HeadType BY <1>0 DEF JobType, HeadType, PC, Outcome
<1>2. JobOK(j, h) BY <1>0 DEF JobOK, Working, JobType, HeadType
<1>3. job' = [job EXCEPT ![r] = j] /\ head' = [head EXCEPT ![r] = h]
  BY DEF NotRecovered, Goto
<1>4. PoolInv' BY <1>0, <1>3, BusyShrinks DEF TypeInv, Working, JobType
<1> HIDE DEF j, h
<1> QED BY <1>1, <1>2, <1>3, <1>4, OneRequestMoves DEF NotRecovered

\* A node's list is any set of the other nodes.
LEMMA UpdateNodesTypes ==
    ASSUME TypeInv, NEW n \in Node, NEW S \in SUBSET (Node \ {n}), UpdateNodes(n, S)
    PROVE  TypeInv'
<1>1. nodes' \in [Node -> SUBSET Node] BY DEF UpdateNodes, TypeInv
<1>2. changes' \in 0 .. MaxChanges BY BoundAssumption DEF UpdateNodes, TypeInv
<1>3. PoolInv' BY BusyShrinks DEF TypeInv, UpdateNodes
<1>4. JobInv' BY DEF TypeInv, JobInv, UpdateNodes
<1>5. \A m \in Node : Closed(dirs'[m]) /\ Root \in dirs'[m]
  BY DEF TypeInv, UpdateNodes, Closed
<1> QED BY <1>1, <1>2, <1>3, <1>4, <1>5 DEF TypeInv, UpdateNodes

\* Every step keeps the types.
LEMMA NextTypes == TypeInv /\ [Next]_vars => TypeInv'
<1> SUFFICES ASSUME TypeInv, [Next]_vars PROVE TypeInv'
  OBVIOUS
<1>1. ASSUME NEW r \in Request, NEW n \in Node, NEW op \in Op, NEW p \in Path,
             Send(r, n, op, p)
      PROVE  TypeInv'
  BY <1>1, SendTypes
<1>2. ASSUME NEW r \in Request, Step(r) PROVE TypeInv'
  BY <1>2, NotServedTypes, RedirectTypes, GetTypes, ServeTypes, CreateLocallyTypes,
     PanicTypes, AskResponsibleTypes, HeadServedTypes, HeadFailsTypes, RecoverTypes,
     NotRecoveredTypes DEF Step
<1>3. ASSUME NEW n \in Node, NEW S \in SUBSET (Node \ {n}), UpdateNodes(n, S)
      PROVE  TypeInv'
  BY <1>3, UpdateNodesTypes
<1>4. CASE UNCHANGED vars
  <2>1. PoolInv' BY <1>4, BusyShrinks DEF TypeInv, vars
  <2> QED BY <1>4, <2>1 DEF vars, TypeInv, JobInv, Closed
<1> QED BY <1>1, <1>2, <1>3, <1>4 DEF Next, Finished

\* What TypeOK says, with what each place in the code says of a request and of
\* its HEAD request: the inductive invariant of the types.
THEOREM DistributionTypes == Spec => []TypeInv
<1>1. Init => TypeInv BY InitTypes
<1>2. TypeInv /\ [Next]_vars => TypeInv' BY NextTypes
<1> QED BY <1>1, <1>2, PTL DEF Spec

\* Whatever the nodes learn of each other, and whichever of them end, no node
\* has more requests in hand than its pool has workers, a request has a HEAD
\* request exactly while it recovers a directory, and every storage is a tree.
THEOREM DistributionTypeCorrectness == Spec => []TypeOK
<1>1. TypeInv => TypeOK BY TypeInvIsTyping
<1> QED BY <1>1, DistributionTypes, PTL

-----------------------------------------------------------------------------
(* While the nodes keep knowing each other.                                 *)

Own(p) == Maglev[Node][p]
Stored == {p \in Path : Own(p) \in Node /\ p \in dirs[Own(p)] \cup files[Own(p)]}
ParentOf(r) == Parent[job[r].path]

\* Where a request and its HEAD request are, and what their outcomes say of the
\* storages and of what was acknowledged before the request was sent.
Fits(r) ==
    /\ job[r].pc # "idle" /\ job[r].traversed => job[r].at = Own(job[r].path)
    /\ job[r].pc \in Working => job[r].at = Own(job[r].path)
    /\ job[r].pc = "recovering" => head[r].at = Own(ParentOf(r))
    /\ job[r].pc = "ok" /\ job[r].op # "get" => job[r].path \in Stored
    /\ head[r].pc = "directory" => ParentOf(r) \in Stored
    /\ head[r].pc = "missing" /\ up = Node => ParentOf(r) \notin asked[r]
    /\ asked[r] \subseteq Stored
    /\ job[r].pc = "notFound" /\ up = Node =>
          (IF job[r].op = "get" THEN job[r].path ELSE ParentOf(r)) \notin asked[r] \cup {Root}

StableInv ==
    /\ nodes = [n \in Node |-> Node \ {n}]
    /\ asked \in [Request -> SUBSET Path]
    /\ \A r \in Request : Fits(r)
    /\ DirectoriesAreWithTheirNode /\ OneMkdirWins

\* Nothing is taken out of a storage, and no process starts again.
Grows == /\ \A n \in Node : dirs[n] \subseteq dirs'[n] /\ files[n] \subseteq files'[n]
         /\ up' \subseteq up

\* The node a path belongs to is a node.
LEMMA OwnType == ASSUME NEW n \in Node, NEW p \in Path PROVE Own(p) \in Node
<1>1. Node \in (SUBSET Node) \ {{}} OBVIOUS
<1> QED BY <1>1, MaglevAssumption DEF Own

\* The node responsible for a path is the same in the eyes of every node, and
\* nil only in its own.
LEMMA StableResponsible ==
    ASSUME nodes = [n \in Node |-> Node \ {n}], NEW n \in Node, NEW p \in Path
    PROVE  GetNodeForObject(n, p) = IF Own(p) = n THEN None ELSE Own(p)
<1>1. nodes[n] \cup {n} = Node /\ nodes[n] = Node \ {n} OBVIOUS
<1>2. Own(p) \in Node BY OwnType
<1> QED BY <1>1, <1>2 DEF GetNodeForObject, Own

\* No storage loses anything, so what is stored anywhere stays so.
LEMMA StoredGrows ==
    ASSUME TypeInv, Grows
    PROVE  Stored \subseteq Stored'
BY DEF Stored, Grows, Own

\* What another request does leaves a request as it is.
LEMMA OthersFit ==
    ASSUME TypeInv, Grows, NEW q \in Request, Fits(q),
           job'[q] = job[q], head'[q] = head[q], asked'[q] = asked[q]
    PROVE  Fits(q)'
<1>1. Stored \subseteq Stored' BY StoredGrows
<1>2. up' = Node => up = Node BY DEF Grows, TypeInv
<1>3. Own(job'[q].path) = Own(job[q].path) /\ ParentOf(q)' = ParentOf(q)
      /\ Own(ParentOf(q))' = Own(ParentOf(q))
  BY DEF Own, ParentOf
<1> QED BY <1>1, <1>2, <1>3 DEF Fits, Own

\* A request that was not already acknowledged as a mkdir is not now.
LEMMA SameWinners ==
    ASSUME OneMkdirWins,
           \A q \in Request : job'[q].pc = "ok" /\ job'[q].op = "mkdir" =>
              /\ job[q].pc = "ok" /\ job[q].op = "mkdir" /\ job'[q].path = job[q].path
    PROVE  OneMkdirWins'
BY DEF OneMkdirWins

\* The placement of directories depends on nothing but the directories.
LEMMA SameDirectories ==
    ASSUME DirectoriesAreWithTheirNode, UNCHANGED dirs
    PROVE  DirectoriesAreWithTheirNode'
BY DEF DirectoriesAreWithTheirNode

\* What was acknowledged is stored where it belongs.
LEMMA AcknowledgedIsStored ==
    ASSUME TypeInv, \A r \in Request : Fits(r)
    PROVE  Acknowledged \subseteq Stored
BY DEF Acknowledged, Fits

\* No request is on its way, and every node has the root.
LEMMA InitStable == Init => StableInv
<1> SUFFICES ASSUME Init PROVE StableInv
  OBVIOUS
<1>1. \A r \in Request : Fits(r) BY DEF Init, Fits, Working
<1>2. DirectoriesAreWithTheirNode BY DEF Init, DirectoriesAreWithTheirNode
<1>3. OneMkdirWins BY DEF Init, OneMkdirWins
<1> QED BY <1>1, <1>2, <1>3 DEF Init, StableInv

\* A request remembers what was acknowledged, which is stored.
LEMMA SendStable ==
    ASSUME TypeInv, StableInv, NEW r \in Request, NEW n \in Node, NEW op \in Op,
           NEW p \in Path, Send(r, n, op, p)
    PROVE  StableInv'
<1>0. /\ job' = [job EXCEPT ![r] = [pc |-> "queued", op |-> op, path |-> p, at |-> n,
                                    traversed |-> FALSE]]
      /\ asked' = [asked EXCEPT ![r] = Acknowledged]
      /\ UNCHANGED <<dirs, files, nodes, changes, up, head>> /\ job[r].pc = "idle"
  BY DEF Send
<1>1. Grows BY <1>0 DEF Grows
<1>2. ASSUME NEW q \in Request \ {r} PROVE Fits(q)'
  <2>1. job'[q] = job[q] /\ head'[q] = head[q] /\ asked'[q] = asked[q]
    BY <1>0 DEF TypeInv
  <2> QED BY <1>1, <2>1, OthersFit DEF StableInv
<1>3. Fits(r)'
  <2>1. head'[r].pc = "none" BY <1>0 DEF TypeInv, JobInv, JobOK
  <2>2. asked'[r] \subseteq Stored'
    BY <1>0, <1>1, AcknowledgedIsStored, StoredGrows DEF StableInv
  <2> QED BY <1>0, <2>1, <2>2 DEF Fits, Working, TypeInv
<1>4. OneMkdirWins' BY <1>0, SameWinners DEF StableInv, TypeInv
<1>5. DirectoriesAreWithTheirNode' BY <1>0, SameDirectories DEF StableInv
<1>6. asked' \in [Request -> SUBSET Path]
  BY <1>0, AcknowledgedIsStored DEF StableInv, Stored
<1> QED BY <1>0, <1>2, <1>3, <1>4, <1>5, <1>6 DEF StableInv

\* A step that changes one request and lets the storages grow.
LEMMA OneRequestFits ==
    ASSUME TypeInv, StableInv, NEW r \in Request, Grows, UNCHANGED <<nodes, asked>>,
           \A q \in Request \ {r} : job'[q] = job[q] /\ head'[q] = head[q],
           Fits(r)', DirectoriesAreWithTheirNode', OneMkdirWins'
    PROVE  StableInv'
<1>1. ASSUME NEW q \in Request \ {r} PROVE Fits(q)'
  BY OthersFit DEF StableInv
<1> QED BY <1>1 DEF StableInv

\* A request that is lost changes no storage.
LEMMA NotServedStable ==
    ASSUME TypeInv, StableInv, NEW r \in Request, NotServed(r)
    PROVE  StableInv'
<1>0. /\ job' = [job EXCEPT ![r].pc = "lost"] /\ job[r].pc = "queued"
      /\ UNCHANGED <<dirs, files, nodes, changes, up, head, asked>>
      /\ job \in [Request -> JobType]
  BY DEF NotServed, Goto, TypeInv
<1>1. Grows BY <1>0 DEF Grows
<1>2. \A q \in Request \ {r} : job'[q] = job[q] /\ head'[q] = head[q] BY <1>0
<1>3. Fits(r)'
  <2>1. job'[r] = [job[r] EXCEPT !.pc = "lost"] /\ Fits(r) /\ head'[r].pc = "none"
    BY <1>0 DEF StableInv, TypeInv, JobInv, JobOK
  <2>2. asked'[r] \subseteq Stored' BY <1>0, <1>1, <2>1, StoredGrows DEF Fits
  <2> QED BY <1>0, <2>1, <2>2 DEF Fits, Working, JobType, Own
<1>4. OneMkdirWins' BY <1>0, SameWinners DEF StableInv, JobType
<1>5. DirectoriesAreWithTheirNode' BY <1>0, SameDirectories DEF StableInv
<1> QED BY <1>0, <1>1, <1>2, <1>3, <1>4, <1>5, OneRequestFits

\* The request goes to the node responsible for its path, and stays there.
LEMMA RedirectStable ==
    ASSUME TypeInv, StableInv, NEW r \in Request, Redirect(r)
    PROVE  StableInv'
<1>0. /\ job' = [job EXCEPT ![r].at = Elsewhere(r), ![r].traversed = TRUE]
      /\ job[r].pc = "queued" /\ Elsewhere(r) # None
      /\ UNCHANGED <<dirs, files, nodes, changes, up, head, asked>>
      /\ job \in [Request -> JobType]
  BY DEF Redirect, TypeInv
<1>1. Grows BY <1>0 DEF Grows
<1>2. \A q \in Request \ {r} : job'[q] = job[q] /\ head'[q] = head[q] BY <1>0
<1>3. Fits(r)'
  <2>1. /\ job'[r] = [job[r] EXCEPT !.at = Elsewhere(r), !.traversed = TRUE]
        /\ Fits(r) /\ head'[r].pc = "none"
    BY <1>0 DEF StableInv, TypeInv, JobInv, JobOK
  <2>2. asked'[r] \subseteq Stored' BY <1>0, <1>1, <2>1, StoredGrows DEF Fits
  <2>3. Elsewhere(r) = Own(job[r].path)
    <3>1. job[r].at \in Node /\ job[r].path \in Path BY <1>0 DEF TypeInv, JobInv, JobOK
    <3> QED BY <1>0, <3>1, StableResponsible DEF Elsewhere, StableInv
  <2> QED BY <1>0, <2>1, <2>2, <2>3 DEF Fits, Working, JobType, Own
<1>4. OneMkdirWins' BY <1>0, SameWinners DEF StableInv, JobType
<1>5. DirectoriesAreWithTheirNode' BY <1>0, SameDirectories DEF StableInv
<1> QED BY <1>0, <1>1, <1>2, <1>3, <1>4, <1>5, OneRequestFits

\* A request that is not sent elsewhere is with the node responsible for its
\* path.
LEMMA ServedWhereItBelongs ==
    ASSUME TypeInv, StableInv, NEW r \in Request, job[r].pc # "idle", Elsewhere(r) = None
    PROVE  job[r].at = Own(job[r].path)
<1>1. job[r].at \in Node /\ job[r].path \in Path BY DEF TypeInv, JobInv, JobOK
<1>2. Own(job[r].path) \in Node BY <1>1, OwnType
<1>3. CASE job[r].traversed BY <1>3 DEF StableInv, Fits
<1>4. CASE ~job[r].traversed
  BY <1>1, <1>2, <1>4, StableResponsible, PathAssumption DEF Elsewhere, StableInv
<1> QED BY <1>3, <1>4

\* A read finds at the node it belongs to what was acknowledged before it was
\* sent.
LEMMA GetStable ==
    ASSUME TypeInv, StableInv, NEW r \in Request, Get(r)
    PROVE  StableInv'
<1>0. /\ job[r].pc = "queued" /\ job[r].op = "get"
      /\ UNCHANGED <<dirs, files, nodes, changes, up, head, asked>>
      /\ job \in [Request -> JobType]
  BY DEF Get, TypeInv
<1>a. PICK pc \in {"ok", "notFound"} :
         /\ job' = [job EXCEPT ![r].pc = pc]
         /\ pc = "notFound" => /\ job[r].path \notin dirs[job[r].at] \cup files[job[r].at]
                               /\ Elsewhere(r) = None
  BY DEF Get, Goto
<1>1. Grows BY <1>0 DEF Grows
<1>2. \A q \in Request \ {r} : job'[q] = job[q] /\ head'[q] = head[q] BY <1>0, <1>a
<1>3. Fits(r)'
  <2>1. job'[r] = [job[r] EXCEPT !.pc = pc] /\ Fits(r) /\ head'[r].pc = "none"
    BY <1>0, <1>a DEF StableInv, TypeInv, JobInv, JobOK
  <2>2. asked'[r] \subseteq Stored' BY <1>0, <1>1, <2>1, StoredGrows DEF Fits
  <2>3. pc = "notFound" => job[r].path \notin asked[r] \cup {Root}
    <3>1. job[r].path \in Path BY <1>0 DEF TypeInv, JobInv, JobOK
    <3>2. pc = "notFound" => job[r].path \notin Stored
      BY <1>0, <1>a, ServedWhereItBelongs DEF Stored
    <3>3. asked[r] \subseteq Stored BY <2>1 DEF Fits
    <3> QED BY <3>1, <3>2, <3>3, PathAssumption
  <2>4. job'[r].op = "get" /\ job'[r].pc = pc /\ job'[r].path = job[r].path
        /\ job'[r].at = job[r].at /\ job'[r].traversed = job[r].traversed
    BY <1>0, <2>1 DEF JobType
  <2> QED BY <1>0, <2>1, <2>2, <2>3, <2>4 DEF Fits, Working, Own
<1>4. OneMkdirWins' BY <1>0, <1>a, SameWinners DEF StableInv, JobType
<1>5. DirectoriesAreWithTheirNode' BY <1>0, SameDirectories DEF StableInv
<1> QED BY <1>0, <1>1, <1>2, <1>3, <1>4, <1>5, OneRequestFits

\* A create takes a worker where its path belongs.
LEMMA ServeStable ==
    ASSUME TypeInv, StableInv, NEW r \in Request, Serve(r)
    PROVE  StableInv'
<1>0. /\ job' = [job EXCEPT ![r].pc = "serving"]
      /\ job[r].pc = "queued" /\ Elsewhere(r) = None
      /\ UNCHANGED <<dirs, files, nodes, changes, up, head, asked>>
      /\ job \in [Request -> JobType]
  BY DEF Serve, Goto, TypeInv
<1>1. Grows BY <1>0 DEF Grows
<1>2. \A q \in Request \ {r} : job'[q] = job[q] /\ head'[q] = head[q] BY <1>0
<1>3. Fits(r)'
  <2>1. job'[r] = [job[r] EXCEPT !.pc = "serving"] /\ Fits(r) /\ head'[r].pc = "none"
    BY <1>0 DEF StableInv, TypeInv, JobInv, JobOK
  <2>2. asked'[r] \subseteq Stored' BY <1>0, <1>1, <2>1, StoredGrows DEF Fits
  <2>3. job[r].at = Own(job[r].path) BY <1>0, ServedWhereItBelongs
  <2> QED BY <1>0, <2>1, <2>2, <2>3 DEF Fits, Working, JobType, Own
<1>4. OneMkdirWins' BY <1>0, SameWinners DEF StableInv, JobType
<1>5. DirectoriesAreWithTheirNode' BY <1>0, SameDirectories DEF StableInv
<1> QED BY <1>0, <1>1, <1>2, <1>3, <1>4, <1>5, OneRequestFits

\* A directory is made once with the node responsible for it: the second mkdir
\* finds it there.
LEMMA CreateLocallyStable ==
    ASSUME TypeInv, StableInv, NEW r \in Request, CreateLocally(r)
    PROVE  StableInv'
<1>0. /\ job[r].pc \in {"serving", "retry"} /\ job[r].op \in {"mkdir", "create"}
      /\ UNCHANGED <<nodes, changes, up, head, asked>>
      /\ job \in [Request -> JobType] /\ job[r].at \in Node /\ job[r].path \in Path
      /\ job[r].at = Own(job[r].path) /\ Fits(r) /\ head[r].pc = "none"
      /\ job[r].op = "mkdir" => job[r].path \in Dir
      /\ dirs \in [Node -> SUBSET Known] /\ files \in [Node -> SUBSET File]
  BY DEF CreateLocally, TypeInv, StableInv, Fits, Working, JobInv, JobOK
<1>a. PICK pc \in {"ok", "exists"} :
         /\ job' = [job EXCEPT ![r].pc = pc]
         /\ pc = "exists" => UNCHANGED <<dirs, files>>
         /\ pc = "ok" /\ job[r].op = "mkdir" =>
               /\ job[r].path \notin dirs[job[r].at]
               /\ dirs' = [dirs EXCEPT ![job[r].at] = @ \cup {job[r].path}]
               /\ UNCHANGED files
         /\ pc = "ok" /\ job[r].op = "create" =>
               /\ files' = [files EXCEPT ![job[r].at] = @ \cup {job[r].path}]
               /\ UNCHANGED dirs
  BY <1>0 DEF CreateLocally, Goto
<1>1. Grows BY <1>0, <1>a DEF Grows
<1>2. \A q \in Request \ {r} : job'[q] = job[q] /\ head'[q] = head[q] BY <1>0, <1>a
<1>b. /\ job'[r].pc = pc /\ job'[r].op = job[r].op /\ job'[r].path = job[r].path
      /\ job'[r].at = job[r].at /\ job'[r].traversed = job[r].traversed
      /\ head'[r].pc = "none" /\ asked'[r] = asked[r]
  BY <1>0, <1>a DEF JobType
<1>3. Fits(r)'
  <2>1. asked'[r] \subseteq Stored' BY <1>0, <1>1, StoredGrows DEF Fits
  <2>2. pc = "ok" => job[r].path \in Stored' BY <1>0, <1>a DEF Stored, Own
  <2> QED BY <1>0, <1>b, <2>1, <2>2 DEF Fits, Working, Own
<1>4. OneMkdirWins'
  <2>1. CASE ~(pc = "ok" /\ job[r].op = "mkdir")
    BY <1>2, <1>b, <2>1, SameWinners DEF StableInv
  <2>2. CASE pc = "ok" /\ job[r].op = "mkdir"
    <3>1. ASSUME NEW q \in Request \ {r}, job[q].op = "mkdir", job[q].pc = "ok",
                 job[q].path = job[r].path
          PROVE  FALSE
      <4>1. job[r].path \in Stored BY <3>1 DEF StableInv, Fits
      <4>2. job[r].path \in dirs[job[r].at] \cup files[job[r].at] BY <1>0, <4>1 DEF Stored
      <4>3. job[r].path \notin files[job[r].at] BY <1>0, <2>2, PathAssumption
      <4> QED BY <1>a, <2>2, <4>2, <4>3
    <3> QED BY <1>2, <1>b, <2>2, <3>1 DEF StableInv, OneMkdirWins
  <2> QED BY <2>1, <2>2
<1>5. DirectoriesAreWithTheirNode'
  <2>1. CASE UNCHANGED dirs BY <2>1, SameDirectories DEF StableInv
  <2>2. CASE pc = "ok" /\ job[r].op = "mkdir"
    <3>1. \A n \in Node : \A d \in dirs[n] \ {Root} : d \in dirs[Own(d)]
      BY DEF StableInv, DirectoriesAreWithTheirNode, Own
    <3> SUFFICES ASSUME NEW n \in Node, NEW d \in dirs'[n] \ {Root} PROVE d \in dirs'[Own(d)]
      BY DEF DirectoriesAreWithTheirNode, Own
    <3>2. CASE d \in dirs[n]
      <4>1. d \in dirs[Own(d)] BY <3>1, <3>2
      <4>2. Own(d) \in Node BY <1>0, <3>2, OwnType DEF Known, Path
      <4> QED BY <1>1, <4>1, <4>2 DEF Grows
    <3>3. CASE d \notin dirs[n]
      <4>1. d = job[r].path BY <1>0, <1>a, <2>2, <3>3
      <4> QED BY <1>0, <1>a, <2>2, <4>1
    <3> QED BY <3>2, <3>3
  <2> QED BY <1>0, <1>a, <2>1, <2>2
<1> QED BY <1>0, <1>1, <1>2, <1>3, <1>4, <1>5, OneRequestFits

\* A process that ends answers nobody, and takes no file with it that another
\* node is to have.
LEMMA PanicStable ==
    ASSUME TypeInv, StableInv, NEW r \in Request, Panic(r)
    PROVE  StableInv'
<1>0. /\ up' = up \ {job[r].at} /\ job[r].at \in Node
      /\ UNCHANGED <<dirs, files, nodes, changes, asked>>
  BY DEF Panic, TypeInv, JobInv, JobOK
<1>1. Grows BY <1>0 DEF Grows
<1>2. \A q \in Request :
         \/ job'[q] = job[q] /\ head'[q] = head[q]
         \/ /\ job'[q] = [job[q] EXCEPT !.pc = "lost"]
            /\ head'[q] = [head[q] EXCEPT !.pc = "none"]
            /\ job[q].pc # "idle"
  <2> TAKE q \in Request
  <2>1. JobOK(job[q], head[q]) BY DEF TypeInv, JobInv
  <2> QED BY <1>0, <2>1, PathAssumption DEF Panic, JobOK
<1>3. ASSUME NEW q \in Request PROVE Fits(q)'
  <2>0. Fits(q) /\ job[q] \in JobType /\ head[q] \in HeadType BY DEF StableInv, TypeInv
  <2>1. CASE job'[q] = job[q] /\ head'[q] = head[q]
    BY <1>0, <1>1, <2>0, <2>1, OthersFit
  <2>2. CASE /\ job'[q] = [job[q] EXCEPT !.pc = "lost"]
             /\ head'[q] = [head[q] EXCEPT !.pc = "none"]
             /\ job[q].pc # "idle"
    <3>1. asked'[q] \subseteq Stored' BY <1>0, <1>1, <2>0, StoredGrows DEF Fits
    <3>2. /\ job'[q].pc = "lost" /\ head'[q].pc = "none" /\ job'[q].path = job[q].path
          /\ job'[q].at = job[q].at /\ job'[q].traversed = job[q].traversed
      BY <2>0, <2>2 DEF JobType, HeadType
    <3> QED BY <2>0, <2>2, <3>1, <3>2 DEF Fits, Working, Own
  <2> QED BY <1>2, <2>1, <2>2
<1>4. OneMkdirWins'
  <2>1. ASSUME NEW q \in Request, job'[q].pc = "ok" PROVE job'[q] = job[q]
    <3>1. job[q] \in JobType BY DEF TypeInv
    <3>2. job'[q] # [job[q] EXCEPT !.pc = "lost"] BY <2>1, <3>1 DEF JobType
    <3> QED BY <1>2, <3>2
  <2> QED BY <2>1, SameWinners DEF StableInv
<1>5. DirectoriesAreWithTheirNode' BY <1>0, SameDirectories DEF StableInv
<1> QED BY <1>0, <1>3, <1>4, <1>5 DEF StableInv

\* The HEAD request goes to the node responsible for the directory.
LEMMA AskResponsibleStable ==
    ASSUME TypeInv, StableInv, NEW r \in Request, AskResponsible(r)
    PROVE  StableInv'
<1>0. /\ job' = [job EXCEPT ![r].pc = "recovering"] /\ job[r].pc = "serving"
      /\ head' = [head EXCEPT ![r] = [pc |-> "sent", at |-> Responsible(r),
                                      traversed |-> FALSE]]
      /\ Responsible(r) # None /\ UNCHANGED <<dirs, files, nodes, changes, up, asked>>
      /\ job \in [Request -> JobType] /\ head \in [Request -> HeadType]
      /\ job[r].at \in Node /\ job[r].path \in Path /\ Fits(r)
  BY DEF AskResponsible, Goto, TypeInv, JobInv, JobOK, StableInv
<1>1. Grows BY <1>0 DEF Grows
<1>2. \A q \in Request \ {r} : job'[q] = job[q] /\ head'[q] = head[q] BY <1>0
<1>3. Fits(r)'
  <2>1. job'[r] = [job[r] EXCEPT !.pc = "recovering"]
        /\ head'[r].pc = "sent" /\ head'[r].at = Responsible(r)
    BY <1>0
  <2>2. asked'[r] \subseteq Stored' BY <1>0, <1>1, StoredGrows DEF Fits
  <2>3. Responsible(r) = Own(ParentOf(r))
    <3>1. ParentOf(r) \in Path
      <4>1. ParentOf(r) # Root BY <1>0 DEF TypeInv, AskResponsible, ParentHere, ParentOf
      <4> QED BY <1>0, <4>1, PathAssumption DEF ParentOf, Path
    <3> QED BY <1>0, <3>1, StableResponsible DEF StableInv, Responsible, ParentOf
  <2>4. job[r].at = Own(job[r].path) BY <1>0 DEF Fits, Working
  <2>5. /\ job'[r].pc = "recovering" /\ job'[r].path = job[r].path
        /\ job'[r].at = job[r].at /\ job'[r].traversed = job[r].traversed
    BY <1>0, <2>1 DEF JobType
  <2> QED BY <1>0, <2>1, <2>2, <2>3, <2>4, <2>5 DEF Fits, Working, Own, ParentOf
<1>4. OneMkdirWins' BY <1>0, SameWinners DEF StableInv, JobType
<1>5. DirectoriesAreWithTheirNode' BY <1>0, SameDirectories DEF StableInv
<1> QED BY <1>0, <1>1, <1>2, <1>3, <1>4, <1>5, OneRequestFits

\* A HEAD request that finds the directory was served by the node it belongs to.
LEMMA HeadServedStable ==
    ASSUME TypeInv, StableInv, NEW r \in Request, HeadServed(r)
    PROVE  StableInv'
<1>0. /\ head[r].pc = "sent" /\ job[r].pc = "recovering"
      /\ UNCHANGED <<dirs, files, nodes, changes, up, job, asked>>
      /\ job \in [Request -> JobType] /\ head \in [Request -> HeadType]
      /\ job[r].at \in Node /\ job[r].path \in Path /\ Fits(r)
      /\ ParentOf(r) \in Dir /\ head[r].at = Own(ParentOf(r)) /\ head[r].at \in Node
      /\ files \in [Node -> SUBSET File]
  BY DEF HeadServed, TypeInv, JobInv, JobOK, StableInv, Fits, ParentOf
<1>a. HeadElsewhere(r) = None
  <2>1. ParentOf(r) \in Path BY <1>0 DEF Path
  <2> QED BY <1>0, <2>1, StableResponsible DEF HeadElsewhere, ParentOf, StableInv
<1>b. PICK pc \in {"directory", "missing"} :
         /\ head' = [head EXCEPT ![r].pc = pc]
         /\ pc = "directory" <=> ParentOf(r) \in dirs[head[r].at]
  BY <1>a DEF HeadServed, ParentOf
<1>1. Grows BY <1>0 DEF Grows
<1>2. \A q \in Request \ {r} : job'[q] = job[q] /\ head'[q] = head[q] BY <1>0, <1>b
<1>3. Fits(r)'
  <2>1. head'[r].pc = pc /\ head'[r].at = head[r].at BY <1>0, <1>b DEF HeadType
  <2>2. asked[r] \subseteq Stored /\ Stored' = Stored BY <1>0 DEF Fits, Stored, Own
  <2>3. pc = "directory" => ParentOf(r) \in Stored BY <1>0, <1>b DEF Stored, Path
  <2>4. pc = "missing" => ParentOf(r) \notin Stored
    <3>1. ParentOf(r) \notin files[head[r].at] BY <1>0, PathAssumption
    <3> QED BY <1>0, <1>b, <3>1 DEF Stored
  <2>5. Own(job'[r].path) = Own(job[r].path) /\ ParentOf(r)' = ParentOf(r)
        /\ Own(ParentOf(r))' = Own(ParentOf(r))
    BY <1>0 DEF Own, ParentOf
  <2> QED BY <1>0, <2>1, <2>2, <2>3, <2>4, <2>5 DEF Fits
<1>4. OneMkdirWins' BY <1>0, SameWinners DEF StableInv, JobType
<1>5. DirectoriesAreWithTheirNode' BY <1>0, SameDirectories DEF StableInv
<1> QED BY <1>0, <1>1, <1>2, <1>3, <1>4, <1>5, OneRequestFits

\* A HEAD request fails only when a node is gone, and then nothing is said of
\* what is missing.
LEMMA HeadFailsStable ==
    ASSUME TypeInv, StableInv, NEW r \in Request, HeadFails(r)
    PROVE  StableInv'
<1>0. /\ head[r].pc = "sent" /\ job[r].pc = "recovering"
      /\ head' = [head EXCEPT ![r].pc = "missing"]
      /\ UNCHANGED <<dirs, files, nodes, changes, up, job, asked>>
      /\ job \in [Request -> JobType] /\ head \in [Request -> HeadType]
      /\ head[r].at \in Node /\ head[r].at \notin up /\ Fits(r)
  BY DEF HeadFails, TypeInv, JobInv, JobOK, StableInv
<1>1. Grows BY <1>0 DEF Grows
<1>2. \A q \in Request \ {r} : job'[q] = job[q] /\ head'[q] = head[q] BY <1>0
<1>3. Fits(r)'
  <2>1. head'[r].pc = "missing" /\ head'[r].at = head[r].at BY <1>0 DEF HeadType
  <2>2. Stored' = Stored /\ up' # Node BY <1>0 DEF Stored, Own
  <2>3. Own(job'[r].path) = Own(job[r].path) /\ ParentOf(r)' = ParentOf(r)
        /\ Own(ParentOf(r))' = Own(ParentOf(r))
    BY <1>0 DEF Own, ParentOf
  <2> QED BY <1>0, <2>1, <2>2, <2>3 DEF Fits
<1>4. OneMkdirWins' BY <1>0, SameWinners DEF StableInv, JobType
<1>5. DirectoriesAreWithTheirNode' BY <1>0, SameDirectories DEF StableInv
<1> QED BY <1>0, <1>1, <1>2, <1>3, <1>4, <1>5, OneRequestFits

\* Every directory that recovery makes is on its own node: the node responsible
\* for the innermost has its parents too.
LEMMA RecoverStable ==
    ASSUME TypeInv, StableInv, NEW r \in Request, Recover(r)
    PROVE  StableInv'
<1> DEFINE d == ParentOf(r)
           grown == dirs[job[r].at] \cup Ancestors(d)
<1>0. /\ job' = [job EXCEPT ![r].pc = "retry"] /\ head' = [head EXCEPT ![r].pc = "none"]
      /\ job[r].pc = "recovering" /\ head[r].pc = "directory"
      /\ dirs' = [dirs EXCEPT ![job[r].at] = grown]
      /\ UNCHANGED <<files, nodes, changes, up, asked>>
      /\ job \in [Request -> JobType] /\ head \in [Request -> HeadType]
      /\ job[r].at \in Node /\ job[r].path \in Path /\ Fits(r) /\ d \in Dir
      /\ dirs \in [Node -> SUBSET Known] /\ files \in [Node -> SUBSET File]
  BY DEF Recover, Goto, TypeInv, JobInv, JobOK, StableInv, ParentOf
<1>a. Own(d) \in Node /\ d \in dirs[Own(d)]
  <2>1. d \in Stored BY <1>0 DEF Fits
  <2>2. Own(d) \in Node /\ d \in dirs[Own(d)] \cup files[Own(d)] BY <2>1 DEF Stored
  <2> QED BY <1>0, <2>2, PathAssumption
<1> HIDE DEF d
<1>b. Ancestors(d) \subseteq dirs[Own(d)]
  <2>1. d \in Known /\ dirs[Own(d)] \in SUBSET Known /\ Closed(dirs[Own(d)])
    BY <1>0, <1>a DEF Known, TypeInv
  <2> QED BY <1>a, <2>1, AncestorsClosed
<1>1. Grows BY <1>0 DEF Grows
<1>2. \A q \in Request \ {r} : job'[q] = job[q] /\ head'[q] = head[q] BY <1>0
<1>3. Fits(r)'
  <2>1. /\ job'[r].pc = "retry" /\ job'[r].path = job[r].path
        /\ job'[r].at = job[r].at /\ job'[r].traversed = job[r].traversed
        /\ head'[r].pc = "none"
    BY <1>0 DEF JobType, HeadType
  <2>2. asked'[r] \subseteq Stored' BY <1>0, <1>1, StoredGrows DEF Fits
  <2> QED BY <1>0, <2>1, <2>2 DEF Fits, Working, Own
<1>4. OneMkdirWins' BY <1>0, SameWinners DEF StableInv, JobType
<1>5. DirectoriesAreWithTheirNode'
  <2>1. \A n \in Node : \A e \in dirs[n] \ {Root} : Own(e) \in Node /\ e \in dirs[Own(e)]
    BY <1>0, OwnType DEF StableInv, DirectoriesAreWithTheirNode, Own, Known, Path
  <2> SUFFICES ASSUME NEW n \in Node, NEW e \in dirs'[n] \ {Root} PROVE e \in dirs'[Own(e)]
    BY DEF DirectoriesAreWithTheirNode, Own
  <2>2. e \in dirs[n] \/ e \in dirs[Own(d)] BY <1>0, <1>b
  <2>3. Own(e) \in Node /\ e \in dirs[Own(e)] BY <1>a, <2>1, <2>2
  <2> QED BY <1>1, <2>3 DEF Grows
<1> QED BY <1>0, <1>1, <1>2, <1>3, <1>4, <1>5, OneRequestFits

\* A directory that its node does not have was not acknowledged before the
\* request was sent.
LEMMA NotRecoveredStable ==
    ASSUME TypeInv, StableInv, NEW r \in Request, NotRecovered(r)
    PROVE  StableInv'
<1>0. /\ job' = [job EXCEPT ![r].pc = "notFound"] /\ head' = [head EXCEPT ![r].pc = "none"]
      /\ job[r].pc = "recovering" /\ head[r].pc = "missing"
      /\ UNCHANGED <<dirs, files, nodes, changes, up, asked>>
      /\ job \in [Request -> JobType] /\ head \in [Request -> HeadType]
      /\ job[r].op # "get" /\ ParentOf(r) \in Dir /\ Fits(r)
  BY DEF NotRecovered, Goto, TypeInv, JobInv, JobOK, StableInv, ParentOf, Working
<1>1. Grows BY <1>0 DEF Grows
<1>2. \A q \in Request \ {r} : job'[q] = job[q] /\ head'[q] = head[q] BY <1>0
<1>3. Fits(r)'
  <2>1. /\ job'[r].pc = "notFound" /\ job'[r].path = job[r].path /\ job'[r].op = job[r].op
        /\ job'[r].at = job[r].at /\ job'[r].traversed = job[r].traversed
        /\ head'[r].pc = "none"
    BY <1>0 DEF JobType, HeadType
  <2>2. asked'[r] \subseteq Stored' BY <1>0, <1>1, StoredGrows DEF Fits
  <2>3. ParentOf(r)' = ParentOf(r) /\ ParentOf(r) # Root
    BY <1>0, <2>1, PathAssumption DEF ParentOf, Path
  <2> QED BY <1>0, <2>1, <2>2, <2>3 DEF Fits, Working, Own
<1>4. OneMkdirWins' BY <1>0, SameWinners DEF StableInv, JobType
<1>5. DirectoriesAreWithTheirNode' BY <1>0, SameDirectories DEF StableInv
<1> QED BY <1>0, <1>1, <1>2, <1>3, <1>4, <1>5, OneRequestFits

\* Every step keeps the invariant while the topology is stable.
LEMMA NextStable ==
    ASSUME MaxChanges = 0, TypeInv, StableInv, [Next]_vars
    PROVE  StableInv'
<1>1. ASSUME NEW r \in Request, NEW n \in Node, NEW op \in Op, NEW p \in Path,
             Send(r, n, op, p)
      PROVE  StableInv'
  BY <1>1, SendStable
<1>2. ASSUME NEW r \in Request, Step(r) PROVE StableInv'
  BY <1>2, NotServedStable, RedirectStable, GetStable, ServeStable, CreateLocallyStable,
     PanicStable, AskResponsibleStable, HeadServedStable, HeadFailsStable, RecoverStable,
     NotRecoveredStable DEF Step
<1>3. ASSUME NEW n \in Node, NEW S \in SUBSET (Node \ {n}), UpdateNodes(n, S)
      PROVE  FALSE
  BY <1>3 DEF UpdateNodes, TypeInv
<1>4. CASE UNCHANGED vars
  <2>1. Grows BY <1>4 DEF Grows, vars
  <2>2. \A r \in Request : Fits(r)' BY <1>4, <2>1, OthersFit DEF StableInv, vars
  <2>3. OneMkdirWins' BY <1>4, SameWinners DEF StableInv, vars
  <2>4. DirectoriesAreWithTheirNode' BY <1>4, SameDirectories DEF StableInv, vars
  <2> QED BY <1>4, <2>2, <2>3, <2>4 DEF StableInv, vars
<1> QED BY <1>1, <1>2, <1>3, <1>4 DEF Next, Finished

\* The inductive invariant behind the next four theorems: while the nodes keep
\* knowing each other, a request is served where its path belongs.
THEOREM DistributionInvariance == ASSUME MaxChanges = 0 PROVE Spec => []StableInv
<1>1. Init => StableInv BY InitStable
<1>2. TypeInv /\ StableInv /\ [Next]_vars => StableInv' BY NextStable
<1> QED BY <1>1, <1>2, DistributionTypes, PTL DEF Spec

\* Whatever directories recovery copies while other requests make theirs, each
\* is also on the node responsible for it: CreateDirectoryAndParents only makes
\* what a HEAD request found with its parents.
THEOREM CopiesAreWithTheirNode ==
    ASSUME MaxChanges = 0 PROVE Spec => []DirectoriesAreWithTheirNode
<1>1. StableInv => DirectoriesAreWithTheirNode BY DEF StableInv
<1> QED BY <1>1, DistributionInvariance, PTL

\* Two clients that create the same directory through any nodes are never both
\* told that they did.
THEOREM MkdirHasOneWinner == ASSUME MaxChanges = 0 PROVE Spec => []OneMkdirWins
<1>1. StableInv => OneMkdirWins BY DEF StableInv
<1> QED BY <1>1, DistributionInvariance, PTL

\* While no process ends, "not found" is never the answer to a client that asks
\* for, or creates in, what was acknowledged before it asked.
THEOREM WhatIsAcknowledgedIsFound ==
    ASSUME MaxChanges = 0 PROVE Spec => []AcknowledgedIsFound
<1>1. StableInv => AcknowledgedIsFound
  BY DEF StableInv, Fits, AcknowledgedIsFound, ParentOf
<1> QED BY <1>1, DistributionInvariance, PTL
=============================================================================
