---------------------------- MODULE WriteContainer ----------------------------
(***************************************************************************)
(* The write path of package storage: the workers of one node create       *)
(* regular files in one directory.  Each appends a record to the tar of    *)
(* the directory's write container and a row to its index, under two       *)
(* mutexes that do not cover everything: the write container is read after *)
(* writeContainerUpdateMutex is released, and is closed without its        *)
(* writeMutex.  A file is one record of size 1; a tar is the set of the    *)
(* records at its addresses.                                               *)
(***************************************************************************)
EXTENDS Naturals, FiniteSets

CONSTANTS
    Worker,         \* goroutines of the server's worker pool
    File,           \* create requests, in the order in which workers take
                    \* them, each for a name of its own
    MaxSize,        \* config: max_container_size, in records
    MaxContainers,  \* bound: container numbers
    NameOrder,      \* position of a container's name in a directory listing
    Faults,         \* "restart", "tarWrite", "indexWrite": what may happen
    None            \* no worker, no file

Number == 1 .. MaxContainers
Nil == 0            \* the nil container

ASSUME SizeAssumption == MaxSize \in Nat \ {0}
ASSUME NumberAssumption == MaxContainers \in Nat \ {0}
ASSUME FileAssumption == File \subseteq Nat
ASSUME NameOrderAssumption == NameOrder \in [Number -> Nat]
ASSUME NoneAssumption == None \notin Worker /\ None \notin File

VARIABLES
    \* on disk
    tars,                       \* numbers of the containers' tar files
    indexes,                    \* numbers of the containers' index files
    size,                       \* size of each tar
    blocks,                     \* records of the tars
    rows,                       \* rows of the indexes
    \* the directory's cache entry
    containers, writeContainer, writeContainerUpdateMutex,
    walkerKeys,                 \* cacheKeys of the mutex holder's walker
    \* per container object
    writeFd,                    \* is the tar open?
    position,                   \* file offset of the open tar
    Size,                       \* field Size, the size IsWriteable trusts
    tarErr,                     \* the tar writer keeps its first error
    writeMutex,
    indexFd,                    \* is the index open?
    \* per worker
    pc, req, cont, addr,
    \* the clients
    answer

diskVars == <<tars, indexes, size, blocks, rows>>
entryVars == <<containers, writeContainer, writeContainerUpdateMutex, walkerKeys>>
objectVars == <<writeFd, position, Size, tarErr, writeMutex, indexFd>>
workerVars == <<pc, req, cont, addr>>
vars == <<diskVars, entryVars, objectVars, workerVars, answer>>

Block == [number : Number, address : Nat, file : File, whole : BOOLEAN]
Row == [number : Number, address : Nat, file : File]

\* Steps under writeContainerUpdateMutex, and those under a writeMutex.
Ensuring == {"check", "closeIndex", "keys", "list", "makeIndex"}
Writing == {"open", "header", "data", "index", "row", "sync", "size"}
PC == {"idle", "ensure", "use", "lock"} \cup Ensuring \cup Writing

\* What processes may have left behind that were killed at their first create,
\* between a tar and its index: a walk that starts with an empty cache comes to
\* the first tar only and then takes the second.  More need a reader that has
\* filled the cache in between.
LeftBehind == {{m \in Number : m <= n} : n \in 0 .. 2}

Init ==
    /\ tars \in LeftBehind /\ indexes = {} /\ blocks = {} /\ rows = {}
    /\ size = [n \in Number |-> 0]
    /\ containers = {} /\ writeContainer = Nil /\ walkerKeys = {}
    /\ writeContainerUpdateMutex = None
    /\ writeFd = [n \in Number |-> FALSE]
    /\ position = [n \in Number |-> 0]
    /\ Size = [n \in Number |-> 0]
    /\ tarErr = [n \in Number |-> FALSE]
    /\ writeMutex = [n \in Number |-> None]
    /\ indexFd = [n \in Number |-> FALSE]
    /\ pc = [w \in Worker |-> "idle"]
    /\ req = [w \in Worker |-> None]
    /\ cont = [w \in Worker |-> Nil]
    /\ addr = [w \in Worker |-> 0]
    /\ answer = [f \in File |-> "new"]

Goto(w, label) == pc' = [pc EXCEPT ![w] = label]

-----------------------------------------------------------------------------
(* ensureCacheEntryWriteContainer: an open container that is not full.      *)

\* A closed container is asked of the disk, an open one of its own Size.
IsWriteable(n) ==
    /\ n \in indexes
    /\ (IF writeFd[n] THEN Size[n] ELSE size[n]) < MaxSize

\* What the walker's only pass over the directory returns: of the containers
\* that are not in the cache yet, the first by name.
FirstListed(S) == {n \in S : \A m \in S : NameOrder[n] <= NameOrder[m]}

\* The number after the highest one the walker visited.
NextNumber(n, visited) ==
    /\ n - 1 \in visited \cup {0}
    /\ \A m \in visited : m < n

Accept(w, f) ==
    /\ pc[w] = "idle"
    /\ answer[f] = "new" /\ \A g \in File : g < f => answer[g] # "new"
    /\ answer' = [answer EXCEPT ![f] = "pending"]
    /\ req' = [req EXCEPT ![w] = f]
    /\ Goto(w, "ensure")
    /\ UNCHANGED <<diskVars, entryVars, objectVars, cont, addr>>

LockEntry(w) ==
    /\ pc[w] = "ensure"
    /\ writeContainerUpdateMutex = None
    /\ writeContainerUpdateMutex' = w
    /\ Goto(w, "check")
    /\ UNCHANGED <<diskVars, containers, writeContainer, walkerKeys,
                   objectVars, req, cont, addr, answer>>

\* Mutant: the early return forgets the mutex.
KeepContainerLocked(w) ==
    /\ pc[w] = "check"
    /\ writeContainer # Nil
    /\ IsWriteable(writeContainer)
    /\ Goto(w, "use")
    /\ UNCHANGED <<diskVars, entryVars, objectVars, req, cont, addr, answer>>

KeepContainer(w) ==
    /\ pc[w] = "check"
    /\ writeContainer # Nil
    /\ IsWriteable(writeContainer)
    /\ writeContainerUpdateMutex' = None
    /\ Goto(w, "use")
    /\ UNCHANGED <<diskVars, containers, writeContainer, walkerKeys,
                   objectVars, req, cont, addr, answer>>

\* Close of a full container, first its tar: whoever writes it is not asked.
CloseTar(w) ==
    /\ pc[w] = "check"
    /\ writeContainer # Nil
    /\ ~IsWriteable(writeContainer)
    /\ writeFd' = [writeFd EXCEPT ![writeContainer] = FALSE]
    /\ position' = [position EXCEPT ![writeContainer] = 0]
    /\ Goto(w, "closeIndex")
    /\ UNCHANGED <<diskVars, entryVars, Size, tarErr, writeMutex, indexFd,
                   req, cont, addr, answer>>

CloseIndex(w) ==
    /\ pc[w] = "closeIndex"
    /\ indexFd' = [indexFd EXCEPT ![writeContainer] = FALSE]
    /\ writeContainer' = Nil
    /\ Goto(w, "keys")
    /\ UNCHANGED <<diskVars, containers, writeContainerUpdateMutex, walkerKeys,
                   writeFd, position, Size, tarErr, writeMutex,
                   req, cont, addr, answer>>

\* The walker notes the keys of the cached containers.
StartWalk(w) ==
    /\ \/ pc[w] = "keys"
       \/ pc[w] = "check" /\ writeContainer = Nil
    /\ walkerKeys' = containers
    /\ Goto(w, "list")
    /\ UNCHANGED <<diskVars, containers, writeContainer,
                   writeContainerUpdateMutex, objectVars,
                   req, cont, addr, answer>>

Visited == walkerKeys \cup FirstListed(tars \ containers)
CandidatesCached == {n \in walkerKeys : IsWriteable(n)}  \* mutant: only what is cached
Candidates == {n \in Visited : IsWriteable(n)}

\* The walker puts every container of the directory in the cache, closed and
\* with the size it has on disk.
LoadContainers ==
    /\ containers' = tars
    /\ Size' = [n \in Number |-> IF n \in tars \ containers THEN size[n]
                                                            ELSE Size[n]]

\* The highest writeable container the walk came across.
PickContainer(w) ==
    /\ pc[w] = "list"
    /\ \E n \in Candidates :
          /\ \A m \in Candidates : m <= n
          /\ writeContainer' = n
    /\ LoadContainers
    /\ writeContainerUpdateMutex' = None
    /\ walkerKeys' = {}
    /\ Goto(w, "use")
    /\ UNCHANGED <<diskVars, writeFd, position, tarErr, writeMutex, indexFd,
                   req, cont, addr, answer>>

\* Mutant: the tar is created although it exists, which truncates it.
ReuseContainerTruncating(w) ==
    /\ pc[w] = "list"
    /\ Candidates = {}
    /\ \E n \in tars :
          /\ NextNumber(n, Visited)
          /\ writeContainer' = n
          /\ blocks' = {b \in blocks : b.number # n}
          /\ size' = [size EXCEPT ![n] = 0]
    /\ LoadContainers
    /\ writeContainerUpdateMutex' = None
    /\ walkerKeys' = {}
    /\ Goto(w, "use")
    /\ UNCHANGED <<tars, indexes, rows, writeFd, position, tarErr, writeMutex,
                   indexFd, req, cont, addr, answer>>

\* No candidate, and the next number's tar exists: it is taken as it is.
ReuseContainer(w) ==
    /\ pc[w] = "list"
    /\ Candidates = {}
    /\ \E n \in tars :
          /\ NextNumber(n, Visited)
          /\ writeContainer' = n
    /\ LoadContainers
    /\ writeContainerUpdateMutex' = None
    /\ walkerKeys' = {}
    /\ Goto(w, "use")
    /\ UNCHANGED <<diskVars, writeFd, position, tarErr, writeMutex, indexFd,
                   req, cont, addr, answer>>

\* No candidate: a new container, first its tar, empty ...
MakeTar(w) ==
    /\ pc[w] = "list"
    /\ Candidates = {}
    /\ \E n \in Number \ tars :
          /\ NextNumber(n, Visited)
          /\ tars' = tars \cup {n}
          /\ cont' = [cont EXCEPT ![w] = n]
    /\ LoadContainers
    /\ walkerKeys' = {}
    /\ Goto(w, "makeIndex")
    /\ UNCHANGED <<indexes, size, blocks, rows, writeContainer,
                   writeContainerUpdateMutex, writeFd, position, tarErr,
                   writeMutex, indexFd, req, addr, answer>>

\* Mutant: the new container is not put in the cache.
MakeIndexUncached(w) ==
    /\ pc[w] = "makeIndex"
    /\ indexes' = indexes \cup {cont[w]}
    /\ writeContainer' = cont[w]
    /\ writeContainerUpdateMutex' = None
    /\ Goto(w, "use")
    /\ UNCHANGED <<tars, size, blocks, rows, containers, walkerKeys, objectVars,
                   req, cont, addr, answer>>

\* ... then its index; only now does the cache know it.
MakeIndex(w) ==
    /\ pc[w] = "makeIndex"
    /\ indexes' = indexes \cup {cont[w]}
    /\ containers' = containers \cup {cont[w]}
    /\ writeContainer' = cont[w]
    /\ writeContainerUpdateMutex' = None
    /\ Goto(w, "use")
    /\ UNCHANGED <<tars, size, blocks, rows, walkerKeys, objectVars,
                   req, cont, addr, answer>>

-----------------------------------------------------------------------------
(* CreateRegularFile of the container.                                      *)

\* The write container is read again, without writeContainerUpdateMutex.
Use(w) ==
    /\ pc[w] = "use"
    /\ writeContainer # Nil
    /\ cont' = [cont EXCEPT ![w] = writeContainer]
    /\ Goto(w, "lock")
    /\ UNCHANGED <<diskVars, entryVars, objectVars, req, addr, answer>>

\* Mutant: a second worker enters the container.
LockContainerTwice(w) ==
    /\ pc[w] = "lock"
    /\ writeMutex' = [writeMutex EXCEPT ![cont[w]] = w]
    /\ Goto(w, "open")
    /\ UNCHANGED <<diskVars, entryVars, writeFd, position, Size, tarErr,
                   indexFd, req, cont, addr, answer>>

LockContainer(w) ==
    /\ pc[w] = "lock"
    /\ writeMutex[cont[w]] = None
    /\ writeMutex' = [writeMutex EXCEPT ![cont[w]] = w]
    /\ Goto(w, "open")
    /\ UNCHANGED <<diskVars, entryVars, writeFd, position, Size, tarErr,
                   indexFd, req, cont, addr, answer>>

\* Mutant: the tar is opened at its start.
OpenTarAtStart(w) ==
    LET n == cont[w] IN
    /\ pc[w] = "open"
    /\ \/ writeFd[n] /\ UNCHANGED <<writeFd, position, tarErr>>
       \/ /\ ~writeFd[n]
          /\ writeFd' = [writeFd EXCEPT ![n] = TRUE]
          /\ position' = [position EXCEPT ![n] = 0]
          /\ tarErr' = [tarErr EXCEPT ![n] = FALSE]
    /\ Goto(w, "header")
    /\ UNCHANGED <<diskVars, entryVars, Size, writeMutex, indexFd,
                   req, cont, addr, answer>>

\* Opens a closed tar at its end, with a new tar writer.
OpenTar(w) ==
    LET n == cont[w] IN
    /\ pc[w] = "open"
    /\ \/ writeFd[n] /\ UNCHANGED <<writeFd, position, tarErr>>
       \/ /\ ~writeFd[n]
          /\ writeFd' = [writeFd EXCEPT ![n] = TRUE]
          /\ position' = [position EXCEPT ![n] = size[n]]
          /\ tarErr' = [tarErr EXCEPT ![n] = FALSE]
    /\ Goto(w, "header")
    /\ UNCHANGED <<diskVars, entryVars, Size, writeMutex, indexFd,
                   req, cont, addr, answer>>

\* The request ends: the mutex is released and the client gets its answer.
Return(w, result) ==
    /\ writeMutex' = [writeMutex EXCEPT ![cont[w]] = None]
    /\ answer' = [answer EXCEPT ![req[w]] = result]
    /\ req' = [req EXCEPT ![w] = None]
    /\ cont' = [cont EXCEPT ![w] = Nil]
    /\ addr' = [addr EXCEPT ![w] = 0]
    /\ Goto(w, "idle")

\* What a write at address a leaves of the records of tar n.
Overwritten(n, a) == {b \in blocks : ~(b.number = n /\ b.address = a)}

\* The record starts at the current offset; its data is still missing.
WriteHeader(w) ==
    LET n == cont[w]  a == position[n] IN
    /\ pc[w] = "header"
    /\ writeFd[n] /\ ~tarErr[n]
    /\ addr' = [addr EXCEPT ![w] = a]
    /\ blocks' = Overwritten(n, a) \cup
          {[number |-> n, address |-> a, file |-> req[w], whole |-> FALSE]}
    /\ position' = [position EXCEPT ![n] = a + 1]
    /\ size' = [size EXCEPT ![n] = IF a < @ THEN @ ELSE a + 1]
    /\ Goto(w, "data")
    /\ UNCHANGED <<tars, indexes, rows, entryVars, writeFd, Size, tarErr,
                   writeMutex, indexFd, req, cont, answer>>

\* The tar was closed in between: the failed Seek closes the index too.
SeekFails(w) ==
    /\ pc[w] = "header"
    /\ ~writeFd[cont[w]]
    /\ indexFd' = [indexFd EXCEPT ![cont[w]] = FALSE]
    /\ Return(w, "failed")
    /\ UNCHANGED <<diskVars, entryVars, writeFd, position, Size, tarErr>>

\* The tar was closed after the Seek, or its writer failed before.
HeaderFails(w) ==
    /\ pc[w] = "header"
    /\ ~writeFd[cont[w]] \/ tarErr[cont[w]]
    /\ Return(w, "failed")
    /\ UNCHANGED <<diskVars, entryVars, writeFd, position, Size, tarErr, indexFd>>

\* The record in progress of worker w, and the index row that goes with it.
Mine(w, whole) ==
    [number |-> cont[w], address |-> addr[w], file |-> req[w], whole |-> whole]
MyRow(w) == [number |-> cont[w], address |-> addr[w], file |-> req[w]]

\* Mutant: nobody looks at the error of a write into a closed tar.
WriteDataUnchecked(w) ==
    /\ pc[w] = "data"
    /\ blocks' = IF writeFd[cont[w]]
                    THEN Overwritten(cont[w], addr[w]) \cup {Mine(w, TRUE)}
                    ELSE blocks
    /\ Goto(w, "index")
    /\ UNCHANGED <<tars, indexes, size, rows, entryVars, objectVars,
                   req, cont, addr, answer>>

WriteData(w) ==
    /\ pc[w] = "data"
    /\ writeFd[cont[w]]
    /\ blocks' = Overwritten(cont[w], addr[w]) \cup {Mine(w, TRUE)}
    /\ Goto(w, "index")
    /\ UNCHANGED <<tars, indexes, size, rows, entryVars, objectVars,
                   req, cont, addr, answer>>

\* The tar was closed in between: the record stays torn.
DataFails(w) ==
    /\ pc[w] = "data"
    /\ ~writeFd[cont[w]]
    /\ Return(w, "failed")
    /\ UNCHANGED <<diskVars, entryVars, writeFd, position, Size, tarErr, indexFd>>

\* The disk refuses a header or the data, and the tar writer remembers it.
TarFault(w) ==
    /\ "tarWrite" \in Faults
    /\ \/ pc[w] = "header" /\ writeFd[cont[w]] /\ ~tarErr[cont[w]]
       \/ pc[w] = "data" /\ writeFd[cont[w]]
    /\ tarErr' = [tarErr EXCEPT ![cont[w]] = TRUE]
    /\ Return(w, "failed")
    /\ UNCHANGED <<diskVars, entryVars, writeFd, position, Size, indexFd>>

\* AddRegularFile of the index, when the container has one.
OpenIndex(w) ==
    /\ pc[w] = "index"
    /\ cont[w] \in indexes
    /\ indexFd' = [indexFd EXCEPT ![cont[w]] = TRUE]
    /\ Goto(w, "row")
    /\ UNCHANGED <<diskVars, entryVars, writeFd, position, Size, tarErr,
                   writeMutex, req, cont, addr, answer>>

NoIndex(w) ==
    /\ pc[w] = "index"
    /\ cont[w] \notin indexes
    /\ Goto(w, "size")
    /\ UNCHANGED <<diskVars, entryVars, objectVars, req, cont, addr, answer>>

\* Nobody looks at the error of this write: the row may be missing.
WriteRow(w) ==
    /\ pc[w] = "row"
    /\ \/ indexFd[cont[w]] /\ rows' = rows \cup {MyRow(w)}
       \/ (~indexFd[cont[w]] \/ "indexWrite" \in Faults) /\ rows' = rows
    /\ Goto(w, "sync")
    /\ UNCHANGED <<tars, indexes, size, blocks, entryVars, objectVars,
                   req, cont, addr, answer>>

\* Mutant: nobody looks at the error of Sync.
SyncUnchecked(w) ==
    /\ pc[w] = "sync"
    /\ Goto(w, "size")
    /\ UNCHANGED <<diskVars, entryVars, objectVars, req, cont, addr, answer>>

Sync(w) ==
    /\ pc[w] = "sync"
    /\ indexFd[cont[w]]
    /\ Goto(w, "size")
    /\ UNCHANGED <<diskVars, entryVars, objectVars, req, cont, addr, answer>>

SyncFails(w) ==
    /\ pc[w] = "sync"
    /\ ~indexFd[cont[w]]
    /\ Return(w, "failed")
    /\ UNCHANGED <<diskVars, entryVars, writeFd, position, Size, tarErr, indexFd>>

\* The Seek of a tar that was closed in between returns 0, its error is unseen.
SetSize(w) ==
    /\ pc[w] = "size"
    /\ Size' = [Size EXCEPT ![cont[w]] =
                   IF writeFd[cont[w]] THEN position[cont[w]] ELSE 0]
    /\ Return(w, "acked")
    /\ UNCHANGED <<diskVars, entryVars, writeFd, position, tarErr, indexFd>>

-----------------------------------------------------------------------------
(* The rest of the process.                                                 *)

\* A reader's walker fills the cache; a container being made is not seen,
\* for its maker holds containersUpdateMutex.
ReaderLoads ==
    /\ tars # containers
    /\ \A w \in Worker : pc[w] # "makeIndex"
    /\ LoadContainers
    /\ UNCHANGED <<diskVars, writeContainer, writeContainerUpdateMutex,
                   walkerKeys, writeFd, position, tarErr, writeMutex, indexFd,
                   workerVars, answer>>

\* All that is in memory goes; the disk stays.
ForgetMemory ==
    /\ containers' = {} /\ writeContainer' = Nil /\ walkerKeys' = {}
    /\ writeContainerUpdateMutex' = None
    /\ writeFd' = [n \in Number |-> FALSE]
    /\ position' = [n \in Number |-> 0]
    /\ Size' = [n \in Number |-> 0]
    /\ tarErr' = [n \in Number |-> FALSE]
    /\ writeMutex' = [n \in Number |-> None]
    /\ indexFd' = [n \in Number |-> FALSE]
    /\ pc' = [w \in Worker |-> "idle"]
    /\ req' = [w \in Worker |-> None]
    /\ cont' = [w \in Worker |-> Nil]
    /\ addr' = [w \in Worker |-> 0]
    /\ answer' = [f \in File |->
                    IF answer[f] = "pending" THEN "lost" ELSE answer[f]]
    /\ UNCHANGED diskVars

\* The process ends between two steps, and is started again: it was killed,
\* or closed while no request was served, which ResetCache amounts to as well.
Restart ==
    /\ "restart" \in Faults
    /\ tars # {}
    /\ ForgetMemory

\* No container where there was one: a nil pointer in a worker goroutine,
\* which ends the process.
Panic(w) ==
    /\ pc[w] = "use"
    /\ writeContainer = Nil
    /\ ForgetMemory

Ensure(w) ==
    \/ LockEntry(w) \/ KeepContainer(w) \/ CloseTar(w) \/ CloseIndex(w)
    \/ StartWalk(w) \/ PickContainer(w) \/ ReuseContainer(w)
    \/ MakeTar(w) \/ MakeIndex(w)

CreateRegularFile(w) ==
    \/ Use(w) \/ Panic(w) \/ LockContainer(w) \/ OpenTar(w)
    \/ WriteHeader(w) \/ SeekFails(w) \/ HeaderFails(w)
    \/ WriteData(w) \/ DataFails(w) \/ TarFault(w)
    \/ OpenIndex(w) \/ NoIndex(w) \/ WriteRow(w) \/ Sync(w) \/ SyncFails(w)
    \/ SetSize(w)

Step(w) == Ensure(w) \/ CreateRegularFile(w)

\* Every create is answered: nothing more has to happen.
Finished ==
    /\ \A f \in File : answer[f] \notin {"new", "pending"}
    /\ UNCHANGED vars

Next ==
    \/ \E w \in Worker : Step(w) \/ \E f \in File : Accept(w, f)
    \/ ReaderLoads \/ Restart \/ Finished

Spec == Init /\ [][Next]_vars

\* A worker that can take its next step takes it: goroutines are scheduled,
\* a mutex is handed over.
FairSpec == Spec /\ \A w \in Worker : WF_vars(Step(w))

-----------------------------------------------------------------------------
(* Properties.                                                              *)

\* Every variable holds what the code can put in it, and the cache knows only
\* containers whose tar exists, a tar being made before its index.
TypeOK ==
    /\ tars \subseteq Number /\ indexes \subseteq tars
    /\ size \in [Number -> Nat]
    /\ blocks \subseteq Block /\ rows \subseteq Row
    /\ containers \subseteq tars /\ walkerKeys \subseteq tars
    /\ writeContainer \in containers \cup {Nil}
    /\ writeContainerUpdateMutex \in Worker \cup {None}
    /\ writeFd \in [Number -> BOOLEAN] /\ indexFd \in [Number -> BOOLEAN]
    /\ position \in [Number -> Nat] /\ Size \in [Number -> Nat]
    /\ tarErr \in [Number -> BOOLEAN]
    /\ writeMutex \in [Number -> Worker \cup {None}]
    /\ pc \in [Worker -> PC]
    /\ req \in [Worker -> File \cup {None}]
    /\ cont \in [Worker -> Number \cup {Nil}]
    /\ addr \in [Worker -> Nat]
    /\ answer \in [File -> {"new", "pending", "acked", "failed", "lost"}]

\* A file that an index lists is whole in its tar at the address of its row,
\* whatever containers were closed, or processes killed, in the middle of a
\* create: GetRegularFileData reads there without looking at the name.
IndexedFilesAreWhole ==
    \A r \in rows : [number |-> r.number, address |-> r.address,
                     file |-> r.file, whole |-> TRUE] \in blocks

\* Record b is the whole record of file f.
WholeRecord(b, f) == b.file = f /\ b.whole

\* A container without index is read from the start of its tar: the reader
\* comes to record b when every record before it is whole.
Scanned(b) ==
    \A c \in blocks : c.number = b.number /\ c.address < b.address => c.whole

\* A reader finds file f: its record is whole, and the index of its container
\* says where it is or, without index, the scan of the tar comes to it.
Stored(f) ==
    \E b \in blocks :
        /\ WholeRecord(b, f)
        /\ \/ [number |-> b.number, address |-> b.address, file |-> f] \in rows
           \/ b.number \notin indexes /\ Scanned(b)

\* File f lies in a container that lost its index to a kill, behind a record
\* that a failed create has left torn: no reader finds it.
Buried(f) ==
    \E b \in blocks : WholeRecord(b, f) /\ b.number \notin indexes /\ ~Scanned(b)

\* A create that was answered with success can be read afterwards, by this
\* process or by the one that is started after a kill.
AckedCanBeRead == \A f \in File : answer[f] = "acked" => Stored(f)

\* What is left of that promise in this code: a file whose create succeeded can
\* be read unless it is buried; its record is whole on disk in any case.
AckedIsStored == \A f \in File : answer[f] = "acked" => Stored(f) \/ Buried(f)

\* Nothing that was written whole is ever written over: two creates never use
\* the same part of a tar.
AppendOnly == [][\A b \in blocks : b.whole => b \in blocks']_vars

\* Every create that a worker takes ends: with success, with an error, or
\* because the process ends (nil_container.cfg shows that it may do so without
\* any fault).  No worker keeps a mutex, waits for one for ever, or is stuck with
\* a closed container, before a restart or after one.
EveryCreateEnds == \A f \in File : answer[f] = "pending" ~> answer[f] # "pending"

\* The creates, seen by the clients and by readers of the disk, are those of a
\* store that acknowledges only what it has stored or buried and loses nothing.
storedFiles == {f \in File : Stored(f)}
buriedFiles == {f \in File : Buried(f)}
Store == INSTANCE FileStore WITH stored <- storedFiles, buried <- buriedFiles
ImplementsFileStore == Store!Spec

\* storage.go:202 "Ensure that we have a container open for writing": the
\* worker that comes back from it finds one.
WriteContainerEnsured ==
    \A w \in Worker : pc[w] = "use" => writeContainer # Nil

\* storage.go:206 "If none it found, it creates a new one": a container is made
\* only when every container that has an index is full, also after a restart,
\* although a walk visits only some of them.
NewOnlyWhenFull ==
    [][tars' # tars => \A n \in tars \cap indexes : size[n] >= MaxSize]_vars
-----------------------------------------------------------------------------
(* Why the safety properties hold: the parts of an inductive invariant.      *)

\* The two mutexes have one holder each, and a container that is being made
\* is in nobody's hands yet.
Locks ==
    /\ \A w \in Worker :
          /\ writeContainerUpdateMutex = w <=> pc[w] \in Ensuring
          /\ pc[w] \in {"lock"} \cup Writing => cont[w] \in containers
          /\ pc[w] \in Writing => writeMutex[cont[w]] = w
          /\ pc[w] = "makeIndex" => cont[w] \in tars \ (containers \cup indexes)
    /\ \A n \in Number, w \in Worker :
          writeMutex[n] = w => pc[w] \in Writing /\ cont[w] = n

\* Every worker that is not idle serves a request of its own.
Requests ==
    \A w \in Worker :
        pc[w] # "idle" =>
            /\ req[w] \in File
            /\ answer[req[w]] = "pending"
            /\ \A v \in Worker \ {w} : pc[v] # "idle" => req[v] # req[w]

\* Records do not overlap, an open tar is at its end, a tar without its index
\* is empty while it is being made.
Records ==
    /\ \A b \in blocks : b.number \in tars /\ b.address < size[b.number]
    /\ \A b, c \in blocks : b.number = c.number /\ b.address = c.address => b = c
    /\ \A n \in Number : writeFd[n] => position[n] = size[n]
    /\ \A w \in Worker, b \in blocks :
          pc[w] = "makeIndex" => b.number # cont[w]

\* A worker's record is in its place, torn and then whole, and nothing is
\* written behind it while it is torn.
InProgress ==
    \A w \in Worker :
        /\ pc[w] = "data" =>
              /\ Mine(w, FALSE) \in blocks
              /\ \A b \in blocks : b.number = cont[w] => b.address <= addr[w]
        /\ pc[w] \in {"index", "row", "sync", "size"} => Mine(w, TRUE) \in blocks

\* The row is there when the create is about to succeed, if the disk takes rows.
RowsInProgress ==
    \A w \in Worker :
        /\ pc[w] = "sync" /\ indexFd[cont[w]] => MyRow(w) \in rows
        /\ pc[w] = "size" /\ cont[w] \in indexes => MyRow(w) \in rows

\* An acknowledged record is whole, and an index that exists has its row: for
\* a reader that means stored or buried.
Written(f) ==
    \E b \in blocks :
        /\ WholeRecord(b, f)
        /\ b.number \in indexes =>
              [number |-> b.number, address |-> b.address, file |-> f] \in rows
AckedIsWritten == \A f \in File : answer[f] = "acked" => Written(f)

AckInv == RowsInProgress /\ AckedIsWritten
DiskInv == TypeOK /\ Locks /\ Requests /\ Records /\ InProgress /\ IndexedFilesAreWhole
IInv == DiskInv /\ ("indexWrite" \notin Faults => AckInv)
=============================================================================
