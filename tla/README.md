# Flocons: a TLA+ model of the storage, the servers and the topology

Flocons is a distributed file system for many small files. A node keeps the
regular files of a directory in tar *containers*, each with a CSV *index*; an
HTTP server with a pool of workers serves them, and sends clients to other
nodes by consistent hashing of paths and by what the indexes say. This
directory holds the TLA+ modules that model it, their TLC configurations and
the TLAPS proofs. Paths below are relative to the repository.

Run a model with `tlc -config writers.cfg MCWriteContainer.tla` and check the
proofs of a component with `tlapm WriteContainerProofs.tla`, and the same for
`ServerPool`, `Redirects`, `Distribution`, `DirectoryCache`, `Reading` and
`Topology`.

## The system

| Component | State | Operations | Talks to |
| --- | --- | --- | --- |
| Storage (`storage/storage.go`) | LRU of directory entries: `containers`, `writeContainer`, two mutexes | create and get files and directories, read a directory, reset, close | containers, file system |
| Container (`storage/container.go`) | `writeFd`, `tarWriter`, `Size`, `writeMutex`, `index` | create, get, list, `IsWriteable`, `Close` | its tar file, its index |
| Index (`storage/index.go`) | `entries`, `lastSize`, `writeFd`, `writeMutex` | add a row, look up, catch up with rows others appended | its CSV file |
| HTTP server (`http/server.go`) | channel `fileJobs`, 10 workers, a condition variable per request | serve, distribute, redirect, recover a directory, close | storage, topology, other nodes (HEAD) |
| HTTP client (`http/client.go`) | none | one request per call, follows redirects | servers |
| Conversions (`http/util.go`) | none | headers, listings, errors (not modelled) | client, server |
| Topology client (`cluster/topology-client.go`) | `nodes`, ZooKeeper session, watches | connect, publish itself, watch, clear, close | ZooKeeper, dispatcher |
| Dispatcher (`cluster/dispatcher.go`) | Maglev table (library) | Set, Get, Clear | topology client |
| File info, configuration, errors, logging, main | no behaviour of their own | | |
| Fuse server, replication manager | only named in `Readme.md` | | |

`main` runs one node (`NewSingleTopologyNodeClient`); clusters are put together
by the tests in `test/http_server_test.go`, and the modules model those.

What is hard here, and what correctness means for each component:

* **Storage writes.** Up to ten workers create in one directory under two kinds
  of mutexes that leave gaps: the write container is used after the entry's
  mutex is released (`storage.go:135`) and closed without its own mutex
  (`storage.go:214`); a process can be killed between any two writes.
  Correct: an acknowledged file can be read ever after, no two creates use the
  same place, an index never points at anything but a whole record, a container
  is made only when the others are full, every create is answered.
* **Server pool.** A condition variable without a condition: a wakeup is lost
  unless the worker is kept from broadcasting before the handler waits; Close
  runs against senders and workers. Correct: served only while the handler
  waits, returned only with an answer, everything ends.
* **Routing.** Decisions of several nodes, from lists and indexes that differ,
  about one request; a worker that waits for another node's worker; a redirect
  chain whose end nobody guarantees. Correct: what was acknowledged is found
  through any node, chains end, nobody waits for ever, one mkdir wins.
* **Reading.** Entries and `lastSize` of a cached index are shared by readers
  and the writer without a lock, while rows are appended by this process and by
  whoever copies indexes. Correct: a file whose row is in a cached index is found
  and listed, no row is passed over, a walk leaves the directory in the cache;
  what a cold cache does not find is the hard part.
* **Directory cache.** Eviction against writers with the reverse lock order, and
  two entries for one directory. Correct: one writer per tar, no record written
  over, nobody waits for ever. The code has this only for entries that nobody
  has when they are pushed out.
* **Topology.** Connections that are lost while a watcher fills an unlocked map,
  watchers that outlive their client, clients that are dropped and live on, a
  znode that outlives its process. Correct: the view comes to agree with
  ZooKeeper, the node is registered until it is closed and not after, Close ends.

PROJECT.json lists the hazards line by line with the properties that cover
them.

## Modules

### FileStore and WriteContainer: `Storage.CreateRegularFile`

`WriteContainer` is the write path in one directory of one node, from
`CreateRegularFile` in `storage.go` down to the rows of `index.go`. Its
variables are the disk (`tars`, `indexes`, `size`, `blocks`, `rows`), the cache
entry (`containers`, `writeContainer`, `writeContainerUpdateMutex`, and the keys
of the walker of the mutex's holder), one record of fields per container object
(`writeFd`, `position`, `Size`, `tarErr`, `writeMutex`, `indexFd`), a program
counter and locals per worker, and what the clients know (`answer`).

| Actions | Code |
| --- | --- |
| `Accept`, `LockEntry`, `KeepContainer` | a create arrives; the mutex is taken; the write container is still good |
| `CloseTar`, `CloseIndex` | a full one is closed, without its mutex, in two steps |
| `StartWalk`, `PickContainer`, `ReuseContainer`, `MakeTar`, `MakeIndex` | another is looked for or made; the walker returns only the first container it loads, and a new number may be that of an existing container |
| `Use`, `Panic` | `storage.go:135` with the mutex released: the container, or nil |
| `LockContainer`, `OpenTar`, `WriteHeader`, `WriteData`, `OpenIndex`, `NoIndex`, `WriteRow`, `Sync`, `SetSize` | `CreateRegularFile` of the container, one step per system call |
| `SeekFails`, `HeaderFails`, `DataFails`, `SyncFails`, `TarFault` | its error paths: the file was closed by another worker, the disk failed, the tar writer keeps its first error |
| `ReaderLoads` | a reader's walk puts containers into the entry |
| `Restart` | `ResetCache` on an idle storage, or a kill at any point: memory and the waiting clients are lost |

A record has size 1 and a tar is the set of the records at its addresses; a
torn record is one that is not `whole`. The walker's calls of `IsWriteable` are
one step. There is one directory, no eviction (see `DirectoryCache`), and every
create has a name of its own.

`Stored` is what a reader finds: a whole record with its row or, where the
container has no index, one the scan of the tar comes to, which ends at the first
torn record (`Scanned`). `Buried` is a whole record behind one, in a container
that a kill has left without index. `FileStore` is what the write path promises:
sets of stored and of buried files that only grow, and acknowledgements only of
what is in one of them. `ImplementsFileStore` maps them to `Stored` and `Buried`;
that there is a second set at all is the finding of `buried_file`.

### ServerPool: handler, worker and Close

`ServerPool` has one variable per goroutine-local program counter, each
request's mutex, the queue of senders blocked on the unbuffered `fileJobs`, and
the two steps of `Close`. `Wait` joins the condition and releases the mutex in
one step, as `sync.Cond` does; `Broadcast` wakes only who waits already, so a
lost wakeup is possible in the model; the mutants show that the mutex is what
prevents it. A sender on the closed channel panics, which net/http contains.

### Distribution: creating across nodes

Every request is at a node, waits for one of `PoolSize` workers, and is
redirected, served, or served after `tryRecoverMissingDirectory`: while it
keeps its worker, a HEAD request of its own (`head`) waits for a worker of the
node responsible for the parent, which may redirect it in turn (`HeadElsewhere`).
`PoolsWait` names the states in which nodes wait for each other for ever: every
worker of each of them recovers a directory of another of them. `Panic` is the
dereference of a nil node in `server.go:253`; it takes the node down with every
request on it. `asked` remembers which paths had been acknowledged when a
request was sent. The dispatcher is any function `Maglev` from the set of
backends to a backend for each path. Storage operations are one step here and fail
only as directories make them fail; their own steps are those of
`WriteContainer`.

### Redirects: one read along a chain of nodes

The file's index and tar are anywhere (all placements are initial states). Node
names are numbers in the order of the strings, and `SearchStrings` is Go's
binary search, on the same unsorted list as in `tryRedirectToNode`. A map
iteration may meet any node first. `MaxChanged` bounds how many nodes come or go
in one change of a node's list.

### DirectoryCache: the LRU of entries

`DirectoryCache` is what `WriteContainer` takes for granted: one entry per
directory. `lru` is the cache in its order, `entries` the entries (each with a
directory, the containers it has loaded and its write container), `fd` the
descriptor of each container object, `tar` the records of each directory's
containers, and four variables hold the mutexes. `Hit` and `Miss` are
`getDirectoryCacheEntry`; a `Miss` in a full cache keeps `updateCacheMutex`
through `Evict` and `EvictClose`, which are `OnEvicted` up to its two locks.
`ResetCache`, `ClearNext`, `Evict`, `ClearClose` and `Cleared` are the same
callback called by `lru.Clear`, without `updateCacheMutex`. `Ensured`, `Search`,
`Walk`, `Choose` and `Make` are `ensureCacheEntryWriteContainer`, `Walk` and
`FoundAtOnce` a read, `Use` the unprotected read of the write container,
`LockAndOpen` and `WriteRecord` the container's create. A container may be full
or not whenever it is asked, so any of them may be closed and another one
chosen, and a straggler may open a closed one again; eviction closes the
write container only. An entry that nothing holds is collected, with what it has
open, and its identity used again.

Any entry may be pushed out, also one that a create has; from then on two
entries of a directory can write its tars. The history variable `strayed`
records the directories this has happened to, and is read by properties only:
`OneWriter` and `AppendOnly` are about all the others, `NothingOverwritten`,
without that condition, is violated. In the same way `UndisturbedOperationsEnd`
is about behaviours in which `OnEvicted` is never called for an entry that a
create has, and `EveryOperationEnds` about all. In practice it takes a thousand
other directories (`DIRECTORY_CACHE_SIZE`) between a create's lookup and its end,
or `CloseAndDestroyStorage`, as `Server.Close` does not wait for the workers.
Two things are taken as one step: `os.Create` in `Make`, which by the code is a
`Stat` and a create that truncates (it matters to directories that have strayed
only), and a walk, whose errors are not modelled.

### Reading: lookups and listings

`Reading` is one directory with this node's containers (`Own`), containers of
another node that are being copied here (`Foreign`), one worker that creates
files and readers that look up a name or list the directory. `cached`,
`entries` and `lastSize` are the containers in the cache entry and their
indexes; a reader is a record of its place in the code, the containers it has
still to visit, the directory as it listed it, and what it has found. `Start`,
`ListDirectory` and `Load` are the walker: the cached keys, the listing, and the
loading under `containersUpdateMutex` of all that is new, of which only the first
is visited. `Visit`, `Stat`, `ReadRows`, `SetSize` and `Look` are the index's
`GetRegularFile`, `ListFiles` and `updateEntries` in the order of their file
accesses; a container without index is read by `Scan`, which comes to no file in
`behind`, those that an earlier process has written behind a torn record.
`Write`, `WriterSetsSize` and `WriterSetsEntry` are `AddRegularFile` seen from
there. The initial states are all that an earlier process may leave: a number of
tars, indexes missing, files in any of them, torn records. Tars that are copied
are whole.

The conversions of `http/util.go` and those between file info, tar header and
index row are not modelled: they are stateless, and what is wrong with them (the
time of a lookup, `util.go:61`) is a matter of a unit test.

### Topology: one node's client of ZooKeeper

`Topology` has ZooKeeper's side (`children`, `data`, who owns this node's
ephemeral znode and whether it has been Set, the clients and their watches), the
connection goroutine (`conn`, `zkClient`, `events`), the map `nodes` and the
dispatcher's `backends`, and one watcher per client that registered the node,
which may live on with the next one.

| Actions | Code |
| --- | --- |
| `Connect`, `ConnectFails`, `Reset` | the loop of `connect`; `Reset` needs `zkClientLock`, which a watcher holds from `List` to `SetDispatcher` |
| `Register`, `NodeExists`, `Set`, `RegisterFails` | `startNodeManagement`: Create, or Set at version 0 in a step of its own, before which the znode may go |
| `Disconnected`, `EventsEnd`, `Cancelled`, `ClearDispatcher` | the other events of `watchConnection`, with `clear` |
| `List`, `ListEnds`, `ListFails`, `Wake`, `NotWatching` | `watchNodes` and `getNodesAndWatch` |
| `Delete`, `Visit`, `SetDispatcher` | `updateNodes`, name by name |
| `Close` | the user's `Close`, at any moment |
| `Break`, `Expire`, `ExpireDead`, `Join`, `Leave` | ZooKeeper and the other nodes |

What is assumed of go-zk: a client that loses its connection announces it and
connects again on its own for as long as it is not closed, and resumes its
session if that has not expired; the watches of a session that ends, and of a
client that is closed, get `EventNotWatching`. So a client that `connect` drops
(`DropClient`) stays, with its znode and its watches, until its session expires
(`Expire`), which need never happen. `Close` of a client takes its znode away, at
once or, when ZooKeeper cannot be told, later (`ExpireDead`); closing it twice
panics, and the process is gone then.

`clear` is two steps, as it takes no lock. Initially the node may still have a
znode of its last process.

## Runs

| Run | Instance | Shows |
| --- | --- | --- |
| `writers` | 2 workers, 3 creates, MaxSize 1, 5 container numbers; kills and tar faults; 180,320 states | the inductive invariant, whole records and rows, acknowledged files are stored or buried, refinement of `FileStore`, a container is made only when the others are full, every create ends |
| `nil_container` | 2 workers, no fault | *violated*: `WriteContainerEnsured` |
| `directory_cache` | 2 workers, 2 directories of 2 containers, a cache of one entry, 4 operations and any number of resets; 1,208,868 states up to symmetry | one writer per tar, records appended, whatever is pushed out |
| `eviction_deadlock` | the same, 1 container per directory, 3 operations | *violated*: `EveryOperationEnds` |
| `reading` | 2 readers, 1 file of the node and 2 copied ones, 2 + 1 containers; 2,723,974 states | warm files are found and listed, a walk warms the cache, no row is skipped |
| `server_pool` | 3 handlers, 2 workers; 8,416 states | the barrier and Close |
| `redirects` | 5 nodes of one shard, or one apart, one node that comes or goes; 2.6 million states | chains end; a created file is found; a copy on the last named node is found |
| `copy_not_tried` | the same, stable | *violated*: `OtherCopyIsTried` |
| `distribution` | 2 nodes, 3 requests of any kind, 2 directories, 2 files, 2 workers per node; 45,874 states up to symmetry | placement of directories, one mkdir wins, acknowledged paths are found |
| `distribution_changing` | 3 nodes of 1 worker, 2 requests, 2 changes of topology; 209,592 states | every request ends unless pools wait for each other, while nodes die and HEAD requests are redirected |
| `topology` | 1 other node, 3 clients at a time, 2 disturbances; 461,986 states | the settled view is exact, the view converges unless registration is refused for ever, Close ends |
| `registration_lost` | no disturbance | *violated*: `StaysRegistered` |

Further configurations, to be run by hand. Those that are violated have the
counterexamples to what the properties of the runs leave out:

| Configuration | Module | Shows |
| --- | --- | --- |
| `three_writers` | `MCWriteContainer` | the safety properties of `writers` with 3 workers; 138,474 states up to symmetry |
| `directory_mutexes` | `MCDirectoryCache` | `UndisturbedOperationsEnd`: every operation ends as long as nothing is pushed out under a create; the instance of `eviction_deadlock`, 264,022 states |
| `recoveries` | `MCDistribution` | `EveryRequestEndsUnlessPoolsWait` for 3 requests to 2 nodes of 1 worker; 123,941 states |
| `buried_file` | `MCWriteContainer` | *violated*: `AckedCanBeRead` |
| `two_entries` | `MCDirectoryCache` | *violated*: `NothingOverwritten` |
| `cold_read` | `MCReading` | *violated*: `EveryFileIsFound` |
| `pools_deadlock` | `MCDistribution` | *violated*: `EveryRequestEnds` |
| `moved_file` | `MCDistribution` | *violated*: `FilesAreWithTheirNode` |
| `unknown_responsible` | `MCDistribution` | *violated*: `ServersSurvive` |
| `registration_refused` | `MCTopology` | *violated*: `ViewConverges` |
| `closed_registered` | `MCTopology` | *violated*: `CloseUnregisters` |

Why the bounds are enough: in `writers` every container is full after one
record, so with three creates one worker fills a container, starts the third
create and closes the container under the other worker, at any of its steps.
`three_writers` has a third worker as well. The creates are numbered in the order
in which workers take them, which loses nothing, as each has a name of its own.
The directory starts with up to two tars that processes killed at their first
create have left without index (`LeftBehind`); the second is what a cold walk
takes next, so two creates are enough to bury a file there: one that fails and
one that is acknowledged behind it, as `buried_file` shows, and the third makes
or takes another container. With the tars left behind and one for each create,
five numbers are enough, and a create that lacked one would not end
(`EveryCreateEnds` would tell). Names are listed by number because container
names sort by number below ten. In `directory_cache` every lookup of the other directory evicts;
four operations are enough for two creates of a directory in two entries and the
lookup that comes between them, as `two_entries` shows, and three entries for
the two workers and the cache. In `reading` one file of the node is created in any
of two containers (or was created earlier), so a row is added under two readers
that measure and read the same index, and a copied index arrives row by row or
before its container. `server_pool` has more connections than workers and more
than one of each. In a chain of redirects each hop is larger than the one before
the last, so a chain can come back to a node, but not for ever; five nodes of one
shard are the fewest for that (1, 2, 4, 3, 5, 4), and no more than five are run or
proved to stay within the ten requests net/http's client sends. With ten nodes
whose tars are all missing a chain can be longer, and the client gives it up.
`distribution` spreads paths so that two nodes recover directories from each
other at the same time; with two workers per node its three requests cannot use
up both pools. `distribution_changing` and `recoveries` have one worker per node,
so that they do: `pools_deadlock` is the shortest such behaviour, and with the
ten workers of `server.go:89` it takes twenty recoveries at a time. In
`distribution_changing` a node that has lost the third one asks the first for a
directory and is sent on. `moved_file` needs two changes, apart and together
again. In `topology` a disturbance is a lost connection, a failed call,
or another node that joins or leaves; expiries of sessions and Close are not
counted. `Sessions` bounds the clients that matter at a time, not those that are
opened: with two disturbances a connection can always be made with three. One
lost connection already has a dropped client next to the one in use; after the
second the next client finds a znode that has been Set.

Deadlock is checked in the runs of `WriteContainer`, `ServerPool` and `Redirects`
and in `distribution`; the steps `Finished`, `Closed` and `Answered` say where
these may be at rest. It is not checked where everything may be done (`reading`
and the runs of `Topology`), nor where the code really stops: in `DirectoryCache`,
and in `Distribution` with pools of one worker. Symmetry (`Interchangeable`) is
used only in runs without liveness.

Fairness. `FairSpec` of each module is weak fairness of every goroutine's (or
request's) own steps: the Go scheduler runs whatever is runnable, mutexes are
handed over (starvation mode of `sync.Mutex`), and a channel's blocked senders are
served in order. In `Distribution` that is per request: a request that waits for
a worker is in line at the channel, and what is before it there has ended or
waits for ever itself. Requests need not arrive, the topology need not change,
nothing need fail, Close need not be called; once begun it goes through. In
`DirectoryCache` the workers' fairness is strong, because `updateCacheMutex` is
taken and let go by others again and again: a mutex of Go goes to each goroutine
that waits for it in the end. In `Topology` ZooKeeper must drop the sessions of
processes and clients that are gone (`ExpireDead`), but the session of a client
that was only dropped may live for ever (`Expire` is not fair). `Reading` claims
no liveness.

## Proofs

`WriteContainerProofs` proves for any workers, creates, sizes and listing orders
(assumptions: the named `ASSUME`s of `WriteContainer`) that the invariant `IInv`
holds, and from it `TypeOK`, `IndexedFilesAreWhole`, `AckedIsStored`,
`AppendOnly` and that `Spec` implements `FileStore`. `AckedCanBeRead` is not a
theorem: it is violated. The argument:

* `AppendOnly` and `IndexedFilesAreWhole` are not inductive. Writing at the end
  needs `Records` (an open tar is positioned at its size and no record lies
  beyond it) and `Locks` (one writer per container, whoever closes it), because
  `Close` takes no mutex: a container closed in the middle of a create makes the
  next system call fail, it does not move the position.
* A row is right because its worker's record was whole when it was written
  (`InProgress`), and stays so (`AppendOnly`).
* An acknowledgement is right because the row was there before (`RowsInProgress`,
  `AckInv`). This part assumes that rows can be written ("indexWrite" is not in
  `Faults`): `index.go:146` does not look at the csv writer's error, and with
  that fault `AckedIsStored` is false.
* The refinement maps `WriteRow` (or `WriteData`, in a container without an
  index whose scan comes to the record) to `Store`, `WriteData` behind a torn
  record to `Bury`, `SetSize` to `Ack`, the error paths to `Reject`, `Restart`
  and `Panic` to `Lose`, and everything else to stuttering; the lemmas before
  the theorem show each of them.

`ServerPoolProofs` proves for any handlers and workers that `PoolInv` holds, and
from it `TypeOK`, `ServedWhileWaiting` and `AnsweredBeforeReturn`. `MutexInv`
says where the request's mutex can be, `JobInv` that a worker past `LockJob` has
a handler in `Wait`; without them "served" says nothing about "waiting".

`RedirectsProofs` proves for any nodes, shards, placement and changes of the
topology `TypeOK`, `HopsGrow`, `CreatedFileIsFound` and `LastCopyIsFound`, and
`RedirectsEndInTime` when there are at most half as many nodes as the requests
the client sends (`2 * Cardinality(Node) <= MaxRequests`: net/http sends ten, so
five nodes). What the binary search says of a list that is not sorted is little
(`SearchStringsSays`): a node it does not take for traversed is greater than the
last of the list, and one greater than all of them passes. That is enough: the
last of the list is the node the client was sent on from, so the next name is
greater than the last but one, and the names grow at every second hop
(`HopsSorted`). A chain therefore visits a node at most once at an even and once
at an odd place, which bounds its length.

`DistributionProofs` proves `TypeOK` (pools are never overdrawn, every storage is
a tree) for any number of changes, and for a stable topology (`MaxChanges = 0`,
the configuration of the run `distribution`) `DirectoriesAreWithTheirNode`,
`OneMkdirWins` and `AcknowledgedIsFound`. They need each other: a recovered directory is right because the HEAD request that found it was
served where its path belongs (`Fits`), and what was acknowledged before a
request was sent is stored there and stays. Without the hypothesis they are
false, as nothing moves a file when the list of nodes changes.

`DirectoryCacheProofs` proves `TypeOK`, `OneWriter` and `AppendOnly` for any
workers, directories, containers and size of the cache, without any assumption
on what is pushed out. `CacheInv` says that a
directory has one entry in the cache, that a create's entry is that one unless
the directory has strayed, that a writer holds the mutex of its container, and
that what is open in the cache for such a directory is open at the end of its
tar. So two creates of it meet at one `writeMutex` and one descriptor, and
whoever opens the tar next, through a new entry, finds it as long as it is. The
theorems say nothing of a directory that has strayed: there `two_entries` shows
records written over.

`ReadingProofs` proves all that `reading` checks for any readers, containers and
files (finitely many of each but the readers, and no container is named `None`):
`TypeOK`, `NothingSkipped`, `WalkLoadsAll`, `WarmFilesAreFound` and `ListedOnce`. `NothingSkipped` needs to know what a reader carries
between its reads: the rows up to the size it has measured are entered before it
sets `lastSize` (`Entered` in `VisitInv`), and `lastSize` may go back to a size
measured earlier, but never beyond rows that are entered. The writer's container
has its index loaded, or is unknown to everyone until it has (`WriterInv`);
therefore the row that `wname` excuses is the only one missing. For
`WarmFilesAreFound` the invariant says of what is due and not yet found that a
container that is still before the reader has it (`Warm`), and in the entries
already when the reader is past reading rows. Every step only adds to what
readers share: tars, indexes, rows, entries and the cache grow (`Grow`), so a
reader that does not move keeps its invariant, and each step is looked at for its
own reader only. `ListedOnce` follows because a file of the node is in one
container, which leaves the keys when it is visited; a container that is loaded
during the walk was not in the cache before, so it was not visited either.

`TopologyProofs` proves `TypeOK` and `SettledViewIsExact` for any nodes, clients
and disturbances. Several watchers share the map without a lock,
so the invariant speaks of all of them: a watcher that updates the view has the
client for as long, its list is what the children are while its channel is armed,
and the channel is lost only with the connection (`ChannelInv`); when none has to
list again (`Calm`) every name the map lacks or has too much is still before a
watcher that is in `delete` or `add` (`ViewInv`). A client that was dropped can
lose its session at any time without anyone's view being concerned. When all
watchers wait nothing is left, and the view is exact.

Recursion. The provers cannot do induction over an operator, but the statements
here need induction over numbers only; `LeastNatural` (the least element of a
set of numbers, from the well-ordering of `Nat`) replaces it. So `SearchStrings`
is a recursive function, and `Ancestors` the least set that is closed under
`Parent`.

Only model-checked: liveness (TLAPS cannot prove it under fairness),
`NewOnlyWhenFull` (it needs container names that are listed by number), and the
violated properties.

## Findings

The runs `nil_container`, `copy_not_tried`, `eviction_deadlock` and
`registration_lost`, and the configurations above that are violated, each
contradict something the repository says; PROJECT.json quotes it for the runs.
The tests that expect otherwise send requests one at a time, or use one
directory, or close nothing early, and so cannot meet the case.

* `storage.go:135` (`nil_container`): a worker can find no write container after
  `ensureCacheEntryWriteContainer`, dereferences nil, and the process ends.
* `container.go:281` (`buried_file`): a file that was acknowledged cannot be read,
  as it lies behind a torn record in a container that lost its index to a kill.
* `storage.go:386` (`cold_read`): the first lookup in a directory that is not in
  the cache sees one container only, and misses the files of the others.
* `storage.go:197` (`two_entries`): two entries of one directory write over each
  other's records.
* `storage.go:58` (`eviction_deadlock`): `OnEvicted` and a create wait for each
  other for ever.
* `server.go:253` (`unknown_responsible`): a node that is itself responsible for
  a missing directory dereferences nil in a log message.
* `server.go:264` (`pools_deadlock`): the workers of two nodes wait for each
  other for ever.
* `server.go:183` (`moved_file`): nothing moves a file when the list of nodes
  changes, so it is not certainly on the node that is responsible for it.
* `server.go:297` (`copy_not_tried`): a node that was not asked is taken for one
  that was.
* `topology-client.go:184` (`registration_lost`, `registration_refused`): a node
  that restarts within its session's timeout disappears when the old session
  expires; a node that is disconnected twice while its first client lives on can
  never register again.
* `topology-client.go:283` (`closed_registered`): a node that is closed before it
  is connected registers all the same, and stays.

Observed with other values of the constants, and described with the hazards in
PROJECT.json:

* After a restart the container that is reused may be a full one
  (`storage.go:243`); `NewOnlyWhenFull` is what remains true.
* A size that is set after another worker closed the container is 0
  (`container.go:263`), and the container is then filled beyond its maximum.
* A session lost in the middle of `updateNodes` leaves an entry without data
  (`topology-client.go:258`), also after the next client has listed the node.

## Not modelled, and what could follow

1. A theorem for `NewOnlyWhenFull`.
2. Composition of `Topology` with `Redirects`, where list and dispatcher change
   in one step.
3. The bodies of requests and answers (`server.go:158`, `client.go:101`): one
   `Read` may return less than the length.

Left out for good: the conversions between headers, rows and file infos; the
library code (tar and csv encoding, Maglev, LRU,
ZooKeeper), modelled only by how this code uses it; logging, configuration
parsing, the wiring in `main`; a loss of the page cache (`index.go:149` syncs the
index but not the tar); data races on Go maps, which may end the process; names
that are created twice; the fuse server and the replication manager, for which
the repository has no code.
