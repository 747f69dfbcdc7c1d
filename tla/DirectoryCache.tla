----------------------------- MODULE DirectoryCache -----------------------------
(***************************************************************************)
(* The storage's cache of directories.  An entry knows containers of its   *)
(* directory and the one that is open for writing; a new entry may push    *)
(* the oldest out of the cache, whose write container is then closed, and  *)
(* ResetCache pushes out all.  Three mutexes are involved: that of the     *)
(* cache, held around the eviction, and two of each entry, which the       *)
(* eviction takes in one order and a create in the other.  A worker that   *)
(* still has an entry when it leaves the cache goes on with it: from then  *)
(* on its directory has strayed.  How a container is filled is in          *)
(* WriteContainer: here it may be full or not whenever it is asked, and a  *)
(* record, which stands for its row too, is written in one step.           *)
(***************************************************************************)
EXTENDS Naturals, SequencesExt

CONSTANTS
    Worker,     \* workers that create files and read
    Closer,     \* the goroutine that calls ResetCache
    Directory,
    Container,  \* container names, the same in every directory
    Entry,      \* identities of entries, used again when nothing has them
    None,
    Capacity,   \* DIRECTORY_CACHE_SIZE
    MaxOperations  \* bound on the creates and reads

\* A DirectoryCacheEntry without its mutexes.
CacheEntry == [directory : Directory, loaded : SUBSET Container,
               writing : Container \cup {None}]

ASSUME CacheAssumption ==
    /\ Closer \notin Worker /\ None \notin Worker \cup {Closer} \cup Entry
    /\ None \notin Directory \cup Container /\ None \notin {"create", "read"}
    /\ None \notin Nat /\ None \notin Seq(Worker) /\ None \notin CacheEntry
    /\ Capacity \in Nat \ {0} /\ MaxOperations \in Nat

VARIABLES
    lru,        \* the cache, most recent entry first
    entries,    \* the entries, None where nothing has one
    updateCache, containersUpdate, writeContainerUpdate,  \* holders of mutexes
    write,      \* holders of the writeMutex of each entry's containers
    fd,         \* is a container's tar open? then the offset, else None
    tar,        \* records of each directory's containers, None before they exist
    pc, wants, dir, entry,  \* where a worker is, what it does, where, with which entry
    cont,       \* the container it writes
    victim,     \* the entry it (or the closer) pushes out
    clearing,   \* entries ResetCache has still to push out
    operations, \* number of creates and reads so far
    strayed     \* history: directories an entry of which left the cache while
                \* a create had it

mutexes == <<updateCache, containersUpdate, writeContainerUpdate, write>>
workerVars == <<pc, wants, dir, entry, cont, victim>>
vars == <<lru, mutexes, entries, fd, tar, workerVars, clearing, operations, strayed>>

Process == Worker \cup {Closer}

Init ==
    /\ lru = <<>>
    /\ entries = [e \in Entry |-> None]
    /\ updateCache = None
    /\ containersUpdate = [e \in Entry |-> None]
    /\ writeContainerUpdate = [e \in Entry |-> None]
    /\ write = [e \in Entry |-> [c \in Container |-> None]]
    /\ fd = [e \in Entry |-> [c \in Container |-> None]]
    /\ tar = [d \in Directory |-> [c \in Container |-> None]]
    /\ pc = [p \in Process |-> "idle"] /\ wants = [w \in Worker |-> None]
    /\ dir = [w \in Worker |-> None] /\ entry = [w \in Worker |-> None]
    /\ cont = [w \in Worker |-> None]
    /\ victim = [p \in Process |-> None]
    /\ clearing = {} /\ operations = 0 /\ strayed = {}

Creating(e) == \E w \in Worker : entry[w] = e /\ wants[w] = "create"
Cached(d) == {e \in ToSet(lru) : entries[e].directory = d}

\* The directories that stray when the entries of E leave the cache.
Straying(E) == {entries[e].directory : e \in {x \in E : Creating(x)}}

\* Somebody still has the entry.
Held(e) ==
    \/ e \in ToSet(lru)
    \/ \E p \in Process : victim[p] = e
    \/ \E w \in Worker : entry[w] = e

\* An entry that nothing has after the step is garbage, and what it has open
\* is closed by the finalizer of its files.
Collect(es, fds) ==
    /\ entries' = [e \in Entry |-> IF Held(e)' THEN es[e] ELSE None]
    /\ fd' = [e \in Entry |-> IF Held(e)' THEN fds[e] ELSE [c \in Container |-> None]]

Goto(w, next) == pc' = [pc EXCEPT ![w] = next]
Finish(w) ==
    /\ Goto(w, "idle")
    /\ wants' = [wants EXCEPT ![w] = None] /\ dir' = [dir EXCEPT ![w] = None]
    /\ entry' = [entry EXCEPT ![w] = None] /\ cont' = [cont EXCEPT ![w] = None]
FirstStep(w) == IF wants[w] = "create" THEN "ensure" ELSE "walk"
Unused == {e \in Entry : entries[e] = None}

-----------------------------------------------------------------------------
(* getDirectoryCacheEntry, under updateCacheMutex.                          *)

Start(w, d, what) ==
    /\ pc[w] = "idle"
    /\ operations < MaxOperations
    /\ operations' = operations + 1
    /\ Goto(w, "get")
    /\ wants' = [wants EXCEPT ![w] = what] /\ dir' = [dir EXCEPT ![w] = d]
    /\ UNCHANGED <<lru, mutexes, entries, fd, tar, entry, cont, victim, clearing,
                   strayed>>

\* The entry is in the cache, and becomes the most recent.
Hit(w) ==
    /\ pc[w] = "get" /\ updateCache = None
    /\ \E i \in DOMAIN lru :
          /\ entries[lru[i]].directory = dir[w]
          /\ lru' = <<lru[i]>> \o RemoveAt(lru, i)
          /\ entry' = [entry EXCEPT ![w] = lru[i]]
    /\ Goto(w, FirstStep(w))
    /\ UNCHANGED <<mutexes, entries, fd, tar, wants, dir, cont, victim, clearing,
                   operations, strayed>>

\* A new entry for the directory of worker w.
NewEntry(w, e) ==
    /\ entries' = [entries EXCEPT ![e] =
          [directory |-> dir[w], loaded |-> {}, writing |-> None]]
    /\ entry' = [entry EXCEPT ![w] = e]

\* Mutants of Miss: the cache grows without bound; an entry that is there is
\* replaced.
MissWithoutLimit(w) ==
    /\ pc[w] = "get" /\ updateCache = None /\ Cached(dir[w]) = {}
    /\ Unused # {}
    /\ LET e == CHOOSE e \in Unused : TRUE IN NewEntry(w, e) /\ lru' = <<e>> \o lru
    /\ Goto(w, FirstStep(w))
    /\ UNCHANGED <<mutexes, fd, tar, wants, dir, cont, victim, clearing, operations,
                   strayed>>
MissReplacing(w) ==
    /\ pc[w] = "get" /\ updateCache = None
    /\ Unused # {}
    /\ LET e == CHOOSE e \in Unused : TRUE IN NewEntry(w, e) /\ lru' = <<e>>
    /\ Goto(w, FirstStep(w))
    /\ UNCHANGED <<mutexes, fd, tar, wants, dir, cont, victim, clearing, operations,
                   strayed>>

\* It is not: a new one is put in, and the oldest leaves a full cache.
Miss(w) ==
    /\ pc[w] = "get" /\ updateCache = None /\ Cached(dir[w]) = {}
    /\ Unused # {}
    /\ LET e == CHOOSE e \in Unused : TRUE IN
          /\ NewEntry(w, e)
          /\ \/ /\ Len(lru) < Capacity
                /\ lru' = <<e>> \o lru
                /\ Goto(w, FirstStep(w))
                /\ UNCHANGED <<updateCache, victim, strayed>>
             \/ /\ Len(lru) >= Capacity
                /\ lru' = <<e>> \o Front(lru)
                /\ victim' = [victim EXCEPT ![w] = Last(lru)]
                /\ strayed' = strayed \cup Straying({Last(lru)})
                /\ updateCache' = w
                /\ Goto(w, "evict")
    /\ UNCHANGED <<containersUpdate, writeContainerUpdate, write, fd, tar, wants, dir,
                   cont, clearing, operations>>

\* OnEvicted: the containers of the victim first ...
Evict(p) ==
    /\ pc[p] = "evict" /\ containersUpdate[victim[p]] = None
    /\ containersUpdate' = [containersUpdate EXCEPT ![victim[p]] = p]
    /\ pc' = [pc EXCEPT ![p] = "close"]
    /\ UNCHANGED <<lru, updateCache, writeContainerUpdate, write, entries, fd, tar,
                   wants, dir, entry, cont, victim, clearing, operations, strayed>>

\* The descriptors once the write container of entry e is closed: no other
\* container of the entry is.
Closed(e) ==
    IF entries[e].writing = None THEN fd
    ELSE [fd EXCEPT ![e][entries[e].writing] = None]

\* ... then its write container, which is closed.
EvictClose(w) ==
    /\ pc[w] = "close" /\ writeContainerUpdate[victim[w]] = None
    /\ containersUpdate' = [containersUpdate EXCEPT ![victim[w]] = None]
    /\ updateCache' = None
    /\ victim' = [victim EXCEPT ![w] = None]
    /\ Goto(w, FirstStep(w))
    /\ UNCHANGED <<lru, writeContainerUpdate, write, tar, wants, dir, entry, cont,
                   clearing, operations, strayed>>
    /\ Collect(entries, Closed(victim[w]))

-----------------------------------------------------------------------------
(* ResetCache: every entry in turn, without updateCacheMutex and whoever has *)
(* one; an entry that is pushed out meanwhile is not met.                    *)

ResetCache ==
    /\ pc[Closer] = "idle" /\ lru # <<>>
    /\ clearing' = ToSet(lru)
    /\ pc' = [pc EXCEPT ![Closer] = "clear"]
    /\ UNCHANGED <<lru, mutexes, entries, fd, tar, wants, dir, entry, cont, victim,
                   strayed, operations>>

ClearNext(e) ==
    /\ pc[Closer] = "clear" /\ e \in clearing \cap ToSet(lru)
    /\ victim' = [victim EXCEPT ![Closer] = e]
    /\ clearing' = clearing \ {e}
    /\ pc' = [pc EXCEPT ![Closer] = "evict"]
    /\ UNCHANGED <<lru, mutexes, entries, fd, tar, wants, dir, entry, cont, strayed,
                   operations>>

ClearClose ==
    /\ pc[Closer] = "close" /\ writeContainerUpdate[victim[Closer]] = None
    /\ containersUpdate' = [containersUpdate EXCEPT ![victim[Closer]] = None]
    /\ victim' = [victim EXCEPT ![Closer] = None]
    /\ pc' = [pc EXCEPT ![Closer] = "clear"]
    /\ UNCHANGED <<lru, updateCache, writeContainerUpdate, write, tar, wants, dir, entry,
                   cont, clearing, operations, strayed>>
    /\ Collect(entries, Closed(victim[Closer]))

\* Only now do the entries leave the cache.
Cleared ==
    /\ pc[Closer] = "clear" /\ clearing \cap ToSet(lru) = {}
    /\ clearing' = {}
    /\ lru' = <<>>
    /\ strayed' = strayed \cup Straying(ToSet(lru))
    /\ pc' = [pc EXCEPT ![Closer] = "idle"]
    /\ UNCHANGED <<mutexes, tar, wants, dir, entry, cont, victim, operations>>
    /\ Collect(entries, fd)

-----------------------------------------------------------------------------
(* ensureCacheEntryWriteContainer, and the walk of a read.                  *)

\* The entry has a write container that is not full: the mutex is let go again.
Ensured(w) ==
    /\ pc[w] = "ensure" /\ writeContainerUpdate[entry[w]] = None
    /\ entries[entry[w]].writing # None
    /\ Goto(w, "use")
    /\ UNCHANGED <<lru, mutexes, entries, fd, tar, wants, dir, entry, cont, victim,
                   clearing, operations, strayed>>

\* It has none, or a full one, which is closed: the mutex is kept for a search.
Search(w) ==
    /\ pc[w] = "ensure" /\ writeContainerUpdate[entry[w]] = None
    /\ writeContainerUpdate' = [writeContainerUpdate EXCEPT ![entry[w]] = w]
    /\ fd' = Closed(entry[w])
    /\ entries' = [entries EXCEPT ![entry[w]].writing = None]
    /\ Goto(w, "walk")
    /\ UNCHANGED <<lru, updateCache, containersUpdate, write, tar, wants, dir, entry,
                   cont, victim, clearing, operations, strayed>>

\* The walker loads the containers that have been made; a read ends here.
Walk(w) ==
    /\ pc[w] = "walk" /\ containersUpdate[entry[w]] = None
    /\ \/ wants[w] = "create" /\ Goto(w, "choose") /\ UNCHANGED <<wants, dir, entry,
                                                                  cont>>
       \/ wants[w] = "read" /\ Finish(w)
    /\ UNCHANGED <<lru, mutexes, tar, victim, clearing, operations, strayed>>
    /\ Collect([entries EXCEPT ![entry[w]].loaded =
                   @ \cup {c \in Container : tar[dir[w]][c] # None}], fd)

\* A read that finds its file in a container of the entry looks no further.
FoundAtOnce(w) ==
    /\ pc[w] = "walk" /\ wants[w] = "read" /\ entries[entry[w]].loaded # {}
    /\ Finish(w)
    /\ UNCHANGED <<lru, mutexes, tar, victim, clearing, operations, strayed>>
    /\ Collect(entries, fd)

\* The write container is set and the mutex let go.
Chosen(w, c) ==
    /\ entries' = [entries EXCEPT ![entry[w]].loaded = @ \cup {c}, ![entry[w]].writing = c]
    /\ writeContainerUpdate' = [writeContainerUpdate EXCEPT ![entry[w]] = None]
    /\ Goto(w, "use")

\* A container that the walk came across is writeable ...
Choose(w) ==
    /\ pc[w] = "choose"
    /\ \E c \in entries[entry[w]].loaded : Chosen(w, c)
    /\ UNCHANGED <<lru, updateCache, containersUpdate, write, fd, tar,
                   wants, dir, entry, cont, victim, clearing, operations, strayed>>

\* ... or one is made, or found if another entry has made it meanwhile.
Make(w) ==
    /\ pc[w] = "choose" /\ containersUpdate[entry[w]] = None
    /\ \E c \in Container \ entries[entry[w]].loaded :
          /\ tar' = [tar EXCEPT ![dir[w]][c] = IF @ = None THEN <<>> ELSE @]
          /\ Chosen(w, c)
    /\ UNCHANGED <<lru, updateCache, containersUpdate, write, fd,
                   wants, dir, entry, cont, victim, clearing, operations, strayed>>

-----------------------------------------------------------------------------
(* CreateRegularFile of the storage and of the container.                   *)

\* The write container is read without a mutex.  Where another worker has just
\* closed it the process ends (see WriteContainer), and with it all steps.
Use(w) ==
    /\ pc[w] = "use" /\ entries[entry[w]].writing # None
    /\ cont' = [cont EXCEPT ![w] = entries[entry[w]].writing]
    /\ Goto(w, "lock")
    /\ UNCHANGED <<lru, mutexes, entries, fd, tar, wants, dir, entry, victim, clearing,
                   operations, strayed>>

\* Mutant of LockAndOpen: the tar is opened at its start.
OpenAtStart(w) ==
    /\ pc[w] = "lock" /\ write[entry[w]][cont[w]] = None
    /\ write' = [write EXCEPT ![entry[w]][cont[w]] = w]
    /\ fd' = [fd EXCEPT ![entry[w]][cont[w]] = IF @ = None THEN 0 ELSE @]
    /\ Goto(w, "record")
    /\ UNCHANGED <<lru, updateCache, containersUpdate, writeContainerUpdate, entries, tar,
                   wants, dir, entry, cont, victim, clearing, operations, strayed>>

\* The tar is opened at its end unless it is open.
LockAndOpen(w) ==
    /\ pc[w] = "lock" /\ write[entry[w]][cont[w]] = None
    /\ write' = [write EXCEPT ![entry[w]][cont[w]] = w]
    /\ fd' = [fd EXCEPT ![entry[w]][cont[w]] =
                 IF @ = None THEN Len(tar[dir[w]][cont[w]]) ELSE @]
    /\ Goto(w, "record")
    /\ UNCHANGED <<lru, updateCache, containersUpdate, writeContainerUpdate, entries, tar,
                   wants, dir, entry, cont, victim, clearing, operations, strayed>>

\* What tar t becomes when worker w writes at offset i.
Written(t, i, w) == IF i < Len(t) THEN [t EXCEPT ![i + 1] = w] ELSE Append(t, w)

\* The record is written where the descriptor is, which moves on; a
\* descriptor that was closed meanwhile is an error.
WriteRecord(w) ==
    /\ pc[w] = "record"
    /\ LET e == entry[w]  c == cont[w]  i == fd[e][c] IN
       /\ tar' = IF i = None THEN tar ELSE [tar EXCEPT ![dir[w]][c] = Written(@, i, w)]
       /\ write' = [write EXCEPT ![e][c] = None]
       /\ Finish(w)
       /\ UNCHANGED <<lru, updateCache, containersUpdate, writeContainerUpdate, victim,
                      clearing, operations, strayed>>
       /\ Collect(entries, IF i = None THEN fd ELSE [fd EXCEPT ![e][c] = i + 1])

-----------------------------------------------------------------------------
WorkerStep(w) ==
    \/ Hit(w) \/ Miss(w) \/ Evict(w) \/ EvictClose(w)
    \/ Ensured(w) \/ Search(w) \/ Walk(w) \/ FoundAtOnce(w) \/ Choose(w) \/ Make(w)
    \/ Use(w) \/ LockAndOpen(w) \/ WriteRecord(w)

CloserStep == (\E e \in Entry : ClearNext(e)) \/ Evict(Closer) \/ ClearClose \/ Cleared

Next ==
    \/ \E w \in Worker :
          \/ WorkerStep(w)
          \/ \E d \in Directory, what \in {"create", "read"} : Start(w, d, what)
    \/ ResetCache \/ CloserStep

Spec == Init /\ [][Next]_vars

\* A mutex of Go goes to each goroutine that waits for it in the end.
FairSpec ==
    /\ Spec
    /\ \A w \in Worker : SF_vars(WorkerStep(w))
    /\ WF_vars(CloserStep)

-----------------------------------------------------------------------------
(* Properties.                                                              *)

\* The cache is never larger than it may be, and what is open is open within
\* a tar that exists.
TypeOK ==
    /\ lru \in Seq(Entry) /\ Len(lru) <= Capacity
    /\ entries \in [Entry -> CacheEntry \cup {None}]
    /\ updateCache \in Worker \cup {None}
    /\ containersUpdate \in [Entry -> Process \cup {None}]
    /\ writeContainerUpdate \in [Entry -> Worker \cup {None}]
    /\ write \in [Entry -> [Container -> Worker \cup {None}]]
    /\ fd \in [Entry -> [Container -> Nat \cup {None}]]
    /\ tar \in [Directory -> [Container -> Seq(Worker) \cup {None}]]
    /\ \A e \in Entry, c \in Container : fd[e][c] # None =>
          /\ entries[e] # None /\ tar[entries[e].directory][c] # None
          /\ fd[e][c] <= Len(tar[entries[e].directory][c])
    /\ pc \in [Process -> {"idle", "get", "evict", "close", "clear", "ensure", "walk",
                            "choose", "use", "lock", "record"}]
    /\ wants \in [Worker -> {"create", "read", None}]
    /\ dir \in [Worker -> Directory \cup {None}]
    /\ entry \in [Worker -> Entry \cup {None}]
    /\ cont \in [Worker -> Container \cup {None}]
    /\ victim \in [Process -> Entry \cup {None}]
    /\ clearing \subseteq Entry /\ operations \in Nat /\ strayed \subseteq Directory

\* A tar is written by one worker at a time, whatever entries its directory has
\* had, as long as none left the cache that a create had: the mutex is the
\* entry's, not the directory's (getDirectoryCacheEntry, OnEvicted).
OneWriter ==
    \A v, w \in Worker :
        /\ v # w /\ pc[v] = "record" /\ pc[w] = "record"
        /\ dir[v] = dir[w] /\ cont[v] = cont[w]
        => dir[w] \in strayed

\* As long as that has not happened no record is written over, though each
\* entry has a descriptor with an offset of its own (CreateRegularFile).
AppendOnly == [][\A d \in Directory \ strayed, c \in Container :
                    tar[d][c] # None => IsPrefix(tar[d][c], tar'[d][c])]_vars

\* What a client that creates a file and reads it expects of every directory.
NothingOverwritten == [][\A d \in Directory, c \in Container :
                    tar[d][c] # None => IsPrefix(tar[d][c], tar'[d][c])]_vars

\* Every create and every read ends: the mutexes, which are taken in different
\* orders, do not wait for each other (OnEvicted, ensureCacheEntryWriteContainer).
EveryOperationEnds == \A w \in Worker : pc[w] # "idle" ~> pc[w] = "idle"

\* That holds while OnEvicted is not called for an entry that a create has.
NoneDisturbed == \A p \in Process : victim[p] # None => ~Creating(victim[p])
UndisturbedOperationsEnd == []NoneDisturbed => EveryOperationEnds

=============================================================================
