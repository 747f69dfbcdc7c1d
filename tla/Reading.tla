--------------------------------- MODULE Reading ---------------------------------
(***************************************************************************)
(* Reading one directory of a node: lookups of a name and listings, while  *)
(* a worker creates files and replication brings in the containers of      *)
(* another node.  A read visits the containers that are in the cache in    *)
(* any order, then lists the directory and loads what is new; of what it   *)
(* loads it visits the first only.  Every cached index has its entries and *)
(* lastSize, up to where it has read its file; readers and the writer      *)
(* share both without a lock.  Rows are appended whole.  A container       *)
(* without an index is scanned, up to the first record that is torn.       *)
(***************************************************************************)
EXTENDS Naturals, FiniteSets, SequencesExt

CONSTANTS
    Own,            \* numbers of this node's containers
    Foreign,        \* containers of another node, after Own in the directory
    Name,           \* files of this node, each created once
    Copied,         \* files of the other node
    Dir,            \* the directory itself, as what a listing asks for
    None,
    Reader,         \* workers, each of which serves one read
    Wants,          \* what each reader may be asked for: files, or Dir
    MaxRecords      \* a container is full with so many records

ASSUME ReadingAssumption ==
    /\ Own \subseteq Nat /\ Foreign \subseteq Nat
    /\ IsFiniteSet(Own) /\ IsFiniteSet(Foreign) /\ IsFiniteSet(Name)
    /\ \A o \in Own, c \in Foreign : o < c
    /\ Name \cap Copied = {}
    /\ {Dir, None} \cap (Name \cup Copied) = {} /\ Dir # None /\ None \notin Own
    /\ Wants \in [Reader -> SUBSET (Name \cup Copied \cup {Dir})]
    /\ MaxRecords \in Nat \ {0}

VARIABLES
    tars, indexes,          \* the files of the directory
    records, rows,          \* the records of each tar, the rows of each index
    behind,                 \* files that come after a torn record in their tar
    cached,                 \* for each container: not cached, or by tar or by index
    entries, lastSize,      \* of each cached index
    wpc, wname, wcont,      \* the worker that creates files
    read                    \* what each reader does, see IdleReader

diskVars == <<tars, indexes, records, rows, behind>>
cacheVars == <<cached, entries, lastSize>>
writerVars == <<wpc, wname, wcont>>
vars == <<diskVars, cacheVars, writerVars, read>>

Container == Own \cup Foreign
File == Name \cup Copied
Indexed(c) == ToSet(rows[c])
Here == <<tars, indexes>>

\* The files a scan of the tar yields.
Scan(c) == records[c] \ behind

\* What a storage that knows nothing yet finds in container c.
Readable(c) == IF c \in indexes THEN Indexed(c) ELSE IF c \in tars THEN Scan(c) ELSE {}

\* keys: containers still to visit; cont: the one being visited; size: what
\* Stat said of its index; snap: the directory as listed; files: what has been
\* found, which a listing answers; history: what was in a cached index when the
\* request came (due), and was the file in the directory at all (there)?
IdleReader ==
    [pc |-> "idle", want |-> None, keys |-> {}, cont |-> 0, size |-> 0,
     loaded |-> FALSE, snap |-> <<{}, {}>>, files |-> [f \in File |-> 0], answer |-> None,
     due |-> {}, there |-> FALSE]

\* The process starts in a directory that an earlier one has left: tars, some
\* of them without an index, and files, some of which it wrote behind a record
\* that was torn when it was killed.  The cache is empty.  The tar of a copied
\* container is there already, whole, or never comes.
Init ==
    /\ \E c \in Own, others \in SUBSET Foreign : tars = {d \in Own : d < c} \cup others
    /\ indexes \in SUBSET (tars \cap Own)
    /\ \E place \in [Name -> (tars \cap Own) \cup {None}] :
          /\ records = [c \in Container |-> IF c \in Own THEN {f \in Name : place[f] = c}
                                           ELSE IF c \in tars THEN Copied ELSE {}]
          /\ rows = [c \in Container |-> IF c \in indexes THEN SetToSeq(records[c]) ELSE <<>>]
    /\ behind \in SUBSET UNION {records[c] : c \in tars \ (indexes \cup Foreign)}
    /\ \A c \in Own : Cardinality(records[c]) <= MaxRecords
    /\ cached = [c \in Container |-> "no"]
    /\ entries = [c \in Container |-> {}] /\ lastSize = [c \in Container |-> 0]
    /\ wpc = "idle" /\ wname = None /\ wcont = 0
    /\ read = [r \in Reader |-> IdleReader]

-----------------------------------------------------------------------------
(* Loading.                                                                 *)

\* Containers of a listing that the cache lacks: by their tar, or by an index
\* that no cached container has.
NewTars(snap) == {c \in snap[1] : cached[c] = "no"}
NewIndexes(snap) == {c \in snap[2] \ NewTars(snap) : cached[c] # "index"}
NewOnes(snap) == NewTars(snap) \cup NewIndexes(snap)

\* A new container finds its index, if there is one, and reads all of it.
LoadContainers(new) ==
    /\ cached' = [c \in Container |-> IF c \in new
                    THEN IF c \in indexes THEN "index" ELSE "tar" ELSE cached[c]]
    /\ entries' = [c \in Container |-> IF c \in new THEN Indexed(c) ELSE entries[c]]
    /\ lastSize' = [c \in Container |-> IF c \in new THEN Len(rows[c]) ELSE lastSize[c]]

First(S) == CHOOSE c \in S : \A d \in S : c <= d
FirstOf(S) == IF S = {} THEN {} ELSE {First(S)}

\* Mutant: the first container listed, new or not.
FirstListed(snap) == IF snap[1] # {} THEN {First(snap[1])} ELSE FirstOf(snap[2])

\* The first new container in the order of the directory, tars before indexes.
FirstNew(snap) ==
    IF NewTars(snap) # {} THEN {First(NewTars(snap))} ELSE FirstOf(NewIndexes(snap))

-----------------------------------------------------------------------------
(* The worker that creates files.                                           *)

Created(f) == wname = f \/ \E c \in Container : f \in records[c]

\* A container with an index and with room, after a walk that loads all.
Open(f) ==
    /\ wpc = "idle" /\ ~Created(f)
    /\ LoadContainers(NewOnes(Here))
    /\ \E c \in Own :
          /\ cached'[c] = "index" /\ c \in tars
          /\ Cardinality(records[c]) < MaxRecords
          /\ wcont' = c
    /\ wname' = f /\ wpc' = "record"
    /\ UNCHANGED <<diskVars, read>>

\* Or the next number, whose tar is made first; containersUpdateMutex is held.
OpenNew(f) ==
    /\ wpc = "idle" /\ ~Created(f)
    /\ LoadContainers(NewOnes(Here))
    /\ \A c \in Own \cap tars :
          cached'[c] = "index" => Cardinality(records[c]) >= MaxRecords
    /\ Own \ tars # {}
    /\ wcont' = First(Own \ tars)
    /\ tars' = tars \cup {wcont'}
    /\ wname' = f /\ wpc' = "make"
    /\ UNCHANGED <<indexes, records, rows, behind, read>>

MakeIndex ==
    /\ wpc = "make"
    /\ indexes' = indexes \cup {wcont}
    /\ cached' = [cached EXCEPT ![wcont] = "index"]
    /\ wpc' = "record"
    /\ UNCHANGED <<tars, records, rows, behind, entries, lastSize, wname, wcont, read>>

\* The record, then its row; WriteContainer has the steps in between.
Write ==
    /\ wpc = "record"
    /\ records' = [records EXCEPT ![wcont] = @ \cup {wname}]
    /\ rows' = [rows EXCEPT ![wcont] = Append(@, wname)]
    /\ wpc' = "size"
    /\ UNCHANGED <<tars, indexes, behind, cacheVars, wname, wcont, read>>

\* Mutant: one too far.
WriterSetsSizeAhead ==
    /\ wpc = "size"
    /\ lastSize' = [lastSize EXCEPT ![wcont] = Len(rows[wcont]) + 1]
    /\ wpc' = "entry"
    /\ UNCHANGED <<diskVars, cached, entries, wname, wcont, read>>

WriterSetsSize ==
    /\ wpc = "size"
    /\ lastSize' = [lastSize EXCEPT ![wcont] = Len(rows[wcont])]
    /\ wpc' = "entry"
    /\ UNCHANGED <<diskVars, cached, entries, wname, wcont, read>>

\* The entry is set; the create is acknowledged.
WriterSetsEntry ==
    /\ wpc = "entry"
    /\ entries' = [entries EXCEPT ![wcont] = @ \cup {wname}]
    /\ wpc' = "idle" /\ wname' = None /\ wcont' = 0
    /\ UNCHANGED <<diskVars, cached, lastSize, read>>

-----------------------------------------------------------------------------
(* Replication of indexes.                                                    *)

CopyIndex(c) ==
    /\ c \in Foreign \ indexes
    /\ indexes' = indexes \cup {c}
    /\ UNCHANGED <<tars, records, rows, behind, cacheVars, writerVars, read>>

CopyRow(c, f) ==
    /\ c \in Foreign \cap indexes
    /\ f \notin UNION {Indexed(d) : d \in Foreign}
    /\ rows' = [rows EXCEPT ![c] = Append(@, f)]
    /\ UNCHANGED <<tars, indexes, records, behind, cacheVars, writerVars, read>>

-----------------------------------------------------------------------------
(* GetRegularFile and ReadDir of a reader r.                                *)

\* Of the request only what it should find is kept.
Answer(rec, a) ==
    [IdleReader EXCEPT !.pc = "done", !.want = rec.want, !.answer = a,
                       !.due = rec.due, !.there = rec.there]

At(r, pc) == read[r].pc = pc
diskUnchanged == UNCHANGED <<diskVars, writerVars>>

\* The walker notes the cached containers.  Everything their indexes hold is
\* due, but for the file that is being created.
Start(r, w) ==
    /\ At(r, "idle")
    /\ LET known == {c \in Container : cached[c] # "no"} IN
       read' = [read EXCEPT ![r] = [IdleReader EXCEPT !.pc = "walk", !.want = w, !.keys = known,
            !.due = {f \in (IF w = Dir THEN File ELSE {w}) \ {wname} :
                        \E c \in known : cached[c] = "index" /\ f \in Indexed(c)},
            !.there = w # wname /\ \E c \in Container : w \in Readable(c)]]
    /\ UNCHANGED cacheVars /\ diskUnchanged

\* What the visited container offers: a listing takes it all; a lookup ends
\* with its file, or goes on.
Found(r, c, files) ==
    LET want == read[r].want
        rest == [read[r] EXCEPT !.pc = "walk", !.keys = @ \ {c}, !.cont = 0, !.size = 0]
    IN  read' = [read EXCEPT ![r] =
            IF want = Dir
            THEN [rest EXCEPT !.files = [f \in File |-> @[f] + IF f \in files THEN 1 ELSE 0]]
            ELSE IF want \in files
            THEN Answer(rest, "found")
            ELSE rest]

Grown(c) == Len(rows[c]) > lastSize[c]

\* Mutant: what the entries lack is not looked for in the file.
VisitEntriesOnly(r, c) ==
    /\ At(r, "walk") /\ c \in read[r].keys
    /\ Found(r, c, IF cached[c] = "tar" THEN Scan(c) ELSE entries[c])
    /\ UNCHANGED cacheVars /\ diskUnchanged

\* The container's file is at hand: in the tar, which is scanned, in the
\* entries, or the index has not grown.
Visit(r, c) ==
    /\ At(r, "walk") /\ c \in read[r].keys
    /\ \/ cached[c] = "tar" /\ Found(r, c, Scan(c))
       \/ /\ cached[c] = "index" /\ (read[r].want \in entries[c] \/ ~Grown(c))
          /\ Found(r, c, entries[c])
    /\ UNCHANGED cacheVars /\ diskUnchanged

\* updateEntries: Stat says that the index has grown.
Stat(r, c) ==
    /\ At(r, "walk") /\ c \in read[r].keys
    /\ cached[c] = "index" /\ read[r].want \notin entries[c] /\ Grown(c)
    /\ read' = [read EXCEPT ![r].pc = "rows", ![r].cont = c, ![r].size = Len(rows[c])]
    /\ UNCHANGED cacheVars /\ diskUnchanged

\* Seek to lastSize, which may have changed, and read to the end.
ReadRows(r) ==
    /\ At(r, "rows")
    /\ LET c == read[r].cont IN
       entries' = [entries EXCEPT ![c] =
           @ \cup {rows[c][i] : i \in (lastSize[c] + 1)..Len(rows[c])}]
    /\ read' = [read EXCEPT ![r].pc = "size"]
    /\ UNCHANGED <<cached, lastSize>> /\ diskUnchanged

\* Mutant: the size is asked for again.
SetSizeNow(r) ==
    /\ At(r, "size")
    /\ lastSize' = [lastSize EXCEPT ![read[r].cont] = Len(rows[read[r].cont])]
    /\ read' = [read EXCEPT ![r].pc = "look"]
    /\ UNCHANGED <<cached, entries>> /\ diskUnchanged

\* What Stat said, whatever has been read or written since.
SetSize(r) ==
    /\ At(r, "size")
    /\ lastSize' = [lastSize EXCEPT ![read[r].cont] = read[r].size]
    /\ read' = [read EXCEPT ![r].pc = "look"]
    /\ UNCHANGED <<cached, entries>> /\ diskUnchanged

Look(r) ==
    /\ At(r, "look")
    /\ Found(r, read[r].cont, entries[read[r].cont])
    /\ UNCHANGED cacheVars /\ diskUnchanged

\* No cached container is left: the directory is listed.
ListDirectory(r) ==
    /\ At(r, "walk") /\ read[r].keys = {} /\ ~read[r].loaded
    /\ read' = [read EXCEPT ![r].pc = "load", ![r].snap = Here]
    /\ UNCHANGED cacheVars /\ diskUnchanged

\* Mutant: loading stops at the first new container.
LoadFirst(r) ==
    /\ At(r, "load") /\ wpc # "make"
    /\ LoadContainers(FirstNew(read[r].snap))
    /\ read' = [read EXCEPT ![r].pc = "walk", ![r].loaded = TRUE,
                            ![r].keys = FirstNew(read[r].snap)]
    /\ diskUnchanged

\* Everything new is loaded under containersUpdateMutex, the first visited.
Load(r) ==
    /\ At(r, "load") /\ wpc # "make"
    /\ LoadContainers(NewOnes(read[r].snap))
    /\ read' = [read EXCEPT ![r].pc = "walk", ![r].loaded = TRUE,
                            ![r].keys = FirstNew(read[r].snap)]
    /\ diskUnchanged

\* No container is left.
AnswerNotFound(r) ==
    /\ At(r, "walk") /\ read[r].keys = {} /\ read[r].loaded /\ read[r].want # Dir
    /\ read' = [read EXCEPT ![r] = Answer(@, "notExist")]
    /\ UNCHANGED cacheVars /\ diskUnchanged

\* The listing: how often each file is there.
AnswerListing(r) ==
    /\ At(r, "walk") /\ read[r].keys = {} /\ read[r].loaded /\ read[r].want = Dir
    /\ read' = [read EXCEPT ![r] = Answer(@, @.files)]
    /\ UNCHANGED cacheVars /\ diskUnchanged

-----------------------------------------------------------------------------
WriterStep ==
    \/ \E f \in Name : Open(f) \/ OpenNew(f)
    \/ MakeIndex \/ Write \/ WriterSetsSize \/ WriterSetsEntry

ReaderStep(r) ==
    \/ \E c \in Container : Visit(r, c) \/ Stat(r, c)
    \/ ReadRows(r) \/ SetSize(r) \/ Look(r)
    \/ ListDirectory(r) \/ Load(r)
    \/ AnswerNotFound(r) \/ AnswerListing(r)

Next ==
    \/ WriterStep
    \/ \E c \in Foreign : CopyIndex(c) \/ \E f \in Copied : CopyRow(c, f)
    \/ \E r \in Reader : ReaderStep(r) \/ \E w \in Wants[r] : Start(r, w)

Spec == Init /\ [][Next]_vars

-----------------------------------------------------------------------------
(* Properties.                                                              *)

TypeOK ==
    /\ tars \subseteq Container /\ indexes \subseteq Container
    /\ \A c \in Container : records[c] \subseteq File /\ rows[c] \in Seq(File)
    /\ cached \in [Container -> {"no", "tar", "index"}]
    /\ behind \subseteq File
    /\ entries \in [Container -> SUBSET File]
    /\ \A c \in Container : lastSize[c] \in 0..Len(rows[c])
    /\ wpc \in {"idle", "make", "record", "size", "entry"}
    /\ wname \in Name \cup {None} /\ wcont \in Own \cup {0}
    /\ \A r \in Reader :
          /\ read[r].pc \in {"idle", "walk", "rows", "size", "look", "load", "done"}
          /\ read[r].want \in File \cup {Dir, None}
          /\ read[r].keys \subseteq Container /\ read[r].cont \in Container \cup {0}
          /\ read[r].files \in [File -> 0..Cardinality(Container) + 1]

Done(r, w) == At(r, "done") /\ read[r].want = w
Refused(r) == read[r].answer = "notExist"

\* A file whose row was in a cached index when the request came is found and
\* listed, though readers and the writer move the index's lastSize under each
\* other (GetRegularFile, ListFiles, updateEntries).
WarmFilesAreFound ==
    \A r \in Reader :
        /\ \A f \in read[r].due : ~(Done(r, f) /\ Refused(r))
        /\ Done(r, Dir) => \A f \in read[r].due : read[r].answer[f] > 0

\* Only a cold cache misses: a walk that has loaded leaves all that it saw in
\* the directory in the cache, whichever reader loaded it; the request that
\* comes after a refusal is warm (regularFileContainerWalker.Next).
WalkLoadsAll ==
    \A r \in Reader : read[r].loaded =>
        /\ \A c \in read[r].snap[1] : cached[c] # "no"
        /\ \A c \in read[r].snap[2] : cached[c] = "index"

\* What lies before lastSize is never read again, so it must be in the
\* entries, but for the file that the writer is about to enter (updateEntries,
\* AddRegularFile).
NothingSkipped ==
    \A c \in Container : cached[c] = "index" =>
        {rows[c][i] : i \in 1..lastSize[c]} \subseteq entries[c] \cup {wname}

\* A listing has a file of this node at most once, whatever is loaded meanwhile
\* and whether its container has an index or not (ReadDir).
ListedOnce ==
    \A r \in Reader : Done(r, Dir) => \A f \in Name : read[r].answer[f] <= 1

\* What clients expect: a file that is in the directory when its request comes
\* is found, by a storage that has not read the directory before as well
\* (GetRegularFile, regularFileContainerWalker.Next).
EveryFileIsFound ==
    \A r \in Reader, f \in File : Done(r, f) /\ read[r].there => ~Refused(r)

=============================================================================
