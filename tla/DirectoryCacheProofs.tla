------------------------- MODULE DirectoryCacheProofs -------------------------
(***************************************************************************)
(* Proofs about DirectoryCache, for any workers, directories, containers   *)
(* and capacity, and whatever is pushed out of the cache: the types, and   *)
(* that a directory no entry of which left the cache under a create has    *)
(* one writer at a time, and records that are never written over.          *)
(***************************************************************************)
EXTENDS DirectoryCache, SequenceTheorems, TLAPS

WithEntry == {"evict", "close", "ensure", "walk", "choose", "use", "lock", "record"}
OnlyCreates == {"ensure", "choose", "use", "lock", "record"}
PC == {"idle", "get", "clear"} \cup WithEntry
Offsets == [Entry -> [Container -> Nat \cup {None}]]

\* An entry that somebody has is in use, and what it says of its directory's
\* tars is so.
EntryInv(e) ==
    /\ Held(e) => entries[e] # None
    /\ \A c \in Container :
          /\ entries[e] # None /\ (c \in entries[e].loaded \/ c = entries[e].writing) =>
                tar[entries[e].directory][c] # None
          /\ fd[e][c] # None =>
                /\ entries[e] # None /\ tar[entries[e].directory][c] # None
                /\ fd[e][c] <= Len(tar[entries[e].directory][c])

\* What a worker has in each place.
WorkerInv(w) ==
    /\ pc[w] # "clear"
    /\ pc[w] # "idle" => dir[w] \in Directory
    /\ entry[w] # None <=> pc[w] \in WithEntry
    /\ entry[w] # None => entries[entry[w]].directory = dir[w]
    /\ pc[w] \in OnlyCreates => wants[w] = "create"
    /\ pc[w] \in {"lock", "record"} => cont[w] # None /\ tar[dir[w]][cont[w]] # None

Types ==
    /\ lru \in Seq(Entry) /\ Len(lru) <= Capacity
    /\ entries \in [Entry -> CacheEntry \cup {None}]
    /\ updateCache \in Worker \cup {None}
    /\ containersUpdate \in [Entry -> Process \cup {None}]
    /\ writeContainerUpdate \in [Entry -> Worker \cup {None}]
    /\ write \in [Entry -> [Container -> Worker \cup {None}]]
    /\ fd \in Offsets
    /\ tar \in [Directory -> [Container -> Seq(Worker) \cup {None}]]
    /\ pc \in [Process -> PC] /\ wants \in [Worker -> {"create", "read", None}]
    /\ dir \in [Worker -> Directory \cup {None}]
    /\ entry \in [Worker -> Entry \cup {None}]
    /\ cont \in [Worker -> Container \cup {None}]
    /\ victim \in [Process -> Entry \cup {None}]
    /\ clearing \subseteq Entry /\ operations \in Nat /\ strayed \subseteq Directory
    /\ pc[Closer] \in {"idle", "clear", "evict", "close"}

Victims == \A p \in Process : victim[p] # None <=> pc[p] \in {"evict", "close"}

TypeInv ==
    /\ Types /\ Victims
    /\ \A e \in Entry : EntryInv(e)
    /\ \A w \in Worker : WorkerInv(w)

\* A directory has one entry in the cache, ...
OneEntry ==
    \A e, f \in ToSet(lru) : entries[e].directory = entries[f].directory => e = f
\* ... which is that of a create unless the directory has strayed.
CreatesCached ==
    \A w \in Worker : wants[w] = "create" /\ entry[w] # None /\ dir[w] \notin strayed =>
        entry[w] \in ToSet(lru)
\* Whoever writes has the mutex of its entry's container.
WritersLock == \A w \in Worker : pc[w] = "record" => write[entry[w]][cont[w]] = w
\* What the cache has open for a directory that has not strayed is at the end.
AtEnd ==
    \A e \in ToSet(lru), c \in Container :
        entries[e].directory \notin strayed /\ fd[e][c] # None =>
            fd[e][c] = Len(tar[entries[e].directory][c])

CacheInv == OneEntry /\ CreatesCached /\ WritersLock /\ AtEnd

-----------------------------------------------------------------------------
(* Sequences.                                                               *)

\* A sequence with an element put in front of it.
LEMMA PutInFront ==
    ASSUME NEW S, NEW s \in Seq(S), NEW e \in S
    PROVE  /\ <<e>> \o s \in Seq(S) /\ Len(<<e>> \o s) = Len(s) + 1
           /\ (<<e>> \o s)[1] = e
           /\ \A i \in 1 .. Len(s) : (<<e>> \o s)[i + 1] = s[i]
           /\ \A i \in 2 .. Len(s) + 1 : (<<e>> \o s)[i] = s[i - 1]
<1>1. <<e>> \in Seq(S) /\ Len(<<e>>) = 1 /\ <<e>>[1] = e OBVIOUS
<1>2. Len(s) \in Nat BY LenProperties
<1> QED BY <1>1, <1>2, ConcatProperties

\* A sequence without its last element.
LEMMA FrontIsShorter ==
    ASSUME NEW S, NEW s \in Seq(S), Len(s) # 0
    PROVE  /\ Front(s) \in Seq(S) /\ Len(Front(s)) = Len(s) - 1
           /\ \A i \in 1 .. Len(s) - 1 : Front(s)[i] = s[i]
           /\ Last(s) \in S /\ Len(s) \in DOMAIN s
<1>1. Len(s) \in Nat \ {0} /\ DOMAIN s = 1 .. Len(s) BY LenProperties
<1>2. \A i \in 1 .. Len(s) - 1 : s[i] \in S BY <1>1, ElementOfSeq
<1>3. 1 \in Int /\ Len(s) - 1 \in Int BY <1>1
<1>4. /\ SubSeq(s, 1, Len(s) - 1) \in Seq(S)
      /\ Len(SubSeq(s, 1, Len(s) - 1)) = IF 1 <= Len(s) - 1 THEN Len(s) - 1 - 1 + 1 ELSE 0
      /\ \A i \in 1 .. Len(s) - 1 - 1 + 1 : SubSeq(s, 1, Len(s) - 1)[i] = s[1 + i - 1]
  BY <1>2, <1>3, SubSeqProperties
<1>5. Last(s) \in S BY <1>1, ElementOfSeq DEF Last
<1> QED BY <1>1, <1>4, <1>5 DEF Front

\* The element of s that is at the place i of s when its i-th is moved in front.
Before(i, k) == IF k = 1 THEN i ELSE IF k <= i THEN k - 1 ELSE k

\* An element moved to the front: those before it move back by one.
LEMMA MoveToFront ==
    ASSUME NEW S, NEW s \in Seq(S), NEW i \in DOMAIN s
    PROVE  /\ <<s[i]>> \o RemoveAt(s, i) \in Seq(S)
           /\ Len(<<s[i]>> \o RemoveAt(s, i)) = Len(s)
           /\ \A k \in DOMAIN s : (<<s[i]>> \o RemoveAt(s, i))[k] = s[Before(i, k)]
<1> DEFINE a == SubSeq(s, 1, i - 1)
           b == SubSeq(s, i + 1, Len(s))
           r == a \o b
           t == <<s[i]>> \o r
<1>1. Len(s) \in Nat /\ DOMAIN s = 1 .. Len(s) /\ i \in 1 .. Len(s) BY LenProperties
<1>2. \A j \in 1 .. Len(s) : s[j] \in S BY ElementOfSeq
<1>3. a \in Seq(S) /\ Len(a) = i - 1 /\ \A j \in 1 .. i - 1 : a[j] = s[j]
  <2>1. /\ a \in Seq(S) /\ Len(a) = IF 1 <= i - 1 THEN i - 1 - 1 + 1 ELSE 0
        /\ \A j \in 1 .. i - 1 - 1 + 1 : a[j] = s[1 + j - 1]
    <3>1. 1 \in Int /\ i - 1 \in Int /\ \A j \in 1 .. i - 1 : s[j] \in S BY <1>1, <1>2
    <3> QED BY <3>1, SubSeqProperties
  <2> QED BY <1>1, <2>1
<1>4. b \in Seq(S) /\ Len(b) = Len(s) - i /\ \A j \in 1 .. Len(s) - i : b[j] = s[i + j]
  <2>1. /\ b \in Seq(S)
        /\ Len(b) = IF i + 1 <= Len(s) THEN Len(s) - (i + 1) + 1 ELSE 0
        /\ \A j \in 1 .. Len(s) - (i + 1) + 1 : b[j] = s[i + 1 + j - 1]
    <3>1. i + 1 \in Int /\ Len(s) \in Int /\ \A j \in i + 1 .. Len(s) : s[j] \in S
      BY <1>1, <1>2
    <3> QED BY <3>1, SubSeqProperties
  <2> QED BY <1>1, <2>1
<1> HIDE DEF a, b
<1>5. /\ r \in Seq(S) /\ Len(r) = Len(s) - 1
      /\ \A j \in 1 .. Len(s) - 1 : r[j] = IF j <= i - 1 THEN a[j] ELSE b[j - (i - 1)]
  <2>1. /\ a \o b \in Seq(S) /\ Len(a \o b) = Len(a) + Len(b)
        /\ \A j \in 1 .. Len(a) + Len(b) : (a \o b)[j] =
              IF j <= Len(a) THEN a[j] ELSE b[j - Len(a)]
    BY <1>3, <1>4, ConcatProperties
  <2>2. Len(a) + Len(b) = Len(s) - 1 BY <1>1, <1>3, <1>4
  <2> QED BY <1>3, <2>1, <2>2
<1>6. \A j \in 1 .. Len(s) - 1 : r[j] = IF j <= i - 1 THEN s[j] ELSE s[j + 1]
  <2> TAKE j \in 1 .. Len(s) - 1
  <2>1. CASE j <= i - 1 BY <1>1, <1>3, <1>5, <2>1
  <2>2. CASE ~(j <= i - 1)
    <3>1. j - (i - 1) \in 1 .. Len(s) - i /\ i + (j - (i - 1)) = j + 1 BY <1>1, <2>2
    <3> QED BY <1>4, <1>5, <2>2, <3>1
  <2> QED BY <2>1, <2>2
<1> HIDE DEF r
<1>7. s[i] \in S BY <1>1, <1>2
<1>8. /\ t \in Seq(S) /\ Len(t) = Len(s) - 1 + 1 /\ t[1] = s[i]
      /\ \A k \in 2 .. Len(s) - 1 + 1 : t[k] = r[k - 1]
  BY <1>5, <1>7, PutInFront
<1>9. ASSUME NEW k \in DOMAIN s PROVE t[k] = s[Before(i, k)]
  <2>1. CASE k = 1 BY <1>8, <2>1 DEF Before
  <2>2. CASE k # 1
    <3>1. k \in 2 .. Len(s) - 1 + 1 /\ k - 1 \in 1 .. Len(s) - 1 /\ k - 1 + 1 = k
          /\ (k - 1 <= i - 1 <=> k <= i)
      BY <1>1, <2>2
    <3> QED BY <1>6, <1>8, <2>2, <3>1 DEF Before
  <2> QED BY <2>1, <2>2
<1>10. t = <<s[i]>> \o RemoveAt(s, i) BY DEF r, a, b, RemoveAt
<1> HIDE DEF t
<1> QED
  <2>1. Len(t) = Len(s) BY <1>1, <1>8
  <2> QED BY <1>8, <1>9, <1>10, <2>1

\* What is moved to the front stays where it was: in the sequence.
LEMMA MoveKeepsElements ==
    ASSUME NEW S, NEW s \in Seq(S), NEW i \in DOMAIN s
    PROVE  ToSet(<<s[i]>> \o RemoveAt(s, i)) = ToSet(s)
<1> DEFINE t == <<s[i]>> \o RemoveAt(s, i)
<1>1. /\ t \in Seq(S) /\ Len(t) = Len(s) /\ \A k \in DOMAIN s : t[k] = s[Before(i, k)]
  BY MoveToFront
<1> HIDE DEF t
<1>2. Len(s) \in Nat /\ DOMAIN s = 1 .. Len(s) /\ DOMAIN t = 1 .. Len(s) /\ i \in 1 .. Len(s)
  BY <1>1, LenProperties
<1>3. \A k \in DOMAIN t : t[k] \in ToSet(s)
  <2> TAKE k \in DOMAIN t
  <2>1. Before(i, k) \in DOMAIN s BY <1>2 DEF Before
  <2> QED BY <1>1, <1>2, <2>1 DEF ToSet
<1>4. \A k \in DOMAIN s : s[k] \in ToSet(t)
  <2> TAKE k \in DOMAIN s
  <2>1. PICK j \in DOMAIN s : Before(i, j) = k
    <3>1. CASE k = i BY <1>2, <3>1 DEF Before
    <3>2. CASE k < i
      <4>1. k + 1 \in DOMAIN s /\ Before(i, k + 1) = k BY <1>2, <3>2 DEF Before
      <4> QED BY <4>1
    <3>3. CASE k > i
      <4>1. Before(i, k) = k BY <1>2, <3>3 DEF Before
      <4> QED BY <4>1
    <3> QED BY <1>2, <3>1, <3>2, <3>3
  <2> QED BY <1>1, <1>2, <2>1 DEF ToSet
<1>5. ToSet(t) = ToSet(s) BY <1>3, <1>4 DEF ToSet
<1> QED BY <1>5 DEF t

\* The elements of a sequence with one put in front of it.
LEMMA FrontElements ==
    ASSUME NEW S, NEW s \in Seq(S), NEW e \in S
    PROVE  ToSet(<<e>> \o s) = {e} \cup ToSet(s)
<1> DEFINE t == <<e>> \o s
<1>1. /\ t \in Seq(S) /\ Len(t) = Len(s) + 1 /\ t[1] = e
      /\ \A i \in 1 .. Len(s) : t[i + 1] = s[i]
      /\ \A i \in 2 .. Len(s) + 1 : t[i] = s[i - 1]
  BY PutInFront
<1> HIDE DEF t
<1>2. Len(s) \in Nat /\ DOMAIN s = 1 .. Len(s) /\ DOMAIN t = 1 .. Len(s) + 1
  BY <1>1, LenProperties
<1>3. \A k \in DOMAIN t : t[k] \in {e} \cup ToSet(s)
  <2> TAKE k \in DOMAIN t
  <2>1. k = 1 \/ (k \in 2 .. Len(s) + 1 /\ k - 1 \in DOMAIN s) BY <1>2
  <2> QED BY <1>1, <2>1 DEF ToSet
<1>4. \A k \in DOMAIN s : s[k] \in ToSet(t)
  <2> TAKE k \in DOMAIN s
  <2>1. k \in 1 .. Len(s) /\ k + 1 \in DOMAIN t BY <1>2
  <2> QED BY <1>1, <2>1 DEF ToSet
<1>5. e \in ToSet(t)
  <2>1. 1 \in DOMAIN t BY <1>2
  <2> QED BY <1>1, <2>1 DEF ToSet
<1>6. ToSet(t) = {e} \cup ToSet(s) BY <1>3, <1>4, <1>5 DEF ToSet
<1> QED BY <1>6 DEF t

\* The last element is all that a sequence loses without it.
LEMMA LastElement ==
    ASSUME NEW S, NEW s \in Seq(S), Len(s) # 0
    PROVE  /\ ToSet(Front(s)) \subseteq ToSet(s) /\ Last(s) \in ToSet(s)
           /\ ToSet(s) \subseteq ToSet(Front(s)) \cup {Last(s)}
<1>1. /\ Front(s) \in Seq(S) /\ Len(Front(s)) = Len(s) - 1
      /\ \A i \in 1 .. Len(s) - 1 : Front(s)[i] = s[i]
      /\ Len(s) \in DOMAIN s
  BY FrontIsShorter
<1>2. Len(s) \in Nat /\ DOMAIN s = 1 .. Len(s) /\ DOMAIN Front(s) = 1 .. Len(s) - 1
  BY <1>1, LenProperties
<1>3. Last(s) = s[Len(s)] BY DEF Last
<1>4. \A k \in DOMAIN s : k \in DOMAIN Front(s) \/ k = Len(s) BY <1>2
<1>5. \A k \in DOMAIN Front(s) : k \in DOMAIN s BY <1>2
<1> QED BY <1>1, <1>2, <1>3, <1>4, <1>5 DEF ToSet

\* The cache has entries.
LEMMA CacheHasEntries == Types => ToSet(lru) \subseteq Entry
BY ElementOfSeq, LenProperties DEF ToSet, Types

-----------------------------------------------------------------------------
(* What the steps have in common.                                           *)

\* Whoever closes the storage is a process but no worker.
LEMMA WorkerInProcess == Worker \subseteq Process /\ Closer \in Process /\ Closer \notin Worker
BY CacheAssumption DEF Process

\* None is none of the values it stands beside.
LEMMA NoneIsNothing ==
    /\ None \notin CacheEntry /\ None \notin Nat /\ None \notin Seq(Worker)
    /\ None \notin Entry /\ None \notin Worker /\ None \notin Directory
    /\ None \notin Container /\ None # "create"
BY CacheAssumption

\* The types are part of their inductive invariant.
LEMMA TypeInvIsTyping == TypeInv => TypeOK
BY DEF TypeInv, Types, TypeOK, EntryInv, PC, WithEntry, Offsets

\* Tars that exist stay as they are.
SameTars ==
    \A d \in Directory, c \in Container : tar[d][c] # None => tar'[d][c] = tar[d][c]

\* An entry that a step leaves has the directory it had, nothing newly open
\* and no container without a tar.
Remains(e) ==
    \/ entries'[e] = None /\ \A c \in Container : fd'[e][c] = None
    \/ /\ entries[e] # None /\ entries'[e] # None
       /\ entries'[e].directory = entries[e].directory
       /\ \A c \in Container :
             /\ c \in entries'[e].loaded \/ c = entries'[e].writing =>
                   \/ c \in entries[e].loaded \/ c = entries[e].writing
                   \/ tar'[entries[e].directory][c] # None
             /\ fd'[e][c] = None \/ fd'[e][c] = fd[e][c]
Keeps ==
    /\ SameTars
    /\ \A e \in Entry : Remains(e) /\ (Held(e)' => Held(e) /\ entries'[e] # None)
Quiet == Keeps /\ ToSet(lru') \subseteq ToSet(lru) /\ strayed \subseteq strayed'

\* Nobody but w changes what it does.
OthersStay(w) ==
    \A v \in Worker \ {w} :
        /\ pc'[v] = pc[v] /\ wants'[v] = wants[v] /\ dir'[v] = dir[v]
        /\ entry'[v] = entry[v] /\ cont'[v] = cont[v]

\* An entry that is used has a directory.
LEMMA EntryHasDirectory ==
    ASSUME TypeInv, NEW e \in Entry, entries[e] # None
    PROVE  entries[e] \in CacheEntry /\ entries[e].directory \in Directory
           /\ entries[e].loaded \subseteq Container
BY DEF TypeInv, Types, CacheEntry

\* What is said of entries holds of what is left of them.
LEMMA KeepsEntries ==
    ASSUME TypeInv, Keeps
    PROVE  \A e \in Entry : EntryInv(e)'
<1> SUFFICES ASSUME NEW e \in Entry PROVE EntryInv(e)'
  OBVIOUS
<1>1. EntryInv(e) /\ Remains(e) /\ (Held(e)' => entries'[e] # None) BY DEF TypeInv, Keeps
<1>2. CASE entries'[e] = None
  BY <1>1, <1>2 DEF EntryInv, Remains
<1>3. CASE entries'[e] # None
  <2>1. entries[e] # None /\ entries[e].directory \in Directory
    BY <1>1, <1>3, EntryHasDirectory DEF Remains
  <2>2. \A c \in Container : tar[entries[e].directory][c] # None =>
           tar'[entries[e].directory][c] = tar[entries[e].directory][c]
    BY <2>1 DEF Keeps, SameTars
  <2> QED BY <1>1, <1>3, <2>1, <2>2 DEF EntryInv, Remains
<1> QED BY <1>2, <1>3

\* What is said of the workers that do nothing still holds.
LEMMA KeepsWorkers ==
    ASSUME TypeInv, Keeps, NEW w, OthersStay(w)
    PROVE  \A v \in Worker \ {w} : WorkerInv(v)'
<1> SUFFICES ASSUME NEW v \in Worker \ {w} PROVE WorkerInv(v)'
  OBVIOUS
<1>1. /\ pc'[v] = pc[v] /\ wants'[v] = wants[v] /\ dir'[v] = dir[v]
      /\ entry'[v] = entry[v] /\ cont'[v] = cont[v] /\ WorkerInv(v)
  BY DEF OthersStay, TypeInv
<1>2. entry[v] # None => entries'[entry[v]].directory = entries[entry[v]].directory
  <2> SUFFICES ASSUME entry[v] # None
               PROVE  entries'[entry[v]].directory = entries[entry[v]].directory
    OBVIOUS
  <2>1. PICK e \in Entry : e = entry[v] BY DEF TypeInv, Types
  <2>2. Held(e)' BY <1>1, <2>1 DEF Held
  <2>3. Remains(e) /\ entries'[e] # None BY <2>2 DEF Keeps
  <2> QED BY <2>1, <2>3 DEF Remains
<1>3. pc[v] \in {"lock", "record"} => tar'[dir[v]][cont[v]] # None
  BY <1>1, NoneIsNothing DEF WorkerInv, TypeInv, Types, Keeps, SameTars
<1> QED BY <1>1, <1>2, <1>3 DEF WorkerInv

\* Nothing is put in the cache, and what it has open stays where it is.
LEMMA QuietCache ==
    ASSUME TypeInv, OneEntry, AtEnd, Quiet
    PROVE  OneEntry' /\ AtEnd'
<1>1. ASSUME NEW e \in ToSet(lru')
      PROVE  /\ e \in ToSet(lru) /\ e \in Entry /\ entries[e] # None
             /\ entries'[e].directory = entries[e].directory
             /\ \A c \in Container : fd'[e][c] = None \/ fd'[e][c] = fd[e][c]
  <2>1. e \in ToSet(lru) /\ e \in Entry BY <1>1, CacheHasEntries DEF Quiet, TypeInv
  <2>2. Held(e)' BY <1>1 DEF Held
  <2>3. Remains(e) /\ entries'[e] # None BY <2>1, <2>2 DEF Quiet, Keeps
  <2> QED BY <2>1, <2>3 DEF Remains
<1>2. OneEntry' BY <1>1 DEF OneEntry
<1>3. ASSUME NEW e \in ToSet(lru'), NEW c \in Container,
             entries'[e].directory \notin strayed', fd'[e][c] # None
      PROVE  fd'[e][c] = Len(tar'[entries'[e].directory][c])
  <2>1. /\ e \in ToSet(lru) /\ entries'[e].directory = entries[e].directory
        /\ fd'[e][c] = fd[e][c] /\ entries[e].directory \in Directory
    BY <1>1, <1>3, EntryHasDirectory
  <2>2. entries[e].directory \notin strayed BY <1>3, <2>1 DEF Quiet
  <2>3. fd[e][c] = Len(tar[entries[e].directory][c]) BY <1>3, <2>1, <2>2 DEF AtEnd
  <2>4. tar[entries[e].directory][c] # None BY <1>1, <1>3, <2>1 DEF TypeInv, EntryInv
  <2> QED BY <2>1, <2>3, <2>4 DEF Quiet, Keeps, SameTars
<1> QED BY <1>2, <1>3 DEF AtEnd

\* No create gets an entry, and those that leave the cache stray.
LEMMA CreatesStay ==
    ASSUME TypeInv, CreatesCached, strayed \subseteq strayed',
           \A v \in Worker : wants'[v] = "create" /\ entry'[v] # None =>
              wants[v] = "create" /\ entry'[v] = entry[v] /\ dir'[v] = dir[v],
           \A e \in ToSet(lru) : e \in ToSet(lru') \/ Straying({e}) \subseteq strayed'
    PROVE  CreatesCached'
<1> SUFFICES ASSUME NEW w \in Worker, wants'[w] = "create", entry'[w] # None,
                    dir'[w] \notin strayed'
             PROVE  entry'[w] \in ToSet(lru')
  BY DEF CreatesCached
<1>1. wants[w] = "create" /\ entry'[w] = entry[w] /\ dir'[w] = dir[w] /\ dir[w] \notin strayed
  OBVIOUS
<1>2. entry[w] \in ToSet(lru) /\ entries[entry[w]].directory = dir[w]
  BY <1>1 DEF CreatesCached, TypeInv, WorkerInv
<1>3. dir[w] \in Straying({entry[w]}) BY <1>1, <1>2 DEF Straying, Creating
<1> QED BY <1>1, <1>2, <1>3

\* Nobody begins to write, and no mutex of writers changes hands.
LEMMA WritersStay ==
    ASSUME WritersLock, UNCHANGED write,
           \A v \in Worker : pc'[v] = "record" =>
              pc[v] = "record" /\ entry'[v] = entry[v] /\ cont'[v] = cont[v]
    PROVE  WritersLock'
BY DEF WritersLock

\* Entries that nothing has after a step are collected, the others are as given.
LEMMA CollectKeeps ==
    ASSUME NEW es \in [Entry -> CacheEntry \cup {None}], NEW fds \in Offsets, Collect(es, fds)
    PROVE  /\ entries' \in [Entry -> CacheEntry \cup {None}] /\ fd' \in Offsets
           /\ \A e \in Entry : Held(e)' => entries'[e] = es[e] /\ fd'[e] = fds[e]
           /\ \A e \in Entry : ~Held(e)' =>
                 entries'[e] = None /\ \A c \in Container : fd'[e][c] = None
<1>1. [c \in Container |-> None] \in [Container -> Nat \cup {None}] OBVIOUS
<1>2. /\ \A e \in Entry : Held(e)' => entries'[e] = es[e] /\ fd'[e] = fds[e]
      /\ \A e \in Entry : ~Held(e)' =>
            entries'[e] = None /\ \A c \in Container : fd'[e][c] = None
  BY DEF Collect
<1>3. entries' \in [Entry -> CacheEntry \cup {None}] BY DEF Collect
<1>4. fd' \in Offsets
  <2> DEFINE closed == [c \in Container |-> None]
  <2>1. fd' = [e \in Entry |-> IF Held(e)' THEN fds[e] ELSE closed] BY DEF Collect
  <2>2. \A e \in Entry : fds[e] \in [Container -> Nat \cup {None}] BY DEF Offsets
  <2> HIDE DEF closed
  <2>3. closed \in [Container -> Nat \cup {None}] BY <1>1 DEF closed
  <2> QED BY <2>1, <2>2, <2>3 DEF Offsets
<1> QED BY <1>2, <1>3, <1>4

\* Where an entry closes something or comes to know a tar and the others stay,
\* what is left keeps its directory.
LEMMA CollectIsKeeping ==
    ASSUME TypeInv, SameTars,
           NEW es \in [Entry -> CacheEntry \cup {None}], NEW fds \in Offsets, Collect(es, fds),
           \A e \in Entry : Held(e)' => Held(e),
           \A e \in Entry : entries[e] # None =>
              /\ es[e] # None /\ es[e].directory = entries[e].directory
              /\ es[e].writing = entries[e].writing
              /\ \A c \in es[e].loaded :
                    c \in entries[e].loaded \/ tar'[entries[e].directory][c] # None,
           \A e \in Entry, c \in Container : fds[e][c] = None \/ fds[e][c] = fd[e][c]
    PROVE  Keeps
<1> SUFFICES ASSUME NEW e \in Entry
             PROVE  Remains(e) /\ (Held(e)' => Held(e) /\ entries'[e] # None)
  BY DEF Keeps
<1>1. CASE Held(e)'
  <2>1. Held(e) /\ entries[e] # None BY <1>1 DEF TypeInv, EntryInv
  <2>2. entries'[e] = es[e] /\ fd'[e] = fds[e] BY <1>1, CollectKeeps
  <2> QED BY <1>1, <2>1, <2>2 DEF Remains
<1>2. CASE ~Held(e)'
  BY <1>2, CollectKeeps DEF Remains
<1> QED BY <1>1, <1>2

\* Where nothing is collected or changed.
LEMMA SameIsKeeping ==
    ASSUME TypeInv, UNCHANGED <<entries, fd>>, SameTars, \A e \in Entry : Held(e)' => Held(e)
    PROVE  Keeps
<1> SUFFICES ASSUME NEW e \in Entry
             PROVE  Remains(e) /\ (Held(e)' => Held(e) /\ entries'[e] # None)
  BY DEF Keeps
<1>1. EntryInv(e) BY DEF TypeInv
<1> QED BY <1>1 DEF EntryInv, Remains

\* Closing the write container of an entry closes nothing else.
LEMMA ClosedIsClosed ==
    ASSUME TypeInv, NEW e \in Entry, entries[e] # None
    PROVE  /\ Closed(e) \in Offsets
           /\ \A f \in Entry, c \in Container : Closed(e)[f][c] = None \/ Closed(e)[f][c] = fd[f][c]
<1>1. CASE entries[e].writing = None
  BY <1>1 DEF Closed, TypeInv, Types
<1>2. CASE entries[e].writing # None
  <2>1. PICK k : k = entries[e].writing OBVIOUS
  <2>2. k \in Container BY <1>2, <2>1, EntryHasDirectory DEF CacheEntry
  <2>3. Closed(e) = [fd EXCEPT ![e][k] = None] BY <1>2, <2>1 DEF Closed
  <2>4. fd \in [Entry -> [Container -> Nat \cup {None}]] BY DEF TypeInv, Types, Offsets
  <2> QED BY <2>2, <2>3, <2>4 DEF Offsets
<1> QED BY <1>1, <1>2

-----------------------------------------------------------------------------
(* The steps of the cache.                                                  *)

Inv == TypeInv /\ CacheInv

\* At first nothing is cached, open or under way.
LEMMA InitInv == Init => Inv
<1> SUFFICES ASSUME Init PROVE Inv
  OBVIOUS
<1>1. lru \in Seq(Entry) /\ Len(lru) = 0 /\ ToSet(lru) = {} BY DEF Init, ToSet
<1>2. /\ write \in [Entry -> [Container -> Worker \cup {None}]] /\ fd \in Offsets
      /\ tar \in [Directory -> [Container -> Seq(Worker) \cup {None}]]
      /\ \A e \in Entry, c \in Container : fd[e][c] = None
  BY DEF Init, Offsets
<1>3. Types BY <1>1, <1>2, CacheAssumption DEF Init, Types, PC, Process
<1>4. \A e \in Entry : EntryInv(e)
  BY <1>1, <1>2, CacheAssumption DEF Init, EntryInv, Held, Process
<1>5. \A w \in Worker : WorkerInv(w)
  BY DEF Init, WorkerInv, Process, WithEntry, OnlyCreates
<1>6. Victims BY DEF Init, Victims
<1>7. CacheInv
  BY <1>1, CacheAssumption DEF Init, CacheInv, OneEntry, CreatesCached, WritersLock, AtEnd, Process
<1> QED BY <1>3, <1>4, <1>5, <1>6, <1>7 DEF Inv, TypeInv

\* A request that arrives has no entry yet.
LEMMA StartKeeps ==
    ASSUME Inv, NEW w \in Worker, NEW d \in Directory, NEW what \in {"create", "read"},
           Start(w, d, what)
    PROVE  Inv'
<1>0. TypeInv /\ OneEntry /\ CreatesCached /\ WritersLock /\ AtEnd BY DEF Inv, CacheInv
<1>1. /\ pc[w] = "idle" /\ pc' = [pc EXCEPT ![w] = "get"]
      /\ wants' = [wants EXCEPT ![w] = what] /\ dir' = [dir EXCEPT ![w] = d]
      /\ operations' = operations + 1
      /\ UNCHANGED <<lru, mutexes, entries, fd, tar, entry, cont, victim, clearing, strayed>>
  BY DEF Start, Goto
<1>2. Types' BY <1>0, <1>1, WorkerInProcess DEF TypeInv, Types, mutexes, PC
<1>3. Keeps BY <1>0, <1>1, SameIsKeeping DEF SameTars, Held
<1>4. OthersStay(w) BY <1>0, <1>1, WorkerInProcess DEF OthersStay, TypeInv, Types
<1>5. WorkerInv(w)'
  BY <1>0, <1>1, WorkerInProcess DEF TypeInv, Types, WorkerInv, WithEntry, OnlyCreates
<1>6. entry[w] = None BY <1>0, <1>1 DEF TypeInv, WorkerInv, WithEntry
<1>7. Victims' BY <1>0, <1>1, WorkerInProcess DEF TypeInv, Types, Victims
<1>8. TypeInv' BY <1>0, <1>2, <1>3, <1>4, <1>5, <1>7, KeepsEntries, KeepsWorkers DEF TypeInv
<1>9. OneEntry' /\ AtEnd' BY <1>0, <1>1, <1>3, QuietCache DEF Quiet
<1>10. CreatesCached'
  <2>1. \A v \in Worker : wants'[v] = "create" /\ entry'[v] # None =>
           wants[v] = "create" /\ entry'[v] = entry[v] /\ dir'[v] = dir[v]
    BY <1>1, <1>4, <1>6 DEF OthersStay
  <2> QED BY <1>0, <1>1, <2>1, CreatesStay
<1>11. WritersLock'
  <2>1. \A v \in Worker : pc'[v] = "record" =>
           pc[v] = "record" /\ entry'[v] = entry[v] /\ cont'[v] = cont[v]
    BY <1>0, <1>1, <1>4, WorkerInProcess DEF OthersStay, TypeInv, Types
  <2> QED BY <1>0, <1>1, <2>1, WritersStay DEF mutexes
<1> QED BY <1>8, <1>9, <1>10, <1>11 DEF Inv, CacheInv

\* A hit moves its entry to the front and gives it to the worker.
LEMMA HitKeeps ==
    ASSUME Inv, NEW w \in Worker, Hit(w)
    PROVE  Inv'
<1>0. TypeInv /\ OneEntry /\ CreatesCached /\ WritersLock /\ AtEnd BY DEF Inv, CacheInv
<1>1. /\ pc[w] = "get" /\ pc' = [pc EXCEPT ![w] = FirstStep(w)]
      /\ UNCHANGED <<mutexes, entries, fd, tar, wants, dir, cont, victim, clearing, operations,
                     strayed>>
  BY DEF Hit, Goto
<1>2. PICK i \in DOMAIN lru : /\ entries[lru[i]].directory = dir[w]
                              /\ lru' = <<lru[i]>> \o RemoveAt(lru, i)
                              /\ entry' = [entry EXCEPT ![w] = lru[i]]
  BY DEF Hit
<1>3. lru' \in Seq(Entry) /\ Len(lru') = Len(lru) /\ ToSet(lru') = ToSet(lru)
  BY <1>0, <1>2, MoveToFront, MoveKeepsElements DEF TypeInv, Types
<1>4. PICK e \in Entry : e = lru[i] /\ e \in ToSet(lru) /\ e # None
  <2>1. lru[i] \in ToSet(lru) BY DEF ToSet
  <2> QED BY <1>0, <2>1, CacheHasEntries, NoneIsNothing DEF TypeInv
<1>5. FirstStep(w) \in {"ensure", "walk"} /\ (FirstStep(w) = "ensure" => wants[w] = "create")
  BY DEF FirstStep
<1>6. Types'
  BY <1>0, <1>1, <1>2, <1>3, <1>4, <1>5, WorkerInProcess DEF TypeInv, Types, mutexes, PC, WithEntry
<1>7. entry'[w] = e /\ \A v \in Worker \ {w} : entry'[v] = entry[v]
  BY <1>0, <1>2, <1>4 DEF TypeInv, Types
<1>8. Keeps
  <2>1. \A f \in Entry : Held(f)' => Held(f) BY <1>1, <1>3, <1>4, <1>7 DEF Held
  <2> QED BY <1>0, <1>1, <2>1, SameIsKeeping DEF SameTars
<1>9. OthersStay(w) BY <1>0, <1>1, <1>7, WorkerInProcess DEF OthersStay, TypeInv, Types
<1>10. WorkerInv(w)'
  <2>1. pc'[w] = FirstStep(w) /\ dir[w] \in Directory
    BY <1>0, <1>1, WorkerInProcess DEF TypeInv, Types, WorkerInv
  <2> QED BY <1>1, <1>2, <1>4, <1>5, <1>7, <2>1 DEF WorkerInv, WithEntry, OnlyCreates
<1>11. Victims' BY <1>0, <1>1, <1>5, WorkerInProcess DEF TypeInv, Types, Victims
<1>12. TypeInv' BY <1>0, <1>6, <1>8, <1>9, <1>10, <1>11, KeepsEntries, KeepsWorkers DEF TypeInv
<1>13. OneEntry' /\ AtEnd' BY <1>0, <1>1, <1>3, <1>8, QuietCache DEF Quiet
<1>14. CreatesCached' BY <1>0, <1>1, <1>3, <1>4, <1>7 DEF CreatesCached
<1>15. WritersLock'
  <2>1. \A v \in Worker : pc'[v] = "record" =>
           pc[v] = "record" /\ entry'[v] = entry[v] /\ cont'[v] = cont[v]
    BY <1>0, <1>1, <1>5, <1>9, WorkerInProcess DEF OthersStay, TypeInv, Types
  <2> QED BY <1>0, <1>1, <2>1, WritersStay DEF mutexes
<1> QED BY <1>12, <1>13, <1>14, <1>15 DEF Inv, CacheInv

\* What a miss does with a free entry: it is put in front, and the last one
\* leaves a full cache.
Missed(w, e) ==
    /\ entries[e] = None
    /\ entries' = [entries EXCEPT ![e] =
          [directory |-> dir[w], loaded |-> {}, writing |-> None]]
    /\ entry' = [entry EXCEPT ![w] = e]
    /\ \/ /\ Len(lru) < Capacity /\ lru' = <<e>> \o lru
          /\ pc' = [pc EXCEPT ![w] = FirstStep(w)] /\ UNCHANGED <<updateCache, victim, strayed>>
       \/ /\ Len(lru) >= Capacity /\ lru' = <<e>> \o Front(lru)
          /\ victim' = [victim EXCEPT ![w] = Last(lru)] /\ updateCache' = w
          /\ strayed' = strayed \cup Straying({Last(lru)})
          /\ pc' = [pc EXCEPT ![w] = "evict"]
    /\ UNCHANGED <<containersUpdate, writeContainerUpdate, write, fd, tar, wants, dir, cont,
                   clearing, operations>>

\* A miss takes an entry that nothing has.
LEMMA MissTakesAFreeEntry ==
    ASSUME NEW w \in Worker, Miss(w)
    PROVE  \E e \in Entry : Missed(w, e)
<1> DEFINE e == CHOOSE e \in Unused : TRUE
<1>1. e \in Unused BY DEF Miss
<1>2. e \in Entry /\ entries[e] = None BY <1>1 DEF Unused
<1> HIDE DEF e
<1>3. Missed(w, e) BY <1>2 DEF Miss, Missed, Goto, NewEntry, e
<1> QED BY <1>2, <1>3

\* The cache after a miss.
LEMMA MissedCache ==
    ASSUME Types, NEW w \in Worker, NEW e \in Entry, Missed(w, e)
    PROVE  /\ lru' \in Seq(Entry) /\ Len(lru') <= Capacity
           /\ e \in ToSet(lru') /\ ToSet(lru') \subseteq {e} \cup ToSet(lru)
           /\ strayed \subseteq strayed' /\ strayed' \subseteq strayed \cup Straying(ToSet(lru))
           /\ \A f \in ToSet(lru) : f \in ToSet(lru') \/ Straying({f}) \subseteq strayed'
           /\ \/ UNCHANGED <<updateCache, victim>> /\ pc' = [pc EXCEPT ![w] = FirstStep(w)]
              \/ \E f \in ToSet(lru) :
                    /\ updateCache' = w /\ victim' = [victim EXCEPT ![w] = f]
                    /\ pc' = [pc EXCEPT ![w] = "evict"]
<1>0. lru \in Seq(Entry) /\ Len(lru) \in Nat /\ Len(lru) <= Capacity /\ Capacity \in Nat \ {0}
  BY LenProperties, CacheAssumption DEF Types
<1>1. CASE Len(lru) < Capacity
  <2>1. /\ lru' = <<e>> \o lru /\ UNCHANGED <<updateCache, victim, strayed>>
        /\ pc' = [pc EXCEPT ![w] = FirstStep(w)]
    BY <1>0, <1>1 DEF Missed
  <2>2. lru' \in Seq(Entry) /\ Len(lru') = Len(lru) + 1 BY <1>0, <2>1, PutInFront
  <2>3. ToSet(lru') = {e} \cup ToSet(lru) BY <1>0, <2>1, FrontElements
  <2> QED BY <1>0, <1>1, <2>1, <2>2, <2>3
<1>2. CASE ~(Len(lru) < Capacity)
  <2>1. /\ lru' = <<e>> \o Front(lru) /\ victim' = [victim EXCEPT ![w] = Last(lru)]
        /\ updateCache' = w /\ strayed' = strayed \cup Straying({Last(lru)})
        /\ pc' = [pc EXCEPT ![w] = "evict"]
    BY <1>2 DEF Missed
  <2>2. Len(lru) # 0 BY <1>0, <1>2
  <2>3. Front(lru) \in Seq(Entry) /\ Len(Front(lru)) = Len(lru) - 1
    BY <1>0, <2>2, FrontIsShorter
  <2>4. lru' \in Seq(Entry) /\ Len(lru') = Len(lru) - 1 + 1 BY <2>1, <2>3, PutInFront
  <2>5. ToSet(lru') = {e} \cup ToSet(Front(lru)) BY <2>1, <2>3, FrontElements
  <2>6. /\ ToSet(Front(lru)) \subseteq ToSet(lru) /\ Last(lru) \in ToSet(lru)
        /\ ToSet(lru) \subseteq ToSet(Front(lru)) \cup {Last(lru)}
    BY <1>0, <2>2, LastElement
  <2>7. Straying({Last(lru)}) \subseteq Straying(ToSet(lru)) BY <2>6 DEF Straying
  <2>8. Len(lru') <= Capacity BY <1>0, <2>4
  <2>9. \A f \in ToSet(lru) : f \in ToSet(lru') \/ Straying({f}) \subseteq strayed'
    BY <2>1, <2>5, <2>6
  <2> QED BY <2>1, <2>4, <2>5, <2>6, <2>7, <2>8, <2>9
<1> QED BY <1>1, <1>2

\* Directories that stray are directories.
LEMMA StrayingDirectories ==
    ASSUME TypeInv, NEW E \in SUBSET Entry
    PROVE  Straying(E) \subseteq Directory
<1> SUFFICES ASSUME NEW e \in E, Creating(e) PROVE entries[e].directory \in Directory
  BY DEF Straying
<1>1. Held(e) BY DEF Creating, Held
<1>2. entries[e] # None BY <1>1 DEF TypeInv, EntryInv
<1> QED BY <1>2, EntryHasDirectory

\* A miss puts an entry of its own in the cache, where its directory had none.
LEMMA MissKeeps ==
    ASSUME Inv, NEW w \in Worker, Miss(w)
    PROVE  Inv'
<1>0. TypeInv /\ Types /\ OneEntry /\ CreatesCached /\ WritersLock /\ AtEnd
  BY DEF Inv, TypeInv, CacheInv
<1>1. pc[w] = "get" /\ dir[w] \in Directory /\ Cached(dir[w]) = {} /\ updateCache = None
  BY <1>0 DEF Miss, TypeInv, WorkerInv
<1>2. PICK e \in Entry : Missed(w, e) BY MissTakesAFreeEntry
<1>3. /\ entries[e] = None
      /\ entries' = [entries EXCEPT ![e] =
            [directory |-> dir[w], loaded |-> {}, writing |-> None]]
      /\ entry' = [entry EXCEPT ![w] = e]
      /\ UNCHANGED <<containersUpdate, writeContainerUpdate, write, fd, tar, wants, dir, cont,
                     clearing, operations>>
  BY <1>2 DEF Missed
<1>4. /\ lru' \in Seq(Entry) /\ Len(lru') <= Capacity
      /\ e \in ToSet(lru') /\ ToSet(lru') \subseteq {e} \cup ToSet(lru)
      /\ strayed \subseteq strayed' /\ strayed' \subseteq strayed \cup Straying(ToSet(lru))
      /\ \A f \in ToSet(lru) : f \in ToSet(lru') \/ Straying({f}) \subseteq strayed'
  BY <1>0, <1>2, MissedCache
<1>5. \/ UNCHANGED <<updateCache, victim>> /\ pc' = [pc EXCEPT ![w] = FirstStep(w)]
      \/ \E f \in ToSet(lru) :
            /\ updateCache' = w /\ victim' = [victim EXCEPT ![w] = f]
            /\ pc' = [pc EXCEPT ![w] = "evict"]
  BY <1>0, <1>2, MissedCache
<1>6. FirstStep(w) \in {"ensure", "walk"} /\ (FirstStep(w) = "ensure" => wants[w] = "create")
  BY DEF FirstStep
<1>7. ToSet(lru) \subseteq Entry BY <1>0, CacheHasEntries
<1>8. e # None /\ ~Held(e) /\ \A c \in Container : fd[e][c] = None
  BY <1>0, <1>3, NoneIsNothing DEF TypeInv, EntryInv
<1>9. \A f \in Entry \ {e} : entries'[f] = entries[f] BY <1>0, <1>3 DEF Types
<1>10. /\ entries'[e] \in CacheEntry /\ entries'[e] # None /\ entries'[e].directory = dir[w]
       /\ entries'[e].loaded = {} /\ entries'[e].writing = None
  <2>1. entries'[e] = [directory |-> dir[w], loaded |-> {}, writing |-> None]
    BY <1>0, <1>3 DEF Types
  <2> QED BY <1>1, <2>1, NoneIsNothing DEF CacheEntry
<1>11. entry'[w] = e /\ \A v \in Worker \ {w} : entry'[v] = entry[v] BY <1>0, <1>3 DEF Types
<1>12. /\ pc'[w] \in {"ensure", "walk", "evict"} /\ (pc'[w] = "ensure" => wants[w] = "create")
       /\ \A p \in Process \ {w} : pc'[p] = pc[p]
       /\ pc' \in [Process -> PC] /\ victim' \in [Process -> Entry \cup {None}]
       /\ updateCache' \in Worker \cup {None}
  BY <1>0, <1>5, <1>6, <1>7, WorkerInProcess DEF Types, PC, WithEntry
<1>13. Victims'
  <2>1. CASE UNCHANGED victim /\ pc' = [pc EXCEPT ![w] = FirstStep(w)]
    BY <1>0, <1>1, <1>6, <2>1, WorkerInProcess DEF TypeInv, Types, Victims
  <2>2. ASSUME NEW f \in ToSet(lru), victim' = [victim EXCEPT ![w] = f],
               pc' = [pc EXCEPT ![w] = "evict"]
        PROVE  Victims'
    <3>1. f # None BY <1>7, NoneIsNothing
    <3> QED BY <1>0, <2>2, <3>1, WorkerInProcess DEF TypeInv, Types, Victims
  <2> QED BY <1>5, <2>1, <2>2
<1>14. Types'
  <2>1. entries' \in [Entry -> CacheEntry \cup {None}] BY <1>0, <1>3, <1>9, <1>10 DEF Types
  <2>2. strayed' \subseteq Directory BY <1>0, <1>4, <1>7, StrayingDirectories DEF Types
  <2>3. entry' \in [Worker -> Entry \cup {None}] BY <1>0, <1>3 DEF Types
  <2>4. pc'[Closer] = pc[Closer] BY <1>12, WorkerInProcess
  <2> QED BY <1>0, <1>3, <1>4, <1>12, <2>1, <2>2, <2>3, <2>4 DEF Types
<1>15. ASSUME NEW f \in Entry PROVE EntryInv(f)'
  <2>1. CASE f = e BY <1>3, <1>8, <1>10, <2>1, NoneIsNothing DEF EntryInv
  <2>2. CASE f # e
    <3>1. Held(f)' => Held(f)
      <4>1. f \in ToSet(lru') => f \in ToSet(lru) BY <1>4, <2>2
      <4>2. \A p \in Process : victim'[p] = f => victim[p] = f \/ f \in ToSet(lru)
        BY <1>0, <1>5, <1>7 DEF Types
      <4>3. \A v \in Worker : entry'[v] = f => entry[v] = f BY <1>11, <2>2
      <4> QED BY <4>1, <4>2, <4>3 DEF Held
    <3> QED BY <1>0, <1>3, <1>9, <2>2, <3>1 DEF TypeInv, EntryInv
  <2> QED BY <2>1, <2>2
<1>16. ASSUME NEW v \in Worker PROVE WorkerInv(v)'
  <2>1. CASE v = w
    BY <1>1, <1>3, <1>8, <1>10, <1>11, <1>12, <2>1 DEF WorkerInv, WithEntry, OnlyCreates
  <2>2. CASE v # w
    <3>1. entry[v] # None => entry[v] \in Entry \ {e}
      BY <1>0, <1>8 DEF Held, Types
    <3> QED BY <1>0, <1>3, <1>9, <1>11, <1>12, <2>2, <3>1, WorkerInProcess DEF TypeInv, WorkerInv
  <2> QED BY <2>1, <2>2
<1>17. TypeInv' BY <1>13, <1>14, <1>15, <1>16 DEF TypeInv
<1>18. ASSUME NEW f \in ToSet(lru), f # e
       PROVE  /\ entries'[f] = entries[f] /\ entries[f].directory # dir[w]
              /\ entries[f] # None /\ f \in Entry
  <2>1. f \in Entry /\ Held(f) BY <1>7 DEF Held
  <2>2. entries[f].directory # dir[w] BY <1>1 DEF Cached
  <2> QED BY <1>0, <1>9, <1>18, <2>1, <2>2 DEF TypeInv, EntryInv
<1>19. OneEntry' BY <1>0, <1>4, <1>10, <1>18 DEF OneEntry
<1>20. AtEnd'
  <2> SUFFICES ASSUME NEW f \in ToSet(lru'), NEW c \in Container,
                      entries'[f].directory \notin strayed', fd'[f][c] # None
               PROVE  fd'[f][c] = Len(tar'[entries'[f].directory][c])
    BY DEF AtEnd
  <2>1. f # e BY <1>3, <1>8
  <2>2. f \in ToSet(lru) /\ entries'[f] = entries[f] BY <1>4, <1>18, <2>1
  <2> QED BY <1>0, <1>3, <1>4, <2>2 DEF AtEnd
<1>21. CreatesCached'
  <2> SUFFICES ASSUME NEW v \in Worker, wants'[v] = "create", entry'[v] # None,
                      dir'[v] \notin strayed'
               PROVE  entry'[v] \in ToSet(lru')
    BY DEF CreatesCached
  <2>1. CASE v = w BY <1>4, <1>11, <2>1
  <2>2. CASE v # w
    <3>1. /\ wants[v] = "create" /\ entry[v] # None /\ dir[v] \notin strayed /\ entry'[v] = entry[v]
          /\ dir[v] \notin strayed'
      BY <1>3, <1>4, <1>11, <2>2
    <3>2. entry[v] \in ToSet(lru) /\ entries[entry[v]].directory = dir[v]
      BY <1>0, <3>1 DEF CreatesCached, TypeInv, WorkerInv
    <3>3. dir[v] \in Straying({entry[v]}) BY <3>1, <3>2 DEF Straying, Creating
    <3> QED BY <1>4, <3>1, <3>2, <3>3
  <2> QED BY <2>1, <2>2
<1>22. WritersLock'
  <2>1. \A v \in Worker : pc'[v] = "record" =>
           pc[v] = "record" /\ entry'[v] = entry[v] /\ cont'[v] = cont[v]
    BY <1>3, <1>11, <1>12, WorkerInProcess
  <2> QED BY <1>0, <1>3, <2>1, WritersStay
<1> QED BY <1>17, <1>19, <1>20, <1>21, <1>22 DEF Inv, CacheInv

\* A step of a process that leaves all entries, tars and requests alone, and
\* does not begin to write.
LEMMA PassingKeeps ==
    ASSUME Inv, NEW p \in Process, Types', Victims',
           UNCHANGED <<lru, write, entries, fd, tar, wants, dir, entry, strayed>>,
           \A q \in Process \ {p} : pc'[q] = pc[q],
           \A v \in Worker \ {p} : cont'[v] = cont[v],
           \A e \in Entry : Held(e)' => Held(e),
           p \in Worker => WorkerInv(p)' /\ pc'[p] # "record"
    PROVE  Inv'
<1>0. TypeInv /\ OneEntry /\ CreatesCached /\ WritersLock /\ AtEnd BY DEF Inv, CacheInv
<1>1. Keeps BY <1>0, SameIsKeeping DEF SameTars
<1>2. OthersStay(p) BY WorkerInProcess DEF OthersStay
<1>3. TypeInv' BY <1>0, <1>1, <1>2, KeepsEntries, KeepsWorkers DEF TypeInv
<1>4. OneEntry' /\ AtEnd' BY <1>0, <1>1, QuietCache DEF Quiet
<1>5. CreatesCached' BY <1>0 DEF CreatesCached
<1>6. WritersLock'
  <2>1. \A v \in Worker : pc'[v] = "record" =>
           pc[v] = "record" /\ entry'[v] = entry[v] /\ cont'[v] = cont[v]
    BY <1>2 DEF OthersStay
  <2> QED BY <1>0, <2>1, WritersStay
<1> QED BY <1>3, <1>4, <1>5, <1>6 DEF Inv, CacheInv

\* OnEvicted takes the mutex of the victim's containers.
LEMMA EvictKeeps ==
    ASSUME Inv, NEW p \in Process, Evict(p)
    PROVE  Inv'
<1>0. TypeInv /\ Types BY DEF Inv, TypeInv
<1>1. /\ pc[p] = "evict" /\ victim[p] \in Entry /\ pc' = [pc EXCEPT ![p] = "close"]
      /\ containersUpdate' = [containersUpdate EXCEPT ![victim[p]] = p]
      /\ UNCHANGED <<lru, updateCache, writeContainerUpdate, write, entries, fd, tar,
                     wants, dir, entry, cont, victim, clearing, operations, strayed>>
  BY <1>0, NoneIsNothing DEF Evict, TypeInv, Types, Victims
<1>2. Types' BY <1>0, <1>1, WorkerInProcess DEF Types, PC, WithEntry
<1>3. Victims' BY <1>0, <1>1 DEF TypeInv, Types, Victims
<1>4. p \in Worker => WorkerInv(p)' /\ pc'[p] # "record"
  BY <1>0, <1>1 DEF TypeInv, Types, WorkerInv, WithEntry, OnlyCreates
<1>5. \A q \in Process \ {p} : pc'[q] = pc[q] BY <1>0, <1>1 DEF Types
<1>6. \A e \in Entry : Held(e)' => Held(e) BY <1>1 DEF Held
<1> QED BY <1>1, <1>2, <1>3, <1>4, <1>5, <1>6, PassingKeeps

\* ResetCache notes what is in the cache.
LEMMA ResetCacheKeeps == ASSUME Inv, ResetCache PROVE Inv'
<1>0. TypeInv /\ Types BY DEF Inv, TypeInv
<1>1. /\ pc[Closer] = "idle" /\ pc' = [pc EXCEPT ![Closer] = "clear"]
      /\ clearing' = ToSet(lru)
      /\ UNCHANGED <<lru, mutexes, entries, fd, tar, wants, dir, entry, cont, victim,
                     operations, strayed>>
  BY DEF ResetCache
<1>2. ToSet(lru) \subseteq Entry BY <1>0, CacheHasEntries
<1>3. Types' BY <1>0, <1>1, <1>2, WorkerInProcess DEF Types, PC, mutexes
<1>4. Victims' BY <1>0, <1>1 DEF TypeInv, Types, Victims
<1>5. \A q \in Process \ {Closer} : pc'[q] = pc[q] BY <1>0, <1>1 DEF Types
<1>6. \A e \in Entry : Held(e)' => Held(e) BY <1>1 DEF Held
<1> QED BY <1>1, <1>3, <1>4, <1>5, <1>6, WorkerInProcess, PassingKeeps DEF mutexes

\* The closer takes up an entry of the cache.
LEMMA ClearNextKeeps ==
    ASSUME Inv, NEW e \in Entry, ClearNext(e)
    PROVE  Inv'
<1>0. TypeInv /\ Types BY DEF Inv, TypeInv
<1>1. /\ pc[Closer] = "clear" /\ e \in ToSet(lru) /\ pc' = [pc EXCEPT ![Closer] = "evict"]
      /\ victim' = [victim EXCEPT ![Closer] = e] /\ clearing' = clearing \ {e}
      /\ UNCHANGED <<lru, mutexes, entries, fd, tar, wants, dir, entry, cont,
                     operations, strayed>>
  BY DEF ClearNext
<1>2. Types' BY <1>0, <1>1, WorkerInProcess DEF Types, PC, WithEntry, mutexes
<1>3. Victims' BY <1>0, <1>1, NoneIsNothing DEF TypeInv, Types, Victims
<1>4. \A q \in Process \ {Closer} : pc'[q] = pc[q] BY <1>0, <1>1 DEF Types
<1>5. \A f \in Entry : Held(f)' => Held(f) BY <1>0, <1>1 DEF Held, Types
<1> QED BY <1>1, <1>2, <1>3, <1>4, <1>5, WorkerInProcess, PassingKeeps DEF mutexes

\* The end of an eviction: the write container of the victim is closed, and the
\* victim let go.  The cache may lose entries that stray.
LEMMA ClosingKeeps ==
    ASSUME Inv, NEW p \in Process, NEW fds \in Offsets, Collect(entries, fds),
           Types', Victims',
           \A e \in Entry, c \in Container : fds[e][c] = None \/ fds[e][c] = fd[e][c],
           UNCHANGED <<write, tar, wants, dir, entry, cont>>,
           ToSet(lru') \subseteq ToSet(lru), strayed \subseteq strayed',
           \A e \in ToSet(lru) : e \in ToSet(lru') \/ Straying({e}) \subseteq strayed',
           \A q \in Process \ {p} : pc'[q] = pc[q],
           \A q \in Process : victim'[q] = victim[q] \/ victim'[q] = None,
           p \in Worker => /\ pc[p] = "close" /\ pc'[p] = FirstStep(p)
    PROVE  Inv'
<1>0. TypeInv /\ Types /\ OneEntry /\ CreatesCached /\ WritersLock /\ AtEnd
  BY DEF Inv, TypeInv, CacheInv
<1>1. \A e \in Entry : Held(e)' => Held(e) BY NoneIsNothing DEF Held
<1>2. entries \in [Entry -> CacheEntry \cup {None}] BY <1>0 DEF Types
<1>3. \A e \in Entry : entries[e] # None => \A c \in entries[e].loaded : c \in entries[e].loaded
  OBVIOUS
<1>4. SameTars BY DEF SameTars
<1>5. Keeps BY <1>0, <1>1, <1>2, <1>3, <1>4, CollectIsKeeping
<1>6. OthersStay(p) BY WorkerInProcess DEF OthersStay
<1>7. ASSUME p \in Worker PROVE WorkerInv(p)' /\ pc'[p] # "record"
  <2>1. pc[p] = "close" /\ pc'[p] = FirstStep(p) /\ WorkerInv(p) BY <1>0, <1>7 DEF TypeInv
  <2>2. FirstStep(p) \in {"ensure", "walk"} /\ (FirstStep(p) = "ensure" => wants[p] = "create")
    BY DEF FirstStep
  <2>3. entries'[entry[p]].directory = entries[entry[p]].directory
    <3>1. PICK e \in Entry : e = entry[p] BY <1>0, <1>7, <2>1 DEF Types, WorkerInv, WithEntry
    <3>2. Held(e)' BY <1>7, <3>1 DEF Held
    <3>3. Remains(e) /\ entries'[e] # None BY <1>5, <3>2 DEF Keeps
    <3> QED BY <3>1, <3>3 DEF Remains
  <2> QED BY <2>1, <2>2, <2>3 DEF WorkerInv, WithEntry, OnlyCreates
<1>8. TypeInv'
  BY <1>0, <1>5, <1>6, <1>7, KeepsEntries, KeepsWorkers DEF TypeInv
<1>9. OneEntry' /\ AtEnd' BY <1>0, <1>5, QuietCache DEF Quiet
<1>10. CreatesCached' BY <1>0, CreatesStay
<1>11. WritersLock'
  <2>1. \A v \in Worker : pc'[v] = "record" =>
           pc[v] = "record" /\ entry'[v] = entry[v] /\ cont'[v] = cont[v]
    BY <1>6, <1>7 DEF OthersStay
  <2> QED BY <1>0, <2>1, WritersStay
<1> QED BY <1>8, <1>9, <1>10, <1>11 DEF Inv, CacheInv

\* A victim is an entry that is used.
LEMMA VictimIsUsed ==
    ASSUME TypeInv, NEW p \in Process, pc[p] = "close"
    PROVE  victim[p] \in Entry /\ entries[victim[p]] # None
<1>1. PICK e \in Entry : e = victim[p] BY DEF TypeInv, Types, Victims
<1>2. Held(e) BY <1>1 DEF Held
<1> QED BY <1>1, <1>2 DEF TypeInv, EntryInv

\* A worker that has pushed an entry out goes on with its own.
LEMMA EvictCloseKeeps ==
    ASSUME Inv, NEW w \in Worker, EvictClose(w)
    PROVE  Inv'
<1>0. TypeInv /\ Types BY DEF Inv, TypeInv
<1>1. /\ pc[w] = "close" /\ pc' = [pc EXCEPT ![w] = FirstStep(w)]
      /\ containersUpdate' = [containersUpdate EXCEPT ![victim[w]] = None]
      /\ updateCache' = None /\ victim' = [victim EXCEPT ![w] = None]
      /\ UNCHANGED <<lru, writeContainerUpdate, write, tar, wants, dir, entry, cont, clearing,
                     operations, strayed>>
      /\ Collect(entries, Closed(victim[w])) /\ w \in Process
  BY WorkerInProcess DEF EvictClose, Goto
<1>2. PICK e \in Entry : e = victim[w] /\ entries[e] # None BY <1>0, <1>1, VictimIsUsed
<1>3. PICK fds \in Offsets : fds = Closed(victim[w])
  BY <1>0, <1>2, ClosedIsClosed
<1>4. /\ Collect(entries, fds)
      /\ \A f \in Entry, c \in Container : fds[f][c] = None \/ fds[f][c] = fd[f][c]
  BY <1>0, <1>1, <1>2, <1>3, ClosedIsClosed
<1>5. entries \in [Entry -> CacheEntry \cup {None}] BY <1>0 DEF Types
<1>6. entries' \in [Entry -> CacheEntry \cup {None}] /\ fd' \in Offsets
  BY <1>4, <1>5, CollectKeeps
<1>7. FirstStep(w) \in {"ensure", "walk"} BY DEF FirstStep
<1>8. pc'[w] = FirstStep(w) /\ \A q \in Process \ {w} : pc'[q] = pc[q] BY <1>0, <1>1 DEF Types
<1>9. Types' BY <1>0, <1>1, <1>6, <1>7, <1>8, WorkerInProcess DEF Types, PC, WithEntry
<1>10. Victims' BY <1>0, <1>1, <1>7, <1>8 DEF TypeInv, Types, Victims
<1>11. \A q \in Process : victim'[q] = victim[q] \/ victim'[q] = None BY <1>0, <1>1 DEF Types
<1> QED BY <1>1, <1>4, <1>8, <1>9, <1>10, <1>11, ClosingKeeps

\* The closer has closed an entry, which stays in the cache for now.
LEMMA ClearCloseKeeps == ASSUME Inv, ClearClose PROVE Inv'
<1>0. TypeInv /\ Types BY DEF Inv, TypeInv
<1>1. /\ pc[Closer] = "close" /\ pc' = [pc EXCEPT ![Closer] = "clear"]
      /\ containersUpdate' = [containersUpdate EXCEPT ![victim[Closer]] = None]
      /\ victim' = [victim EXCEPT ![Closer] = None]
      /\ UNCHANGED <<lru, updateCache, writeContainerUpdate, write, tar, wants, dir, entry, cont,
                     clearing, operations, strayed>>
      /\ Collect(entries, Closed(victim[Closer])) /\ Closer \in Process /\ Closer \notin Worker
  BY WorkerInProcess DEF ClearClose
<1>2. PICK e \in Entry : e = victim[Closer] /\ entries[e] # None BY <1>0, <1>1, VictimIsUsed
<1>3. PICK fds \in Offsets : fds = Closed(victim[Closer])
  BY <1>0, <1>2, ClosedIsClosed
<1>4. /\ Collect(entries, fds)
      /\ \A f \in Entry, c \in Container : fds[f][c] = None \/ fds[f][c] = fd[f][c]
  BY <1>0, <1>1, <1>2, <1>3, ClosedIsClosed
<1>5. entries \in [Entry -> CacheEntry \cup {None}] BY <1>0 DEF Types
<1>6. entries' \in [Entry -> CacheEntry \cup {None}] /\ fd' \in Offsets
  BY <1>4, <1>5, CollectKeeps
<1>7. \A q \in Process \ {Closer} : pc'[q] = pc[q] BY <1>0, <1>1 DEF Types
<1>8. Types' BY <1>0, <1>1, <1>6, WorkerInProcess DEF Types, PC, WithEntry
<1>9. Victims' BY <1>0, <1>1 DEF TypeInv, Types, Victims
<1>10. \A q \in Process : victim'[q] = victim[q] \/ victim'[q] = None BY <1>0, <1>1 DEF Types
<1> QED BY <1>1, <1>4, <1>7, <1>8, <1>9, <1>10, ClosingKeeps

\* All entries leave the cache, and the directories of those that creates have
\* stray.
LEMMA ClearedKeeps == ASSUME Inv, Cleared PROVE Inv'
<1>0. TypeInv /\ Types BY DEF Inv, TypeInv
<1>1. /\ pc[Closer] = "clear" /\ lru' = <<>> /\ clearing' = {}
      /\ pc' = [pc EXCEPT ![Closer] = "idle"]
      /\ strayed' = strayed \cup Straying(ToSet(lru))
      /\ UNCHANGED <<mutexes, tar, wants, dir, entry, cont, victim, operations>>
      /\ Collect(entries, fd) /\ Closer \in Process /\ Closer \notin Worker
  BY WorkerInProcess DEF Cleared
<1>2. lru' \in Seq(Entry) /\ Len(lru') = 0 /\ ToSet(lru') = {} BY <1>1 DEF ToSet
<1>3. entries \in [Entry -> CacheEntry \cup {None}] /\ fd \in Offsets BY <1>0 DEF Types
<1>4. entries' \in [Entry -> CacheEntry \cup {None}] /\ fd' \in Offsets
  BY <1>1, <1>3, CollectKeeps
<1>5. \A q \in Process \ {Closer} : pc'[q] = pc[q] BY <1>0, <1>1 DEF Types
<1>6. strayed' \subseteq Directory
  BY <1>0, <1>1, CacheHasEntries, StrayingDirectories DEF Types
<1>7. Types'
  BY <1>0, <1>1, <1>2, <1>4, <1>6, WorkerInProcess, CacheAssumption DEF Types, PC, mutexes
<1>8. Victims' BY <1>0, <1>1 DEF TypeInv, Types, Victims
<1>9. \A e \in ToSet(lru) : Straying({e}) \subseteq strayed' BY <1>1 DEF Straying
<1>10. UNCHANGED write BY <1>1 DEF mutexes
<1> QED BY <1>1, <1>2, <1>3, <1>5, <1>7, <1>8, <1>9, <1>10, ClosingKeeps

-----------------------------------------------------------------------------
(* The steps of ensureCacheEntryWriteContainer and of a walk.               *)

\* What a worker that has an entry has.
LEMMA WorkersEntry ==
    ASSUME TypeInv, NEW w \in Worker, pc[w] \in WithEntry
    PROVE  /\ entry[w] \in Entry /\ Held(entry[w]) /\ entries[entry[w]] # None
           /\ entries[entry[w]] \in CacheEntry
           /\ entries[entry[w]].directory = dir[w] /\ dir[w] \in Directory
<1>1. PICK e \in Entry : e = entry[w]
  BY DEF TypeInv, Types, WorkerInv
<1>2. Held(e) BY <1>1 DEF Held
<1>3. entries[e] # None BY <1>2 DEF TypeInv, EntryInv
<1>4. dir[w] \in Directory /\ entries[entry[w]].directory = dir[w]
  BY DEF TypeInv, WorkerInv, WithEntry
<1> QED BY <1>1, <1>2, <1>3, <1>4, EntryHasDirectory

\* The entry's write container will do.
LEMMA EnsuredKeeps ==
    ASSUME Inv, NEW w \in Worker, Ensured(w)
    PROVE  Inv'
<1>0. TypeInv /\ Types BY DEF Inv, TypeInv
<1>1. /\ pc[w] = "ensure" /\ pc' = [pc EXCEPT ![w] = "use"] /\ w \in Process
      /\ UNCHANGED <<lru, mutexes, entries, fd, tar, wants, dir, entry, cont, victim,
                     clearing, operations, strayed>>
  BY WorkerInProcess DEF Ensured, Goto
<1>2. Types' BY <1>0, <1>1, WorkerInProcess DEF Types, PC, WithEntry, mutexes
<1>3. Victims' BY <1>0, <1>1 DEF TypeInv, Types, Victims
<1>4. WorkerInv(w)' /\ pc'[w] # "record"
  BY <1>0, <1>1 DEF TypeInv, Types, WorkerInv, WithEntry, OnlyCreates
<1>5. \A q \in Process \ {w} : pc'[q] = pc[q] BY <1>0, <1>1 DEF Types
<1>6. \A e \in Entry : Held(e)' => Held(e) BY <1>1 DEF Held
<1> QED BY <1>1, <1>2, <1>3, <1>4, <1>5, <1>6, PassingKeeps DEF mutexes

\* A create reads which container its entry has for writing.
LEMMA UseKeeps ==
    ASSUME Inv, NEW w \in Worker, Use(w)
    PROVE  Inv'
<1>0. TypeInv /\ Types BY DEF Inv, TypeInv
<1>1. /\ pc[w] = "use" /\ pc' = [pc EXCEPT ![w] = "lock"] /\ w \in Process
      /\ entries[entry[w]].writing # None
      /\ cont' = [cont EXCEPT ![w] = entries[entry[w]].writing]
      /\ UNCHANGED <<lru, mutexes, entries, fd, tar, wants, dir, entry, victim,
                     clearing, operations, strayed>>
  BY WorkerInProcess DEF Use, Goto
<1>2. PICK e \in Entry : e = entry[w] /\ entries[e] # None /\ entries[e].directory = dir[w]
                         /\ entries[e] \in CacheEntry
  BY <1>0, <1>1, WorkersEntry DEF WithEntry
<1>3. PICK c \in Container : c = entries[e].writing BY <1>1, <1>2 DEF CacheEntry
<1>4. tar[dir[w]][c] # None BY <1>0, <1>2, <1>3 DEF TypeInv, EntryInv
<1>5. cont' = [cont EXCEPT ![w] = c] BY <1>1, <1>2, <1>3
<1>6. Types' BY <1>0, <1>1, <1>5, WorkerInProcess DEF Types, PC, WithEntry, mutexes
<1>7. Victims' BY <1>0, <1>1 DEF TypeInv, Types, Victims
<1>8. cont'[w] = c /\ \A v \in Worker \ {w} : cont'[v] = cont[v] BY <1>0, <1>5 DEF Types
<1>9. pc'[w] = "lock" /\ \A q \in Process \ {w} : pc'[q] = pc[q] BY <1>0, <1>1 DEF Types
<1>10. WorkerInv(w)' /\ pc'[w] # "record"
  BY <1>0, <1>1, <1>4, <1>8, <1>9, NoneIsNothing DEF TypeInv, WorkerInv, WithEntry, OnlyCreates
<1>11. \A f \in Entry : Held(f)' => Held(f) BY <1>1 DEF Held
<1> QED BY <1>1, <1>6, <1>7, <1>8, <1>9, <1>10, <1>11, PassingKeeps DEF mutexes

\* A step of one worker that keeps the cache, and neither begins nor ends to
\* write.
LEMMA WorkingKeeps ==
    ASSUME Inv, NEW w \in Worker, Types', Victims', Keeps, OthersStay(w),
           WorkerInv(w)', pc'[w] # "record", UNCHANGED <<lru, write, strayed>>,
           entry'[w] # None => entry'[w] = entry[w] /\ wants'[w] = wants[w] /\ dir'[w] = dir[w]
    PROVE  Inv'
<1>0. TypeInv /\ OneEntry /\ CreatesCached /\ WritersLock /\ AtEnd BY DEF Inv, CacheInv
<1>1. TypeInv' BY <1>0, KeepsEntries, KeepsWorkers DEF TypeInv
<1>2. OneEntry' /\ AtEnd' BY <1>0, QuietCache DEF Quiet
<1>3. CreatesCached'
  <2>1. \A v \in Worker : wants'[v] = "create" /\ entry'[v] # None =>
           wants[v] = "create" /\ entry'[v] = entry[v] /\ dir'[v] = dir[v]
    BY DEF OthersStay
  <2> QED BY <1>0, <2>1, CreatesStay
<1>4. WritersLock'
  <2>1. \A v \in Worker : pc'[v] = "record" =>
           pc[v] = "record" /\ entry'[v] = entry[v] /\ cont'[v] = cont[v]
    BY DEF OthersStay
  <2> QED BY <1>0, <2>1, WritersStay
<1> QED BY <1>1, <1>2, <1>3, <1>4 DEF Inv, CacheInv

\* A worker that begins a search closes the write container of its entry.
LEMMA SearchKeeps ==
    ASSUME Inv, NEW w \in Worker, Search(w)
    PROVE  Inv'
<1>0. TypeInv /\ Types BY DEF Inv, TypeInv
<1>1. pc[w] = "ensure" BY DEF Search
<1>2. PICK e \in Entry : /\ e = entry[w] /\ Held(e) /\ entries[e] # None
                         /\ entries[e].directory = dir[w] /\ entries[e] \in CacheEntry
  BY <1>0, <1>1, WorkersEntry DEF WithEntry
<1>3. /\ pc' = [pc EXCEPT ![w] = "walk"]
      /\ writeContainerUpdate' = [writeContainerUpdate EXCEPT ![e] = w]
      /\ fd' = Closed(e) /\ entries' = [entries EXCEPT ![e].writing = None]
      /\ UNCHANGED <<lru, updateCache, containersUpdate, write, tar, wants, dir, entry,
                     cont, victim, clearing, operations, strayed>>
  BY <1>2 DEF Search, Goto
<1>4. /\ fd' \in Offsets
      /\ \A f \in Entry, c \in Container : fd'[f][c] = None \/ fd'[f][c] = fd[f][c]
  BY <1>0, <1>2, <1>3, ClosedIsClosed
<1>5. /\ entries'[e] = [entries[e] EXCEPT !.writing = None]
      /\ \A f \in Entry \ {e} : entries'[f] = entries[f]
  BY <1>0, <1>3 DEF Types
<1>6. /\ entries'[e] \in CacheEntry /\ entries'[e] # None
      /\ entries'[e].directory = entries[e].directory /\ entries'[e].loaded = entries[e].loaded
      /\ entries'[e].writing = None
  BY <1>2, <1>5, NoneIsNothing DEF CacheEntry
<1>7. entries' \in [Entry -> CacheEntry \cup {None}] BY <1>0, <1>3, <1>5, <1>6 DEF Types
<1>8. Types' BY <1>0, <1>3, <1>4, <1>7, WorkerInProcess DEF Types, PC, WithEntry
<1>9. pc'[w] = "walk" /\ \A q \in Process \ {w} : pc'[q] = pc[q]
  BY <1>0, <1>3, WorkerInProcess DEF Types
<1>10. Victims' BY <1>0, <1>1, <1>3, <1>9, WorkerInProcess DEF TypeInv, Victims
<1>11. ASSUME NEW f \in Entry
       PROVE  Remains(f) /\ (Held(f)' => Held(f) /\ entries'[f] # None)
  <2>1. Held(f)' => Held(f) BY <1>3 DEF Held
  <2>2. EntryInv(f) /\ \A c \in Container : fd'[f][c] = None \/ fd'[f][c] = fd[f][c]
    BY <1>0, <1>4 DEF TypeInv
  <2>3. CASE f = e BY <1>2, <1>6, <2>1, <2>2, <2>3, NoneIsNothing DEF Remains
  <2>4. CASE f # e
    <3>1. entries'[f] = entries[f] BY <1>5, <2>4
    <3> QED BY <2>1, <2>2, <3>1 DEF Remains, EntryInv
  <2> QED BY <2>3, <2>4
<1>12. Keeps BY <1>3, <1>11 DEF Keeps, SameTars
<1>13. OthersStay(w) BY <1>3, <1>9, WorkerInProcess DEF OthersStay
<1>14. WorkerInv(w)'
  BY <1>0, <1>1, <1>2, <1>3, <1>6, <1>9, NoneIsNothing
  DEF TypeInv, WorkerInv, WithEntry, OnlyCreates
<1> QED BY <1>3, <1>8, <1>9, <1>10, <1>12, <1>13, <1>14, WorkingKeeps

\* A worker that ends has nothing.
LEMMA Finished ==
    ASSUME TypeInv, NEW w \in Worker, pc[w] \notin {"evict", "close"}, Finish(w), UNCHANGED victim
    PROVE  /\ pc' \in [Process -> PC] /\ pc'[Closer] = pc[Closer] /\ pc'[w] = "idle"
           /\ wants' \in [Worker -> {"create", "read", None}]
           /\ dir' \in [Worker -> Directory \cup {None}]
           /\ entry' \in [Worker -> Entry \cup {None}] /\ entry'[w] = None
           /\ cont' \in [Worker -> Container \cup {None}]
           /\ OthersStay(w) /\ WorkerInv(w)' /\ Victims'
           /\ UNCHANGED lru => \A e \in Entry : Held(e)' => Held(e)
<1>1. /\ pc' = [pc EXCEPT ![w] = "idle"] /\ wants' = [wants EXCEPT ![w] = None]
      /\ dir' = [dir EXCEPT ![w] = None] /\ entry' = [entry EXCEPT ![w] = None]
      /\ cont' = [cont EXCEPT ![w] = None]
  BY DEF Finish, Goto
<1>2. /\ pc' \in [Process -> PC] /\ pc'[Closer] = pc[Closer] /\ pc'[w] = "idle"
      /\ wants' \in [Worker -> {"create", "read", None}]
      /\ dir' \in [Worker -> Directory \cup {None}]
      /\ entry' \in [Worker -> Entry \cup {None}] /\ entry'[w] = None
      /\ cont' \in [Worker -> Container \cup {None}]
      /\ \A q \in Process \ {w} : pc'[q] = pc[q]
  BY <1>1, WorkerInProcess DEF TypeInv, Types, PC
<1>3. OthersStay(w) BY <1>1, <1>2, WorkerInProcess DEF TypeInv, Types, OthersStay
<1>4. WorkerInv(w)' BY <1>2 DEF WorkerInv, WithEntry, OnlyCreates
<1>5. Victims' BY <1>2, WorkerInProcess DEF TypeInv, Victims
<1>6. UNCHANGED lru => \A e \in Entry : Held(e)' => Held(e)
  <2>1. \A e \in Entry, v \in Worker : entry'[v] = e => entry[v] = e
    BY <1>2, <1>3, NoneIsNothing DEF OthersStay
  <2> QED BY <2>1 DEF Held
<1> QED BY <1>2, <1>3, <1>4, <1>5, <1>6

\* A read that finds its file in the cache ends.
LEMMA FoundAtOnceKeeps ==
    ASSUME Inv, NEW w \in Worker, FoundAtOnce(w)
    PROVE  Inv'
<1>0. TypeInv /\ Types BY DEF Inv, TypeInv
<1>1. /\ pc[w] = "walk" /\ Finish(w) /\ Collect(entries, fd)
      /\ UNCHANGED <<lru, updateCache, containersUpdate, writeContainerUpdate, write,
                     tar, victim, clearing, operations, strayed>>
  BY DEF FoundAtOnce, mutexes
<1>2. /\ pc' \in [Process -> PC] /\ pc'[Closer] = pc[Closer] /\ pc'[w] = "idle"
      /\ wants' \in [Worker -> {"create", "read", None}]
      /\ dir' \in [Worker -> Directory \cup {None}]
      /\ entry' \in [Worker -> Entry \cup {None}] /\ entry'[w] = None
      /\ cont' \in [Worker -> Container \cup {None}]
      /\ OthersStay(w) /\ WorkerInv(w)' /\ Victims'
      /\ \A e \in Entry : Held(e)' => Held(e)
  BY <1>0, <1>1, Finished
<1>3. entries \in [Entry -> CacheEntry \cup {None}] /\ fd \in Offsets BY <1>0 DEF Types
<1>4. entries' \in [Entry -> CacheEntry \cup {None}] /\ fd' \in Offsets
  BY <1>1, <1>3, CollectKeeps
<1>5. Types' BY <1>0, <1>1, <1>2, <1>4 DEF Types
<1>6. SameTars BY <1>1 DEF SameTars
<1>7. Keeps BY <1>0, <1>1, <1>2, <1>3, <1>6, CollectIsKeeping
<1> QED BY <1>1, <1>2, <1>5, <1>7, WorkingKeeps

\* A walk loads the containers that there are, and a read ends with it.
LEMMA WalkKeeps ==
    ASSUME Inv, NEW w \in Worker, Walk(w)
    PROVE  Inv'
<1>0. TypeInv /\ Types BY DEF Inv, TypeInv
<1>1. pc[w] = "walk" BY DEF Walk
<1>2. PICK e \in Entry : /\ e = entry[w] /\ Held(e) /\ entries[e] # None /\ dir[w] \in Directory
                         /\ entries[e].directory = dir[w] /\ entries[e] \in CacheEntry
  BY <1>0, <1>1, WorkersEntry DEF WithEntry
<1> DEFINE there == {c \in Container : tar[dir[w]][c] # None}
           es == [entries EXCEPT ![e].loaded = @ \cup there]
<1>3. /\ Collect(es, fd)
      /\ UNCHANGED <<lru, updateCache, containersUpdate, writeContainerUpdate, write,
                     tar, victim, clearing, operations, strayed>>
  BY <1>2 DEF Walk, mutexes
<1>4. \/ /\ wants[w] = "create" /\ pc' = [pc EXCEPT ![w] = "choose"]
         /\ UNCHANGED <<wants, dir, entry, cont>>
      \/ Finish(w)
  BY DEF Walk, Goto
<1>5. es[e] = [entries[e] EXCEPT !.loaded = @ \cup there]
      /\ \A f \in Entry \ {e} : es[f] = entries[f]
  BY <1>0 DEF Types
<1>6. there \subseteq Container OBVIOUS
<1>7. \A c \in there : tar[dir[w]][c] # None OBVIOUS
<1>8. es \in [Entry -> CacheEntry \cup {None}]
      /\ es[e] # None /\ es[e].directory = entries[e].directory
      /\ es[e].writing = entries[e].writing /\ es[e].loaded = entries[e].loaded \cup there
  <2> HIDE DEF there
  <2>1. es[e] \in CacheEntry /\ es[e].directory = entries[e].directory
        /\ es[e].writing = entries[e].writing /\ es[e].loaded = entries[e].loaded \cup there
    BY <1>2, <1>5, <1>6 DEF CacheEntry
  <2>2. es \in [Entry -> CacheEntry \cup {None}] BY <1>0, <1>5, <2>1 DEF Types
  <2> QED BY <2>1, <2>2, NoneIsNothing
<1> HIDE DEF es, there
<1>9. fd \in Offsets BY <1>0 DEF Types
<1>10. entries' \in [Entry -> CacheEntry \cup {None}] /\ fd' \in Offsets
  BY <1>3, <1>8, <1>9, CollectKeeps
<1>11. SameTars BY <1>3 DEF SameTars
<1>12. ASSUME \A f \in Entry : Held(f)' => Held(f) PROVE Keeps
  <2>1. \A f \in Entry : entries[f] # None =>
           /\ es[f] # None /\ es[f].directory = entries[f].directory
           /\ es[f].writing = entries[f].writing
           /\ \A c \in es[f].loaded :
                 c \in entries[f].loaded \/ tar'[entries[f].directory][c] # None
    <3> TAKE f \in Entry
    <3>1. CASE f = e BY <1>2, <1>3, <1>7, <1>8, <3>1
    <3>2. CASE f # e BY <1>5, <3>2
    <3> QED BY <3>1, <3>2
  <2>2. \A f \in Entry, c \in Container : fd[f][c] = None \/ fd[f][c] = fd[f][c] OBVIOUS
  <2> QED BY <1>0, <1>3, <1>8, <1>9, <1>11, <1>12, <2>1, <2>2, CollectIsKeeping
<1>13. CASE Finish(w)
  <2>1. /\ pc' \in [Process -> PC] /\ pc'[Closer] = pc[Closer] /\ pc'[w] = "idle"
        /\ wants' \in [Worker -> {"create", "read", None}]
        /\ dir' \in [Worker -> Directory \cup {None}]
        /\ entry' \in [Worker -> Entry \cup {None}] /\ entry'[w] = None
        /\ cont' \in [Worker -> Container \cup {None}]
        /\ OthersStay(w) /\ WorkerInv(w)' /\ Victims'
        /\ \A f \in Entry : Held(f)' => Held(f)
    BY <1>0, <1>1, <1>3, <1>13, Finished
  <2>2. Types' BY <1>0, <1>3, <1>10, <2>1 DEF Types
  <2> QED BY <1>3, <1>12, <2>1, <2>2, WorkingKeeps
<1>14. CASE /\ wants[w] = "create" /\ pc' = [pc EXCEPT ![w] = "choose"]
            /\ UNCHANGED <<wants, dir, entry, cont>>
  <2>1. pc'[w] = "choose" /\ \A q \in Process \ {w} : pc'[q] = pc[q]
    BY <1>0, <1>14, WorkerInProcess DEF Types
  <2>2. Types' BY <1>0, <1>3, <1>10, <1>14, WorkerInProcess DEF Types, PC, WithEntry
  <2>3. Victims' BY <1>0, <1>1, <1>3, <2>1 DEF TypeInv, Victims
  <2>4. \A f \in Entry : Held(f)' => Held(f) BY <1>3, <1>14 DEF Held
  <2>5. Keeps BY <1>12, <2>4
  <2>6. OthersStay(w) BY <1>14, <2>1, WorkerInProcess DEF OthersStay
  <2>7. entries'[e].directory = dir[w]
    <3>1. Held(e)' BY <1>2, <1>14 DEF Held
    <3>2. entries'[e] = es[e] BY <1>3, <1>8, <1>9, <3>1, CollectKeeps
    <3> QED BY <1>2, <1>8, <3>2
  <2>8. WorkerInv(w)'
    BY <1>0, <1>1, <1>2, <1>14, <2>1, <2>7, NoneIsNothing
    DEF TypeInv, WorkerInv, WithEntry, OnlyCreates
  <2> QED BY <1>3, <1>14, <2>1, <2>2, <2>3, <2>5, <2>6, <2>8, WorkingKeeps
<1> QED BY <1>4, <1>13, <1>14

\* A container that has a tar is set for writing.
LEMMA ChosenKeeps ==
    ASSUME Inv, NEW w \in Worker, NEW c \in Container, pc[w] = "choose", Chosen(w, c),
           tar' \in [Directory -> [Container -> Seq(Worker) \cup {None}]], SameTars,
           tar'[dir[w]][c] # None,
           UNCHANGED <<lru, updateCache, containersUpdate, write, fd,
                       wants, dir, entry, cont, victim, clearing, operations, strayed>>
    PROVE  Inv'
<1>0. TypeInv /\ Types BY DEF Inv, TypeInv
<1>1. PICK e \in Entry : /\ e = entry[w] /\ Held(e) /\ entries[e] # None /\ dir[w] \in Directory
                         /\ entries[e].directory = dir[w] /\ entries[e] \in CacheEntry
  BY <1>0, WorkersEntry DEF WithEntry
<1>2. /\ entries' = [entries EXCEPT ![e].loaded = @ \cup {c}, ![e].writing = c]
      /\ writeContainerUpdate' = [writeContainerUpdate EXCEPT ![e] = None]
      /\ pc' = [pc EXCEPT ![w] = "use"]
  BY <1>1 DEF Chosen, Goto
<1>3. entries'[e] = [entries[e] EXCEPT !.loaded = @ \cup {c}, !.writing = c]
      /\ \A f \in Entry \ {e} : entries'[f] = entries[f]
  BY <1>0, <1>2 DEF Types
<1>4. /\ entries'[e] \in CacheEntry /\ entries'[e] # None
      /\ entries'[e].directory = dir[w] /\ entries'[e].writing = c
      /\ entries'[e].loaded = entries[e].loaded \cup {c}
  <2>1. entries[e].loaded \cup {c} \subseteq Container BY <1>1 DEF CacheEntry
  <2>2. entries'[e] = [directory |-> entries[e].directory,
                       loaded |-> entries[e].loaded \cup {c}, writing |-> c]
    BY <1>1, <1>3 DEF CacheEntry
  <2>3. [directory |-> entries[e].directory,
         loaded |-> entries[e].loaded \cup {c}, writing |-> c] \in CacheEntry
    BY <1>1, <2>1 DEF CacheEntry
  <2>4. entries'[e].loaded = entries[e].loaded \cup {c} BY <2>2
  <2>5. entries'[e].directory = dir[w] /\ entries'[e].writing = c BY <1>1, <2>2
  <2>6. entries'[e] \in CacheEntry /\ entries'[e] # None BY <2>2, <2>3, NoneIsNothing
  <2> QED BY <2>4, <2>5, <2>6
<1>5. entries' \in [Entry -> CacheEntry \cup {None}] BY <1>0, <1>2, <1>3, <1>4 DEF Types
<1>6. Types' BY <1>0, <1>2, <1>5, WorkerInProcess DEF Types, PC, WithEntry
<1>7. pc'[w] = "use" /\ \A q \in Process \ {w} : pc'[q] = pc[q]
  BY <1>0, <1>2, WorkerInProcess DEF Types
<1>8. Victims' BY <1>0, <1>7 DEF TypeInv, Victims
<1>9. ASSUME NEW f \in Entry
      PROVE  Remains(f) /\ (Held(f)' => Held(f) /\ entries'[f] # None)
  <2>1. Held(f)' => Held(f) BY DEF Held
  <2>2. EntryInv(f) BY <1>0 DEF TypeInv
  <2>3. CASE f = e BY <1>1, <1>4, <2>1, <2>3 DEF Remains
  <2>4. CASE f # e
    <3>1. entries'[f] = entries[f] BY <1>3, <2>4
    <3> QED BY <2>1, <2>2, <3>1 DEF Remains, EntryInv
  <2> QED BY <2>3, <2>4
<1>10. Keeps BY <1>9 DEF Keeps
<1>11. OthersStay(w) BY <1>7, WorkerInProcess DEF OthersStay
<1>12. WorkerInv(w)'
  BY <1>0, <1>1, <1>4, <1>7, NoneIsNothing DEF TypeInv, WorkerInv, WithEntry, OnlyCreates
<1> QED BY <1>6, <1>7, <1>8, <1>10, <1>11, <1>12, WorkingKeeps

\* The worker chooses a container that its entry knows.
LEMMA ChooseKeeps ==
    ASSUME Inv, NEW w \in Worker, Choose(w)
    PROVE  Inv'
<1>0. TypeInv /\ Types /\ pc[w] = "choose" BY DEF Inv, TypeInv, Choose
<1>1. PICK c \in entries[entry[w]].loaded : Chosen(w, c) BY DEF Choose
<1>2. PICK e \in Entry : /\ e = entry[w] /\ entries[e] # None
                         /\ entries[e].directory = dir[w]
  BY <1>0, WorkersEntry DEF WithEntry
<1>3. c \in Container BY <1>0, <1>1, <1>2, EntryHasDirectory
<1>4. tar[dir[w]][c] # None BY <1>0, <1>1, <1>2, <1>3 DEF TypeInv, EntryInv
<1>5. UNCHANGED <<lru, updateCache, containersUpdate, write, fd, tar,
                  wants, dir, entry, cont, victim, clearing, operations, strayed>>
  BY DEF Choose
<1>6. SameTars /\ tar' \in [Directory -> [Container -> Seq(Worker) \cup {None}]]
  BY <1>0, <1>5 DEF SameTars, Types
<1> QED BY <1>0, <1>1, <1>3, <1>4, <1>5, <1>6, ChosenKeeps

\* The worker makes a container, unless somebody else has made it.
LEMMA MakeKeeps ==
    ASSUME Inv, NEW w \in Worker, Make(w)
    PROVE  Inv'
<1>0. TypeInv /\ Types /\ pc[w] = "choose" BY DEF Inv, TypeInv, Make
<1>1. PICK c \in Container :
         /\ tar' = [tar EXCEPT ![dir[w]][c] = IF @ = None THEN <<>> ELSE @]
         /\ Chosen(w, c)
  BY DEF Make
<1>2. PICK d \in Directory : d = dir[w] BY <1>0 DEF TypeInv, WorkerInv
<1>3. UNCHANGED <<lru, updateCache, containersUpdate, write, fd,
                  wants, dir, entry, cont, victim, clearing, operations, strayed>>
  BY DEF Make
<1>4. PICK t \in Seq(Worker) : t = IF tar[d][c] = None THEN <<>> ELSE tar[d][c]
  <2>1. <<>> \in Seq(Worker) OBVIOUS
  <2>2. tar[d][c] = None \/ tar[d][c] \in Seq(Worker) BY <1>0 DEF Types
  <2>3. (IF tar[d][c] = None THEN <<>> ELSE tar[d][c]) \in Seq(Worker) BY <2>1, <2>2
  <2> QED BY <2>3
<1>5. tar' = [tar EXCEPT ![d][c] = t] BY <1>1, <1>2, <1>4
<1>6. tar' \in [Directory -> [Container -> Seq(Worker) \cup {None}]] /\ tar'[d][c] = t
  BY <1>0, <1>5 DEF Types
<1>7. SameTars BY <1>0, <1>4, <1>5 DEF SameTars, Types
<1>8. t # None BY NoneIsNothing
<1> QED BY <1>0, <1>1, <1>2, <1>3, <1>6, <1>7, <1>8, ChosenKeeps

-----------------------------------------------------------------------------
(* The steps of CreateRegularFile.                                          *)

\* The offsets of an entry's descriptor and the tars of its directory change
\* together where the cache's entry of a directory writes.
LEMMA WritingKeeps ==
    ASSUME TypeInv, OneEntry, AtEnd, NEW w \in Worker, NEW e \in Entry, NEW c \in Container,
           entries[e] # None, entries[e].directory \notin strayed => e \in ToSet(lru),
           UNCHANGED <<lru, strayed>>,
           \A f \in ToSet(lru) : entries'[f] = entries[f],
           \A f \in ToSet(lru), k \in Container : <<f, k>> # <<e, c>> =>
              fd'[f][k] = None \/ fd'[f][k] = fd[f][k],
           \A d \in Directory, k \in Container : <<d, k>> # <<entries[e].directory, c>> =>
              tar'[d][k] = tar[d][k],
           entries[e].directory \notin strayed =>
              fd'[e][c] = None \/ fd'[e][c] = Len(tar'[entries[e].directory][c])
    PROVE  OneEntry' /\ AtEnd'
<1>1. OneEntry' BY DEF OneEntry
<1>2. ASSUME NEW f \in ToSet(lru'), NEW k \in Container,
             entries'[f].directory \notin strayed', fd'[f][k] # None
      PROVE  fd'[f][k] = Len(tar'[entries'[f].directory][k])
  <2>1. f \in ToSet(lru) /\ f \in Entry /\ entries'[f] = entries[f]
        /\ entries[f].directory \notin strayed
    BY <1>2, CacheHasEntries DEF TypeInv
  <2>2. entries[f] # None /\ entries[f].directory \in Directory
    <3>1. Held(f) BY <2>1 DEF Held
    <3> QED BY <2>1, <3>1, EntryHasDirectory DEF TypeInv, EntryInv
  <2>3. CASE f = e /\ k = c BY <1>2, <2>1, <2>3
  <2>4. CASE ~(f = e /\ k = c)
    <3>1. <<f, k>> # <<e, c>> BY <2>4
    <3>2. fd'[f][k] = fd[f][k] BY <1>2, <2>1, <3>1
    <3>3. fd[f][k] = Len(tar[entries[f].directory][k]) BY <1>2, <2>1, <3>2 DEF AtEnd
    <3>4. <<entries[f].directory, k>> # <<entries[e].directory, c>>
      <4> SUFFICES ASSUME entries[f].directory = entries[e].directory, k = c PROVE FALSE
        OBVIOUS
      <4>1. e \in ToSet(lru) BY <2>1
      <4>2. f = e BY <2>1, <4>1 DEF OneEntry
      <4> QED BY <2>4, <4>2
    <3> QED BY <2>1, <2>2, <3>2, <3>3, <3>4
  <2> QED BY <2>3, <2>4
<1> QED BY <1>1, <1>2 DEF AtEnd

\* A create whose directory has not strayed has the cache's entry.
LEMMA CreatorsEntry ==
    ASSUME TypeInv, CreatesCached, NEW w \in Worker, pc[w] \in {"lock", "record"}
    PROVE  /\ cont[w] \in Container /\ tar[dir[w]][cont[w]] \in Seq(Worker)
           /\ dir[w] \notin strayed => entry[w] \in ToSet(lru)
<1>1. cont[w] \in Container /\ tar[dir[w]][cont[w]] # None /\ dir[w] \in Directory
  BY DEF TypeInv, Types, WorkerInv
<1>2. wants[w] = "create" /\ entry[w] # None
  BY DEF TypeInv, WorkerInv, WithEntry, OnlyCreates
<1> QED BY <1>1, <1>2 DEF CreatesCached, TypeInv, Types

\* A writer has the mutex of its container and a descriptor, which is at the end
\* if it is new.
LEMMA LockAndOpenKeeps ==
    ASSUME Inv, NEW w \in Worker, LockAndOpen(w)
    PROVE  Inv'
<1>0. TypeInv /\ Types /\ OneEntry /\ CreatesCached /\ WritersLock /\ AtEnd /\ pc[w] = "lock"
  BY DEF Inv, TypeInv, CacheInv, LockAndOpen
<1>1. PICK e \in Entry : /\ e = entry[w] /\ Held(e) /\ entries[e] # None /\ dir[w] \in Directory
                         /\ entries[e].directory = dir[w] /\ entries[e] \in CacheEntry
  BY <1>0, WorkersEntry DEF WithEntry
<1>2. PICK d \in Directory : d = dir[w] BY <1>1
<1>3. PICK c \in Container : c = cont[w] /\ tar[d][c] \in Seq(Worker) /\ tar[d][c] # None
                             /\ (d \notin strayed => e \in ToSet(lru))
  BY <1>0, <1>1, <1>2, CreatorsEntry, NoneIsNothing
<1>4. PICK n \in Nat : n = IF fd[e][c] = None THEN Len(tar[d][c]) ELSE fd[e][c]
  <2>1. Len(tar[d][c]) \in Nat BY <1>3, LenProperties
  <2>2. fd[e][c] = None \/ fd[e][c] \in Nat BY <1>0 DEF Types, Offsets
  <2>3. (IF fd[e][c] = None THEN Len(tar[d][c]) ELSE fd[e][c]) \in Nat BY <2>1, <2>2
  <2> QED BY <2>3
<1>5. /\ write[e][c] = None /\ pc' = [pc EXCEPT ![w] = "record"]
      /\ write' = [write EXCEPT ![e][c] = w] /\ fd' = [fd EXCEPT ![e][c] = n]
      /\ UNCHANGED <<lru, updateCache, containersUpdate, writeContainerUpdate, entries, tar,
                     wants, dir, entry, cont, victim, clearing, operations, strayed>>
  BY <1>1, <1>2, <1>3, <1>4 DEF LockAndOpen, Goto
<1>6. /\ fd' \in Offsets /\ fd'[e][c] = n
      /\ \A f \in Entry, k \in Container : <<f, k>> # <<e, c>> => fd'[f][k] = fd[f][k]
  BY <1>0, <1>5 DEF Types, Offsets
<1>7. /\ write' \in [Entry -> [Container -> Worker \cup {None}]] /\ write'[e][c] = w
      /\ \A f \in Entry, k \in Container : <<f, k>> # <<e, c>> => write'[f][k] = write[f][k]
  BY <1>0, <1>5 DEF Types
<1>8. pc'[w] = "record" /\ \A q \in Process \ {w} : pc'[q] = pc[q]
  BY <1>0, <1>5, WorkerInProcess DEF Types
<1>9. Types' BY <1>0, <1>5, <1>6, <1>7, WorkerInProcess DEF Types, PC, WithEntry
<1>10. Victims' BY <1>0, <1>5, <1>8 DEF TypeInv, Victims
<1>11. ASSUME NEW f \in Entry PROVE EntryInv(f)'
  <2>1. EntryInv(f) /\ (Held(f)' => Held(f)) BY <1>0, <1>5 DEF TypeInv, Held
  <2>2. CASE f = e
    <3>1. n <= Len(tar[d][c])
      <4>1. Len(tar[d][c]) \in Nat BY <1>3, LenProperties
      <4>2. fd[e][c] # None => fd[e][c] <= Len(tar[d][c]) BY <1>1, <1>2, <2>1, <2>2 DEF EntryInv
      <4> QED BY <1>4, <4>1, <4>2
    <3>2. ASSUME NEW k \in Container, fd'[e][k] # None
          PROVE  tar[d][k] # None /\ fd'[e][k] <= Len(tar[d][k])
      <4>1. CASE k = c BY <1>3, <1>6, <3>1, <4>1
      <4>2. CASE k # c
        <5>1. fd'[e][k] = fd[e][k] BY <1>6, <4>2
        <5> QED BY <1>1, <1>2, <2>1, <2>2, <3>2, <5>1 DEF EntryInv
      <4> QED BY <4>1, <4>2
    <3> QED BY <1>1, <1>2, <1>5, <2>1, <2>2, <3>2 DEF EntryInv
  <2>3. CASE f # e
    <3>1. \A k \in Container : fd'[f][k] = fd[f][k] BY <1>6, <2>3
    <3> QED BY <1>5, <2>1, <3>1 DEF EntryInv
  <2> QED BY <2>2, <2>3
<1>12. ASSUME NEW v \in Worker PROVE WorkerInv(v)'
  <2>1. WorkerInv(v) BY <1>0 DEF TypeInv
  <2>2. CASE v = w
    BY <1>0, <1>5, <1>8, <2>1, <2>2 DEF WorkerInv, WithEntry, OnlyCreates
  <2>3. CASE v # w
    <3>1. pc'[v] = pc[v] BY <1>8, <2>3, WorkerInProcess
    <3> QED BY <1>5, <2>1, <3>1 DEF WorkerInv
  <2> QED BY <2>2, <2>3
<1>13. OneEntry' /\ AtEnd'
  <2>1. d \notin strayed => n = Len(tar[d][c])
    <3> SUFFICES ASSUME d \notin strayed, fd[e][c] # None PROVE fd[e][c] = Len(tar[d][c])
      BY <1>4
    <3> QED BY <1>0, <1>1, <1>2, <1>3 DEF AtEnd
  <2>2. ToSet(lru) \subseteq Entry BY <1>0, CacheHasEntries
  <2>3. \A f \in ToSet(lru), k \in Container : <<f, k>> # <<e, c>> =>
           fd'[f][k] = None \/ fd'[f][k] = fd[f][k]
    BY <1>6, <2>2
  <2>4. \A k \in Directory, j \in Container : tar'[k][j] = tar[k][j] BY <1>5
  <2>5. fd'[e][c] = n /\ entries[e].directory = d BY <1>1, <1>2, <1>6
  <2>6. entries[e].directory \notin strayed =>
           fd'[e][c] = None \/ fd'[e][c] = Len(tar'[entries[e].directory][c])
    BY <1>5, <2>1, <2>5
  <2>7. entries[e].directory \notin strayed => e \in ToSet(lru) BY <1>3, <2>5
  <2> QED BY <1>0, <1>1, <1>5, <2>3, <2>4, <2>6, <2>7, WritingKeeps
<1>14. CreatesCached' BY <1>0, <1>5 DEF CreatesCached
<1>15. WritersLock'
  <2> SUFFICES ASSUME NEW v \in Worker, pc'[v] = "record"
               PROVE  write[entry[v]][cont[v]]' = v
    BY DEF WritersLock
  <2>1. CASE v = w BY <1>1, <1>3, <1>5, <1>7, <2>1
  <2>2. CASE v # w
    <3>1. pc[v] = "record" BY <1>8, <2>2, WorkerInProcess
    <3>2. PICK f \in Entry : f = entry[v] BY <1>0, <3>1, WorkersEntry DEF WithEntry
    <3>3. PICK k \in Container : k = cont[v] BY <1>0, <3>1, CreatorsEntry
    <3>4. write[f][k] = v BY <1>0, <3>1, <3>2, <3>3 DEF WritersLock
    <3>5. <<f, k>> # <<e, c>> BY <1>5, <3>4, NoneIsNothing
    <3>6. write'[f][k] = v BY <1>7, <3>4, <3>5
    <3> QED BY <1>5, <3>2, <3>3, <3>6
  <2> QED BY <2>1, <2>2
<1> QED BY <1>9, <1>10, <1>11, <1>12, <1>13, <1>14, <1>15 DEF Inv, TypeInv, CacheInv

\* How worker w writes a record into container c of directory d with entry e.
RecordStep(w, e, c, d) ==
    /\ e = entry[w] /\ c = cont[w] /\ d = dir[w] /\ pc[w] = "record"
    /\ entries[e] # None /\ entries[e].directory = d /\ Held(e)
    /\ tar[d][c] \in Seq(Worker) /\ tar[d][c] # None
    /\ write' = [write EXCEPT ![e][c] = None] /\ Finish(w)
    /\ UNCHANGED <<lru, updateCache, containersUpdate, writeContainerUpdate, victim,
                   clearing, operations, strayed>>
    /\ \/ fd[e][c] = None /\ tar' = tar /\ Collect(entries, fd)
       \/ /\ fd[e][c] \in Nat
          /\ tar' = [tar EXCEPT ![d][c] = Written(tar[d][c], fd[e][c], w)]
          /\ Collect(entries, [fd EXCEPT ![e][c] = fd[e][c] + 1])

\* What it makes of the tar, t, and of the descriptors, fds.
RecordEffect(w, e, c, d, t, fds) ==
    /\ e = entry[w] /\ c = cont[w] /\ d = dir[w] /\ pc[w] = "record"
    /\ entries[e] # None /\ entries[e].directory = d
    /\ d \notin strayed => e \in ToSet(lru)
    /\ write' = [write EXCEPT ![e][c] = None] /\ Finish(w) /\ Collect(entries, fds)
    /\ UNCHANGED <<lru, updateCache, containersUpdate, writeContainerUpdate, victim,
                   clearing, operations, strayed>>
    /\ tar' \in [Directory -> [Container -> Seq(Worker) \cup {None}]]
    /\ tar'[d][c] = t /\ tar[d][c] \in Seq(Worker) /\ Len(tar[d][c]) <= Len(t)
    /\ \A x \in Directory, k \in Container : <<x, k>> # <<d, c>> => tar'[x][k] = tar[x][k]
    /\ \A f \in Entry, k \in Container : <<f, k>> # <<e, c>> => fds[f][k] = fd[f][k]
    /\ fds[e][c] = None \/ fds[e][c] <= Len(t)
    /\ d \notin strayed => /\ fds[e][c] = None \/ fds[e][c] = Len(t)
                           /\ t = tar[d][c] \/ t = Append(tar[d][c], w)

\* The mutex and the descriptor that a writer has, and where its record goes.
LEMMA WriteRecordStep ==
    ASSUME TypeInv, NEW w \in Worker, WriteRecord(w)
    PROVE  \E e \in Entry, c \in Container, d \in Directory : RecordStep(w, e, c, d)
<1>1. pc[w] = "record" BY DEF WriteRecord
<1>2. PICK e \in Entry : /\ e = entry[w] /\ Held(e) /\ entries[e] # None /\ dir[w] \in Directory
                         /\ entries[e].directory = dir[w]
  BY <1>1, WorkersEntry DEF WithEntry
<1>3. PICK d \in Directory : d = dir[w] BY <1>2
<1>4. PICK c \in Container : c = cont[w] /\ tar[d][c] \in Seq(Worker) /\ tar[d][c] # None
  <2>1. tar[d][cont[w]] # None BY <1>1, <1>3 DEF TypeInv, WorkerInv
  <2>2. cont[w] \in Container BY <1>1 DEF TypeInv, Types, WorkerInv
  <2> QED BY <1>3, <2>1, <2>2 DEF TypeInv, Types
<1>5. /\ write' = [write EXCEPT ![e][c] = None] /\ Finish(w)
      /\ UNCHANGED <<lru, updateCache, containersUpdate, writeContainerUpdate, victim,
                     clearing, operations, strayed>>
      /\ tar' = IF fd[e][c] = None THEN tar
                ELSE [tar EXCEPT ![d][c] = Written(tar[d][c], fd[e][c], w)]
      /\ Collect(entries, IF fd[e][c] = None THEN fd ELSE [fd EXCEPT ![e][c] = fd[e][c] + 1])
  BY <1>2, <1>3, <1>4 DEF WriteRecord
<1>6. fd[e][c] \in Nat \cup {None} BY DEF TypeInv, Types, Offsets
<1>7. CASE fd[e][c] = None
  BY <1>1, <1>2, <1>3, <1>4, <1>5, <1>7 DEF RecordStep
<1>8. CASE fd[e][c] # None
  <2>1. /\ fd[e][c] \in Nat
        /\ tar' = [tar EXCEPT ![d][c] = Written(tar[d][c], fd[e][c], w)]
        /\ Collect(entries, [fd EXCEPT ![e][c] = fd[e][c] + 1])
    BY <1>5, <1>6, <1>8
  <2> QED BY <1>1, <1>2, <1>3, <1>4, <1>5, <2>1 DEF RecordStep
<1> QED BY <1>7, <1>8

\* What a tar becomes: no shorter, and as long as the descriptor is far.
LEMMA WrittenTar ==
    ASSUME NEW t \in Seq(Worker), NEW i \in Nat, i <= Len(t), NEW w \in Worker
    PROVE  /\ Written(t, i, w) \in Seq(Worker) /\ Len(Written(t, i, w)) \in Nat
           /\ Len(t) <= Len(Written(t, i, w)) /\ i + 1 <= Len(Written(t, i, w))
           /\ i = Len(t) => Written(t, i, w) = Append(t, w) /\ i + 1 = Len(Written(t, i, w))
<1>1. Len(t) \in Nat BY LenProperties
<1>2. CASE i < Len(t)
  <2>1. i + 1 \in 1 .. Len(t) BY <1>1, <1>2
  <2>2. [t EXCEPT ![i + 1] = w] \in Seq(Worker) /\ Len([t EXCEPT ![i + 1] = w]) = Len(t)
    <3> DEFINE j == i + 1
    <3>1. j \in 1 .. Len(t) BY <2>1
    <3> HIDE DEF j
    <3>2. [t EXCEPT ![j] = w] \in Seq(Worker) /\ Len([t EXCEPT ![j] = w]) = Len(t)
      BY <3>1, ExceptSeq
    <3> QED BY <3>2 DEF j
  <2>3. Written(t, i, w) = [t EXCEPT ![i + 1] = w] BY <1>2 DEF Written
  <2>4. Written(t, i, w) \in Seq(Worker) /\ Len(Written(t, i, w)) = Len(t) BY <2>2, <2>3
  <2>5. i + 1 <= Len(t) /\ i # Len(t) BY <1>1, <1>2
  <2> HIDE DEF Written
  <2> QED BY <1>1, <2>4, <2>5
<1>3. CASE ~(i < Len(t))
  <2>1. Written(t, i, w) = Append(t, w) /\ i = Len(t) BY <1>1, <1>3 DEF Written
  <2>2. Append(t, w) \in Seq(Worker) /\ Len(Append(t, w)) = Len(t) + 1 BY AppendProperties
  <2> QED BY <1>1, <2>1, <2>2
<1> QED BY <1>2, <1>3

\* What a write makes of the tar and the descriptor, whether the descriptor was
\* closed or not.
LEMMA WriteRecordEffect ==
    ASSUME Inv, NEW w \in Worker, WriteRecord(w)
    PROVE  \E e \in Entry, c \in Container, d \in Directory, t \in Seq(Worker), fds \in Offsets :
              RecordEffect(w, e, c, d, t, fds)
<1>0. TypeInv /\ Types /\ CreatesCached /\ AtEnd BY DEF Inv, TypeInv, CacheInv
<1>a. TypeInv BY <1>0
<1>1. PICK e \in Entry, c \in Container, d \in Directory : RecordStep(w, e, c, d)
  BY <1>a, WriteRecordStep
<1>b. /\ e = entry[w] /\ pc[w] = "record" /\ entries[e] # None /\ entries[e].directory = d
      /\ tar[d][c] \in Seq(Worker) /\ tar[d][c] # None
  BY <1>1 DEF RecordStep
<1>2. d \notin strayed => e \in ToSet(lru) BY <1>0, <1>1, CreatorsEntry DEF RecordStep
<1>3. Len(tar[d][c]) \in Nat BY <1>b, LenProperties
<1>4. CASE fd[e][c] = None /\ tar' = tar /\ Collect(entries, fd)
  <2>1. fd \in Offsets /\ tar \in [Directory -> [Container -> Seq(Worker) \cup {None}]]
    BY <1>0 DEF Types
  <2>2. fd[e][c] = None \/ fd[e][c] <= Len(tar[d][c]) BY <1>4
  <2>3. RecordEffect(w, e, c, d, tar[d][c], fd)
    BY <1>1, <1>2, <1>3, <1>4, <2>1, <2>2 DEF RecordStep, RecordEffect
  <2> QED BY <1>b, <2>1, <2>3
<1>5. CASE /\ fd[e][c] \in Nat
           /\ tar' = [tar EXCEPT ![d][c] = Written(tar[d][c], fd[e][c], w)]
           /\ Collect(entries, [fd EXCEPT ![e][c] = fd[e][c] + 1])
  <2>1. PICK i \in Nat : i = fd[e][c] BY <1>5
  <2>2. i <= Len(tar[d][c]) BY <1>0, <1>b, <2>1, NoneIsNothing DEF TypeInv, EntryInv
  <2>3. PICK t \in Seq(Worker) : t = Written(tar[d][c], i, w) BY <1>b, <2>2, WrittenTar
  <2>4. /\ Len(t) \in Nat /\ Len(tar[d][c]) <= Len(t) /\ i + 1 <= Len(t)
        /\ i = Len(tar[d][c]) => t = Append(tar[d][c], w) /\ i + 1 = Len(t)
    BY <1>b, <2>2, <2>3, WrittenTar
  <2> DEFINE fds == [fd EXCEPT ![e][c] = i + 1]
  <2>5. /\ fds \in Offsets /\ fds[e][c] = i + 1
        /\ \A f \in Entry, k \in Container : <<f, k>> # <<e, c>> => fds[f][k] = fd[f][k]
    BY <1>0, <1>1 DEF Types, Offsets
  <2>6. tar' = [tar EXCEPT ![d][c] = t] BY <1>5, <2>1, <2>3
  <2>7. /\ tar' \in [Directory -> [Container -> Seq(Worker) \cup {None}]] /\ tar'[d][c] = t
        /\ \A x \in Directory, k \in Container : <<x, k>> # <<d, c>> => tar'[x][k] = tar[x][k]
    BY <1>0, <2>6 DEF Types
  <2>8. d \notin strayed => i = Len(tar[d][c])
    BY <1>0, <1>b, <1>2, <2>1, NoneIsNothing DEF AtEnd
  <2>9. Collect(entries, fds) BY <1>5, <2>1
  <2> HIDE DEF fds
  <2>10. /\ fds[e][c] <= Len(t)
         /\ d \notin strayed => fds[e][c] = Len(t) /\ t = Append(tar[d][c], w)
    BY <2>4, <2>5, <2>8
  <2>11. RecordEffect(w, e, c, d, t, fds)
    BY <1>1, <1>2, <2>4, <2>5, <2>7, <2>9, <2>10 DEF RecordStep, RecordEffect
  <2> QED BY <2>5, <2>11
<1> QED BY <1>1, <1>4, <1>5 DEF RecordStep

\* A record is written, and the mutex let go by the worker that has it.
LEMMA WriteRecordKeeps ==
    ASSUME Inv, NEW w \in Worker, WriteRecord(w)
    PROVE  Inv'
<1>0. TypeInv /\ Types /\ OneEntry /\ CreatesCached /\ WritersLock /\ AtEnd
  BY DEF Inv, TypeInv, CacheInv
<1>a. PICK e \in Entry, c \in Container, d \in Directory, t \in Seq(Worker), fds \in Offsets :
              RecordEffect(w, e, c, d, t, fds)
  BY WriteRecordEffect
<1>1.         /\ e = entry[w] /\ c = cont[w] /\ d = dir[w] /\ pc[w] = "record"
              /\ entries[e] # None /\ entries[e].directory = d
              /\ d \notin strayed => e \in ToSet(lru)
              /\ write' = [write EXCEPT ![e][c] = None] /\ Finish(w) /\ Collect(entries, fds)
              /\ UNCHANGED <<lru, updateCache, containersUpdate, writeContainerUpdate, victim,
                             clearing, operations, strayed>>
              /\ tar' \in [Directory -> [Container -> Seq(Worker) \cup {None}]]
              /\ tar'[d][c] = t /\ tar[d][c] \in Seq(Worker) /\ Len(tar[d][c]) <= Len(t)
              /\ \A x \in Directory, k \in Container : <<x, k>> # <<d, c>> => tar'[x][k] = tar[x][k]
              /\ \A f \in Entry, k \in Container : <<f, k>> # <<e, c>> => fds[f][k] = fd[f][k]
              /\ fds[e][c] = None \/ fds[e][c] <= Len(t)
              /\ d \notin strayed => /\ fds[e][c] = None \/ fds[e][c] = Len(t)
                                     /\ t = tar[d][c] \/ t = Append(tar[d][c], w)
  BY <1>a DEF RecordEffect
<1>2. /\ pc' \in [Process -> PC] /\ pc'[Closer] = pc[Closer] /\ pc'[w] = "idle"
      /\ wants' \in [Worker -> {"create", "read", None}]
      /\ dir' \in [Worker -> Directory \cup {None}]
      /\ entry' \in [Worker -> Entry \cup {None}] /\ entry'[w] = None
      /\ cont' \in [Worker -> Container \cup {None}]
      /\ OthersStay(w) /\ WorkerInv(w)' /\ Victims'
      /\ \A f \in Entry : Held(f)' => Held(f)
  BY <1>0, <1>1, Finished
<1>3. entries \in [Entry -> CacheEntry \cup {None}] BY <1>0 DEF Types
<1>4. /\ entries' \in [Entry -> CacheEntry \cup {None}] /\ fd' \in Offsets
      /\ \A f \in Entry : Held(f)' => entries'[f] = entries[f] /\ fd'[f] = fds[f]
      /\ \A f \in Entry : ~Held(f)' => entries'[f] = None /\ \A k \in Container : fd'[f][k] = None
  BY <1>1, <1>3, CollectKeeps
<1>5. /\ write' \in [Entry -> [Container -> Worker \cup {None}]]
      /\ \A f \in Entry, k \in Container : <<f, k>> # <<e, c>> => write'[f][k] = write[f][k]
  BY <1>0, <1>1 DEF Types
<1>6. Types' BY <1>0, <1>1, <1>2, <1>4, <1>5 DEF Types
<1>7. Len(tar[d][c]) \in Nat /\ Len(t) \in Nat /\ t # None
  BY <1>1, LenProperties, NoneIsNothing
<1>8. \A x \in Directory, k \in Container : tar[x][k] # None =>
         /\ tar'[x][k] # None
         /\ \A n \in Nat : n <= Len(tar[x][k]) => n <= Len(tar'[x][k])
  <2> SUFFICES ASSUME NEW x \in Directory, NEW k \in Container, tar[x][k] # None
               PROVE  /\ tar'[x][k] # None
                      /\ \A n \in Nat : n <= Len(tar[x][k]) => n <= Len(tar'[x][k])
    OBVIOUS
  <2>1. CASE x = d /\ k = c BY <1>1, <1>7, <2>1
  <2>2. CASE ~(x = d /\ k = c)
    <3>1. <<x, k>> # <<d, c>> BY <2>2
    <3> QED BY <1>1, <3>1
  <2> QED BY <2>1, <2>2
<1>9. ASSUME NEW f \in Entry PROVE EntryInv(f)'
  <2>1. CASE ~Held(f)' BY <1>4, <2>1 DEF EntryInv
  <2>2. CASE Held(f)'
    <3>1. /\ EntryInv(f) /\ entries[f] # None /\ entries[f].directory \in Directory
          /\ entries'[f] = entries[f] /\ fd'[f] = fds[f] /\ entries[f].loaded \subseteq Container
      BY <1>0, <1>2, <1>4, <2>2, EntryHasDirectory DEF TypeInv, EntryInv
    <3>2. ASSUME NEW k \in Container, fds[f][k] # None
          PROVE  /\ tar'[entries[f].directory][k] # None
                 /\ fds[f][k] <= Len(tar'[entries[f].directory][k])
      <4>1. CASE f = e /\ k = c BY <1>1, <1>7, <3>2, <4>1
      <4>2. CASE ~(f = e /\ k = c)
        <5>1. <<f, k>> # <<e, c>> BY <4>2
        <5>2. fds[f][k] = fd[f][k] BY <1>1, <5>1
        <5>3. fd[f][k] \in Nat BY <1>0, <3>2, <5>2 DEF Types, Offsets
        <5> QED BY <1>8, <3>1, <3>2, <5>2, <5>3 DEF EntryInv
      <4> QED BY <4>1, <4>2
    <3> QED BY <1>8, <3>1, <3>2 DEF EntryInv
  <2> QED BY <2>1, <2>2
<1>10. ASSUME NEW v \in Worker PROVE WorkerInv(v)'
  <2>1. CASE v = w BY <1>2, <2>1
  <2>2. CASE v # w
    <3>1. /\ pc'[v] = pc[v] /\ wants'[v] = wants[v] /\ dir'[v] = dir[v]
          /\ entry'[v] = entry[v] /\ cont'[v] = cont[v] /\ WorkerInv(v)
      BY <1>0, <1>2, <2>2 DEF OthersStay, TypeInv
    <3>2. entry[v] # None => entries'[entry[v]].directory = entries[entry[v]].directory
      <4> SUFFICES ASSUME entry[v] # None
                   PROVE  entries'[entry[v]].directory = entries[entry[v]].directory
        OBVIOUS
      <4>1. PICK f \in Entry : f = entry[v] BY <1>0 DEF Types
      <4>2. Held(f)' BY <3>1, <4>1 DEF Held
      <4> QED BY <1>4, <4>1, <4>2
    <3>3. pc[v] \in {"lock", "record"} => tar'[dir[v]][cont[v]] # None
      <4> SUFFICES ASSUME pc[v] \in {"lock", "record"} PROVE tar'[dir[v]][cont[v]] # None
        OBVIOUS
      <4>1. dir[v] \in Directory /\ cont[v] \in Container /\ tar[dir[v]][cont[v]] # None
        BY <1>0, <3>1 DEF Types, WorkerInv
      <4> QED BY <1>8, <4>1
    <3> QED BY <3>1, <3>2, <3>3 DEF WorkerInv
  <2> QED BY <2>1, <2>2
<1>11. TypeInv' BY <1>2, <1>6, <1>9, <1>10 DEF TypeInv
<1>12. OneEntry' /\ AtEnd'
  <2>1. ToSet(lru) \subseteq Entry /\ \A f \in ToSet(lru) : Held(f)'
    BY <1>0, <1>1, CacheHasEntries DEF Held
  <2>2. \A f \in ToSet(lru) : entries'[f] = entries[f] BY <1>4, <2>1
  <2>3. \A f \in ToSet(lru), k \in Container : <<f, k>> # <<e, c>> =>
           fd'[f][k] = None \/ fd'[f][k] = fd[f][k]
    BY <1>1, <1>4, <2>1
  <2>4. d \notin strayed => fd'[e][c] = None \/ fd'[e][c] = Len(tar'[d][c])
    BY <1>1, <1>4
  <2> QED BY <1>0, <1>1, <2>2, <2>3, <2>4, WritingKeeps
<1>13. CreatesCached'
  <2>1. \A v \in Worker : wants'[v] = "create" /\ entry'[v] # None =>
           wants[v] = "create" /\ entry'[v] = entry[v] /\ dir'[v] = dir[v]
    BY <1>2 DEF OthersStay
  <2> QED BY <1>0, <1>1, <2>1, CreatesStay
<1>14. WritersLock'
  <2> SUFFICES ASSUME NEW v \in Worker, pc'[v] = "record"
               PROVE  write[entry[v]][cont[v]]' = v
    BY DEF WritersLock
  <2>1. v # w BY <1>2
  <2>2. pc[v] = "record" /\ entry'[v] = entry[v] /\ cont'[v] = cont[v]
    BY <1>2, <2>1 DEF OthersStay
  <2>3. PICK f \in Entry : f = entry[v] BY <1>0, <2>2, WorkersEntry DEF WithEntry
  <2>4. PICK k \in Container : k = cont[v] BY <1>0, <2>2, CreatorsEntry
  <2>5. write[f][k] = v /\ write[e][c] = w BY <1>0, <1>1, <2>2, <2>3, <2>4 DEF WritersLock
  <2>6. <<f, k>> # <<e, c>> BY <2>1, <2>5
  <2>7. write'[f][k] = v BY <1>5, <2>5, <2>6
  <2> QED BY <2>2, <2>3, <2>4, <2>7
<1> QED BY <1>11, <1>12, <1>13, <1>14 DEF Inv, CacheInv

-----------------------------------------------------------------------------
(* The theorems.                                                            *)

\* Every step keeps the invariant.
LEMMA NextKeeps == ASSUME Inv, [Next]_vars PROVE Inv'
<1>1. ASSUME NEW w \in Worker, WorkerStep(w) PROVE Inv'
  BY <1>1, HitKeeps, MissKeeps, EvictKeeps, EvictCloseKeeps, EnsuredKeeps, SearchKeeps,
     WalkKeeps, FoundAtOnceKeeps, ChooseKeeps, MakeKeeps, UseKeeps, LockAndOpenKeeps,
     WriteRecordKeeps, WorkerInProcess DEF WorkerStep
<1>2. ASSUME NEW w \in Worker, NEW d \in Directory, NEW what \in {"create", "read"},
             Start(w, d, what)
      PROVE  Inv'
  BY <1>2, StartKeeps
<1>3. CASE ResetCache BY <1>3, ResetCacheKeeps
<1>4. CASE CloserStep
  BY <1>4, ClearNextKeeps, EvictKeeps, ClearCloseKeeps, ClearedKeeps, WorkerInProcess
  DEF CloserStep
<1>5. CASE UNCHANGED vars
  <2>1. TypeInv'
    BY <1>5 DEF vars, mutexes, workerVars, Inv, TypeInv, Types, Victims, EntryInv, WorkerInv, Held
  <2>2. CacheInv'
    BY <1>5 DEF vars, mutexes, workerVars, Inv, CacheInv, OneEntry, CreatesCached, WritersLock, AtEnd
  <2> QED BY <2>1, <2>2 DEF Inv
<1> QED BY <1>1, <1>2, <1>3, <1>4, <1>5 DEF Next

\* A directory has one entry in the cache; that is what a create has and what is
\* open at the tar's end, unless the directory has strayed (getDirectoryCacheEntry,
\* CreateRegularFile).
THEOREM CacheInvariance == Spec => []Inv
<1>1. Init => Inv BY InitInv
<1>2. Inv /\ [Next]_vars => Inv' BY NextKeeps
<1> QED BY <1>1, <1>2, PTL DEF Spec

\* The types, the cache's limit, and descriptors within tars that exist,
\* whatever is pushed out of the cache under whom.
THEOREM CacheTypeCorrectness == Spec => []TypeOK
<1>1. Inv => TypeOK BY TypeInvIsTyping DEF Inv
<1> QED BY <1>1, CacheInvariance, PTL

\* A tar has one writer at a time, whatever is pushed out of the cache and put in
\* again, unless a create lost its entry (OnEvicted).
THEOREM TarHasOneWriter == Spec => []OneWriter
<1>1. Inv => OneWriter
  <2> SUFFICES ASSUME Inv, NEW v \in Worker, NEW w \in Worker, pc[v] = "record",
                      pc[w] = "record", dir[v] = dir[w], cont[v] = cont[w], dir[w] \notin strayed
               PROVE  v = w
    BY DEF OneWriter
  <2>0. TypeInv /\ OneEntry /\ CreatesCached /\ WritersLock BY DEF Inv, CacheInv
  <2>1. entry[v] \in ToSet(lru) /\ entry[w] \in ToSet(lru) BY <2>0, CreatorsEntry
  <2>2. entries[entry[v]].directory = dir[v] /\ entries[entry[w]].directory = dir[w]
    BY <2>0, WorkersEntry DEF WithEntry
  <2>3. entry[v] = entry[w] BY <2>0, <2>1, <2>2 DEF OneEntry
  <2> QED BY <2>0, <2>3 DEF WritersLock
<1> QED BY <1>1, CacheInvariance, PTL

\* A sequence begins with itself.
LEMMA PrefixOfItself == ASSUME NEW S, NEW s \in Seq(S) PROVE IsPrefix(s, s)
BY LenProperties DEF IsPrefix

\* What is appended to begins with what was there.
LEMMA PrefixOfAppend ==
    ASSUME NEW S, NEW s \in Seq(S), NEW x \in S
    PROVE  IsPrefix(s, Append(s, x))
<1> DEFINE t == Append(s, x)
<1>1. /\ t \in Seq(S) /\ Len(t) = Len(s) + 1 /\ Len(s) \in Nat
      /\ \A i \in 1 .. Len(s) : t[i] = s[i] /\ s[i] \in S
  BY AppendProperties, LenProperties, ElementOfSeq
<1> HIDE DEF t
<1>2. /\ SubSeq(s, 1, Len(s)) \in Seq(S)
      /\ Len(SubSeq(s, 1, Len(s))) = IF 1 <= Len(s) THEN Len(s) - 1 + 1 ELSE 0
      /\ \A i \in 1 .. Len(s) - 1 + 1 : SubSeq(s, 1, Len(s))[i] = s[1 + i - 1]
  BY <1>1, SubSeqProperties
<1>3. /\ SubSeq(t, 1, Len(s)) \in Seq(S)
      /\ Len(SubSeq(t, 1, Len(s))) = IF 1 <= Len(s) THEN Len(s) - 1 + 1 ELSE 0
      /\ \A i \in 1 .. Len(s) - 1 + 1 : SubSeq(t, 1, Len(s))[i] = t[1 + i - 1]
  <2>1. \A i \in 1 .. Len(s) : t[i] \in S BY <1>1
  <2> QED BY <1>1, <2>1, SubSeqProperties
<1>4. Len(SubSeq(s, 1, Len(s))) = Len(s) /\ Len(SubSeq(t, 1, Len(s))) = Len(s)
  BY <1>1, <1>2, <1>3
<1>5. \A i \in 1 .. Len(s) : SubSeq(s, 1, Len(s))[i] = SubSeq(t, 1, Len(s))[i]
  <2> TAKE i \in 1 .. Len(s)
  <2>1. i \in 1 .. Len(s) - 1 + 1 /\ 1 + i - 1 = i BY <1>1
  <2> QED BY <1>1, <1>2, <1>3, <2>1
<1>6. SubSeq(s, 1, Len(s)) = SubSeq(t, 1, Len(s))
  BY <1>2, <1>3, <1>4, <1>5, SeqEqual
<1>7. Len(s) <= Len(t) BY <1>1
<1> QED BY <1>6, <1>7 DEF IsPrefix, t

\* Only WriteRecord changes a tar that is there, and where the directory has not
\* strayed its descriptor is at the end.
LEMMA StepAppends ==
    ASSUME Inv, [Next]_vars, NEW d \in Directory \ strayed, NEW c \in Container, tar[d][c] # None
    PROVE  IsPrefix(tar[d][c], tar'[d][c])
<1>0. TypeInv /\ Types BY DEF Inv, TypeInv
<1>1. tar[d][c] \in Seq(Worker) BY <1>0 DEF Types
<1>2. CASE UNCHANGED tar BY <1>1, <1>2, PrefixOfItself
<1>3. ASSUME NEW w \in Worker, Make(w) PROVE tar'[d][c] = tar[d][c]
  BY <1>0, <1>3 DEF Make, Types
<1>4. ASSUME NEW w \in Worker, WriteRecord(w) PROVE IsPrefix(tar[d][c], tar'[d][c])
  <2>a. PICK e \in Entry, k \in Container, x \in Directory, t \in Seq(Worker), fds \in Offsets :
           RecordEffect(w, e, k, x, t, fds)
    BY <1>4, WriteRecordEffect
  <2>1. /\ tar'[x][k] = t
        /\ \A y \in Directory, j \in Container : <<y, j>> # <<x, k>> => tar'[y][j] = tar[y][j]
        /\ x \notin strayed => t = tar[x][k] \/ t = Append(tar[x][k], w)
    BY <2>a DEF RecordEffect
  <2>2. tar'[d][c] = tar[d][c] \/ tar'[d][c] = Append(tar[d][c], w)
    <3>1. CASE d = x /\ c = k BY <2>1, <3>1
    <3>2. CASE ~(d = x /\ c = k)
      <4>1. <<d, c>> # <<x, k>> BY <3>2
      <4> QED BY <2>1, <4>1
    <3> QED BY <3>1, <3>2
  <2> QED BY <1>1, <2>2, PrefixOfItself, PrefixOfAppend
<1>5. ASSUME NEW w \in Worker, WorkerStep(w)
      PROVE  UNCHANGED tar \/ Make(w) \/ WriteRecord(w)
  BY <1>5 DEF WorkerStep, Hit, Miss, Evict, EvictClose, Ensured, Search, Walk, FoundAtOnce,
              Choose, Use, LockAndOpen
<1>6. CloserStep \/ ResetCache => UNCHANGED tar
  BY DEF CloserStep, ClearNext, Evict, ClearClose, Cleared, ResetCache
<1>7. ASSUME NEW w \in Worker, NEW x \in Directory, NEW what \in {"create", "read"},
             Start(w, x, what)
      PROVE  UNCHANGED tar
  BY <1>7 DEF Start
<1>8. UNCHANGED vars => UNCHANGED tar BY DEF vars
<1> QED
  <2>1. UNCHANGED tar \/ \E w \in Worker : Make(w) \/ WriteRecord(w)
    BY <1>5, <1>6, <1>7, <1>8 DEF Next
  <2> QED BY <1>1, <1>2, <1>3, <1>4, <2>1, PrefixOfItself

\* A record that is in a tar stays where it is: every step appends or leaves
\* the tar alone, unless a create of the directory lost its entry (OnEvicted).
THEOREM RecordsAreKept == Spec => AppendOnly
<1> DEFINE Appends == \A d \in Directory \ strayed, c \in Container :
                         tar[d][c] # None => IsPrefix(tar[d][c], tar'[d][c])
<1>1. Inv /\ [Next]_vars => [Appends]_vars BY StepAppends
<1> QED BY <1>1, CacheInvariance, PTL DEF Spec, AppendOnly
=============================================================================
