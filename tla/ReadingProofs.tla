------------------------------ MODULE ReadingProofs ------------------------------
(***************************************************************************)
(* Proofs about Reading, for any containers, files and readers: what lies  *)
(* before lastSize is in the entries, a walk leaves all that it saw in the *)
(* cache, warm files are found, and files of the node are listed once.     *)
(***************************************************************************)
EXTENDS Reading, FiniteSetTheorems, SequenceTheorems, WellFoundedInduction, TLAPS

Visiting == {"rows", "size", "look"}
Active == {"walk", "load"} \cup Visiting
Answers == {None, "notExist", "found"} \cup [File -> Nat]
ReadType ==
    [pc : {"idle", "done"} \cup Active, want : File \cup {Dir, None}, keys : SUBSET Container,
     cont : Container \cup {0}, size : Nat, loaded : BOOLEAN,
     snap : (SUBSET Container) \X (SUBSET Container), files : [File -> Nat],
     answer : Answers, due : SUBSET File, there : BOOLEAN]

Types ==
    /\ tars \subseteq Container /\ indexes \subseteq Container
    /\ records \in [Container -> SUBSET File] /\ rows \in [Container -> Seq(File)]
    /\ behind \subseteq File
    /\ cached \in [Container -> {"no", "tar", "index"}]
    /\ entries \in [Container -> SUBSET File] /\ lastSize \in [Container -> Nat]
    /\ wpc \in {"idle", "make", "record", "size", "entry"}
    /\ wname \in Name \cup {None} /\ wcont \in Own \cup {0}
    /\ read \in [Reader -> ReadType]

\* A file of this node is in one container; the others have only copied files.
DiskInv ==
    /\ indexes \cap Own \subseteq tars
    /\ \A c \in Own : Indexed(c) \subseteq records[c] /\ records[c] \subseteq Name
    /\ \A c \in Own \ indexes : rows[c] = <<>>
    /\ \A c \in Foreign : Indexed(c) \subseteq Copied /\ records[c] \subseteq Copied
    /\ \A c, d \in Container : records[c] \cap records[d] \cap Name # {} => c = d

\* The worker has a container whose index is loaded, or that nobody has loaded.
WriterInv ==
    /\ wname = None <=> wpc = "idle"
    /\ wpc # "idle" => wcont \in Own /\ wcont \in tars
    /\ wpc = "make" => wcont \notin indexes /\ cached[wcont] = "no"
    /\ wpc \in {"record", "size", "entry"} => wcont \in indexes /\ cached[wcont] = "index"
    /\ wpc \in {"make", "record"} => \A c \in Container : wname \notin records[c]
    /\ wpc \in {"size", "entry"} => wname \in Indexed(wcont)

\* The rows before n are in the entries, but for the worker's.
Entered(c, n) == {rows[c][i] : i \in 1 .. n} \subseteq entries[c] \cup {wname}

ContainerInv(c) ==
    /\ lastSize[c] <= Len(rows[c]) /\ entries[c] \subseteq Indexed(c)
    /\ cached[c] # "no" => c \in tars \cup indexes
    /\ cached[c] = "index" => c \in indexes /\ Entered(c, lastSize[c])
    /\ c \in Own /\ cached[c] = "tar" => c \notin indexes
    /\ c \in Own /\ cached[c] = "index" =>
          \A f \in Indexed(c) : f \in entries[c] \/ (f = wname /\ wpc \in {"size", "entry"})

\* A container that the reader r has still to visit, or is visiting, where it
\* will find f.
Warm(r, c, f) ==
    /\ c \in read[r].keys /\ cached[c] = "index" /\ f \in Indexed(c)
    /\ read[r].cont = c /\ read[r].pc \in {"size", "look"} => f \in entries[c]

VisitInv(r) ==
    read[r].pc \in Visiting =>
        /\ read[r].cont \in read[r].keys /\ cached[read[r].cont] = "index"
        /\ read[r].pc \in {"rows", "size"} => read[r].size <= Len(rows[read[r].cont])
        /\ read[r].pc = "size" => Entered(read[r].cont, read[r].size)

WalkInv(r) ==
    /\ read[r].pc = "load" => read[r].keys = {} /\ ~read[r].loaded
    /\ \A c \in read[r].keys : cached[c] # "no"
    /\ read[r].snap[1] \subseteq tars /\ read[r].snap[2] \subseteq indexes
    /\ read[r].loaded =>
        /\ \A c \in read[r].snap[1] : cached[c] # "no"
        /\ \A c \in read[r].snap[2] : cached[c] = "index"

\* What is due was in an index, and is found or will be; a file of this node
\* has been listed once if its container has been visited.
ActiveInv(r) ==
    read[r].pc \in Active =>
        /\ read[r].want \in File \cup {Dir}
        /\ \A f \in read[r].due :
              /\ f # wname /\ (read[r].want \in {f, Dir}) /\ \E c \in Container : f \in Indexed(c)
              /\ (read[r].want = Dir /\ read[r].files[f] > 0) \/ \E c \in Container : Warm(r, c, f)
        /\ \A f \in Name : read[r].files[f] > 0 =>
              /\ read[r].files[f] = 1
              /\ \E c \in Container \ read[r].keys : f \in records[c] /\ cached[c] # "no"
        /\ \A f \in File : read[r].files[f] + Cardinality(read[r].keys)
                              <= Cardinality(Container) + IF read[r].loaded THEN 1 ELSE 0

DoneInv(r) ==
    /\ read[r].pc \notin Active => read[r].files = [f \in File |-> 0]
    /\ read[r].pc = "done" =>
        /\ read[r].want \in File /\ read[r].due # {} => read[r].answer = "found"
        /\ read[r].want = Dir =>
              /\ read[r].answer \in [File -> Nat]
              /\ \A f \in read[r].due : read[r].answer[f] > 0
              /\ \A f \in Name : read[r].answer[f] <= 1

ReaderInv(r) == VisitInv(r) /\ WalkInv(r) /\ ActiveInv(r) /\ DoneInv(r)

ReadingInv ==
    /\ Types /\ DiskInv /\ WriterInv
    /\ \A c \in Container : ContainerInv(c)
    /\ \A r \in Reader : ReaderInv(r)

-----------------------------------------------------------------------------
(* Numbers, and sets as sequences.                                          *)

\* A set of naturals has a least element.
LEMMA LeastNatural ==
    ASSUME NEW T \in SUBSET Nat, T # {}
    PROVE  \E x \in T : \A y \in T : x <= y
<1> DEFINE F == {0 .. n : n \in T}
<1>1. F \subseteq FiniteSubsetsOf(Nat)
  <2>1. ASSUME NEW n \in T PROVE 0 .. n \in FiniteSubsetsOf(Nat)
    <3>1. IsFiniteSet(0 .. n) BY FS_Interval
    <3>2. 0 .. n \subseteq Nat OBVIOUS
    <3> QED BY <3>1, <3>2 DEF FiniteSubsetsOf
  <2> QED BY <2>1
<1>2. \E x \in F : \A y \in F : ~(<<y, x>> \in StrictSubsetOrdering(Nat))
  <2>1. F # {} OBVIOUS
  <2>2. IsWellFoundedOn(StrictSubsetOrdering(Nat), FiniteSubsetsOf(Nat))
    BY FS_StrictSubsetOrderingWellFounded
  <2> HIDE DEF F
  <2> QED BY <1>1, <2>1, <2>2, WFMin
<1>3. PICK n \in T : \A m \in T : ~(<<0 .. m, 0 .. n>> \in StrictSubsetOrdering(Nat))
  BY <1>2
<1>4. ASSUME NEW m \in T, m < n PROVE FALSE
  <2>1. 0 .. m \subseteq 0 .. n /\ 0 .. m # 0 .. n BY <1>4
  <2>2. <<0 .. m, 0 .. n>> \in StrictSubsetOrdering(Nat)
    BY <2>1 DEF StrictSubsetOrdering
  <2> QED BY <1>3, <2>2
<1> QED BY <1>3, <1>4

\* The first container of a set is one of it.
LEMMA FirstIsElement == ASSUME NEW S \in SUBSET Nat, S # {} PROVE First(S) \in S
BY LeastNatural DEF First

\* The files of a container as the rows of its index.
LEMMA RowsOfSet ==
    ASSUME NEW S, IsFiniteSet(S)
    PROVE  /\ SetToSeq(S) \in Seq(S) /\ ToSet(SetToSeq(S)) \subseteq S
           /\ S = {} => SetToSeq(S) = <<>>
           /\ \A T : S \subseteq T => SetToSeq(S) \in Seq(T)
<1>1. Cardinality(S) \in Nat /\ ExistsBijection(1 .. Cardinality(S), S)
  BY FS_CardinalityType
<1>2. PICK b \in Bijection(1 .. Cardinality(S), S) : TRUE BY <1>1 DEF ExistsBijection
<1>3. b \in [1 .. Cardinality(S) -> S] /\ IsInjective(b)
  BY <1>2 DEF Bijection, Injection, IsInjective
<1>4. SetToSeq(S) \in [1 .. Cardinality(S) -> S]
  BY <1>3 DEF SetToSeq
<1>5. SetToSeq(S) \in Seq(S) BY <1>1, <1>4, SeqDef
<1>6. ASSUME S = {} PROVE SetToSeq(S) = <<>>
  <2>1. \A i \in DOMAIN SetToSeq(S) : SetToSeq(S)[i] \in S BY <1>4
  <2>2. Len(SetToSeq(S)) = 0 BY <1>5, <1>6, <2>1, LenProperties, EmptySeq, ElementOfSeq
  <2> QED BY <1>5, <2>2, EmptySeq
<1>7. ToSet(SetToSeq(S)) \subseteq S BY <1>4 DEF ToSet
<1>8. ASSUME NEW T, S \subseteq T PROVE SetToSeq(S) \in Seq(T)
  <2>1. SetToSeq(S) \in [1 .. Cardinality(S) -> T] BY <1>4, <1>8
  <2> QED BY <1>1, <2>1, SeqDef
<1> QED BY <1>5, <1>6, <1>7, <1>8

\* Containers are finitely many numbers, and each is the node's own or copied.
LEMMA ContainersAreNumbers ==
    /\ Container \subseteq Nat /\ Own \subseteq Nat /\ IsFiniteSet(Container)
    /\ Cardinality(Container) \in Nat
    /\ Own \cap Foreign = {}
<1>1. Own \subseteq Nat /\ Foreign \subseteq Nat /\ \A o \in Own, c \in Foreign : o < c
  BY ReadingAssumption
<1>2. IsFiniteSet(Own \cup Foreign) BY ReadingAssumption, FS_Union
<1>3. Cardinality(Own \cup Foreign) \in Nat BY <1>2, FS_CardinalityType
<1>4. Own \cap Foreign = {}
  <2>1. ASSUME NEW c \in Own \cap Foreign PROVE FALSE
    <3>1. c \in Nat /\ c < c BY <1>1
    <3> QED BY <3>1
  <2> QED BY <2>1
<1> QED BY <1>1, <1>2, <1>3, <1>4 DEF Container

-----------------------------------------------------------------------------
(* What a step does to what readers share: files, rows and entries are only *)
(* added, and cached containers stay.  A file that the worker leaves is     *)
(* entered, one that it takes up is in no index.                            *)

Grow ==
    /\ tars \subseteq tars' /\ indexes \subseteq indexes'
    /\ \A c \in Container :
          /\ records[c] \subseteq records'[c]
          /\ Len(rows[c]) <= Len(rows'[c])
          /\ \A i \in 1 .. Len(rows[c]) : rows'[c][i] = rows[c][i]
          /\ cached[c] # "no" => cached'[c] # "no"
          /\ cached[c] = "index" => cached'[c] = "index" /\ entries[c] \subseteq entries'[c]
    /\ wname' # wname =>
          \A c \in Container :
             /\ wname \in Indexed(c) /\ cached[c] = "index" => wname \in entries'[c]
             /\ wname' \notin Indexed(c)

Shared == <<diskVars, cacheVars, writerVars>>

\* The files of an index are those of its rows.
LEMMA RowsAreFiles ==
    ASSUME Types, NEW c \in Container
    PROVE  /\ rows[c] \in Seq(File) /\ Len(rows[c]) \in Nat /\ DOMAIN rows[c] = 1 .. Len(rows[c])
           /\ Indexed(c) = {rows[c][i] : i \in 1 .. Len(rows[c])}
           /\ Indexed(c) \subseteq File
           /\ lastSize[c] \in Nat
<1>1. rows[c] \in Seq(File) /\ lastSize[c] \in Nat BY DEF Types
<1>2. Len(rows[c]) \in Nat /\ DOMAIN rows[c] = 1 .. Len(rows[c]) BY <1>1, LenProperties
<1>3. \A i \in 1 .. Len(rows[c]) : rows[c][i] \in File BY <1>1, <1>2, ElementOfSeq
<1>4. Indexed(c) = {rows[c][i] : i \in 1 .. Len(rows[c])}
  BY <1>2 DEF Indexed, ToSet
<1> QED BY <1>1, <1>2, <1>3, <1>4

\* What an index has a row of it keeps.
LEMMA IndexedGrows ==
    ASSUME Types, Types', Grow, NEW c \in Container
    PROVE  Indexed(c) \subseteq Indexed(c)'
<1>1. /\ Len(rows[c]) <= Len(rows'[c]) /\ Len(rows[c]) \in Nat /\ Len(rows'[c]) \in Nat
      /\ \A i \in 1 .. Len(rows[c]) : rows'[c][i] = rows[c][i]
  BY RowsAreFiles DEF Grow, Types
<1>2. Indexed(c) = {rows[c][i] : i \in 1 .. Len(rows[c])} BY RowsAreFiles
<1>3. DOMAIN rows'[c] = 1 .. Len(rows'[c])
  <2>1. rows'[c] \in Seq(File) BY DEF Types
  <2> QED BY <2>1, LenProperties
<1>4. Indexed(c)' = {rows'[c][i] : i \in 1 .. Len(rows'[c])}
  BY <1>3 DEF Indexed, ToSet
<1> QED BY <1>1, <1>2, <1>4

\* Entries and rows only grow, and the writer leaves wname when it has entered
\* it.
LEMMA EnteredKept ==
    ASSUME Types, Grow, NEW c \in Container, cached[c] = "index",
           NEW n \in Nat, n <= Len(rows[c]), Entered(c, n)
    PROVE  {rows'[c][i] : i \in 1 .. n} \subseteq entries'[c] \cup {wname'}
<1> SUFFICES ASSUME NEW i \in 1 .. n PROVE rows'[c][i] \in entries'[c] \cup {wname'}
  OBVIOUS
<1>1. /\ Len(rows[c]) \in Nat /\ i \in 1 .. Len(rows[c])
      /\ Indexed(c) = {rows[c][k] : k \in 1 .. Len(rows[c])}
  BY RowsAreFiles
<1>2. rows'[c][i] = rows[c][i] /\ rows[c][i] \in Indexed(c) BY <1>1 DEF Grow
<1>3. rows[c][i] \in entries[c] \cup {wname} BY DEF Entered
<1>4. entries[c] \subseteq entries'[c] BY DEF Grow
<1>5. CASE rows[c][i] = wname /\ wname' # wname BY <1>2, <1>5 DEF Grow
<1> QED BY <1>2, <1>3, <1>4, <1>5

\* A container in which a waiting reader will find a file stays such a
\* container.
LEMMA WarmKept ==
    ASSUME Types, Types', Grow, NEW r \in Reader, read'[r] = read[r],
           NEW c \in Container, NEW f, Warm(r, c, f)
    PROVE  Warm(r, c, f)'
BY IndexedGrows DEF Warm, Grow

\* A reader that does not take the step.
LEMMA ReaderKept ==
    ASSUME Types, Types', Grow, NEW r \in Reader, ReaderInv(r), read'[r] = read[r]
    PROVE  ReaderInv(r)'
<1>0. read[r] \in ReadType BY DEF Types
<1>1. VisitInv(r)'
  <2> SUFFICES ASSUME read[r].pc \in Visiting
               PROVE  /\ read[r].cont \in read[r].keys /\ cached'[read[r].cont] = "index"
                      /\ read[r].pc \in {"rows", "size"} => read[r].size <= Len(rows'[read[r].cont])
                      /\ read[r].pc = "size" => Entered(read[r].cont, read[r].size)'
    BY DEF VisitInv
  <2> DEFINE c == read[r].cont
             n == read[r].size
  <2>1. /\ c \in read[r].keys /\ c \in Container /\ n \in Nat /\ cached[c] = "index"
        /\ read[r].pc \in {"rows", "size"} => n <= Len(rows[c])
        /\ read[r].pc = "size" => Entered(c, n)
    BY <1>0 DEF ReaderInv, VisitInv, ReadType
  <2>2. cached'[c] = "index" BY <2>1 DEF Grow
  <2>3. Len(rows[c]) \in Nat /\ Len(rows'[c]) \in Nat /\ Len(rows[c]) <= Len(rows'[c])
    BY <2>1, LenProperties DEF Grow, Types
  <2>4. ASSUME read[r].pc = "size"
        PROVE  {rows'[c][i] : i \in 1 .. n} \subseteq entries'[c] \cup {wname'}
    <3> HIDE DEF c, n
    <3> QED BY <2>1, <2>4, EnteredKept
  <2> QED BY <2>1, <2>2, <2>3, <2>4 DEF Entered
<1>2. WalkInv(r)' BY <1>0 DEF ReaderInv, WalkInv, Grow, ReadType
<1>3. ActiveInv(r)'
  <2> SUFFICES ASSUME read[r].pc \in Active PROVE ActiveInv(r)'
    BY DEF ActiveInv
  <2>1. ActiveInv(r) BY DEF ReaderInv
  <2>2. ASSUME NEW f \in read[r].due
        PROVE  /\ f # wname' /\ \E c \in Container : f \in Indexed(c)'
               /\ (read[r].want = Dir /\ read[r].files[f] > 0) \/ \E c \in Container : Warm(r, c, f)'
    <3>1. f # wname /\ \E c \in Container : f \in Indexed(c) BY <2>1, <2>2 DEF ActiveInv
    <3>2. f # wname' BY <3>1 DEF Grow
    <3>3. (read[r].want = Dir /\ read[r].files[f] > 0) \/ \E c \in Container : Warm(r, c, f)
      BY <2>1, <2>2 DEF ActiveInv
    <3> QED BY <3>1, <3>2, <3>3, WarmKept, IndexedGrows
  <2>3. ASSUME NEW f \in Name, read[r].files[f] > 0
        PROVE  read[r].files[f] = 1
               /\ \E c \in Container \ read[r].keys : f \in records'[c] /\ cached'[c] # "no"
    BY <2>1, <2>3 DEF ActiveInv, Grow
  <2> QED BY <2>1, <2>2, <2>3 DEF ActiveInv
<1>4. DoneInv(r)' BY DEF ReaderInv, DoneInv
<1> QED BY <1>1, <1>2, <1>3, <1>4 DEF ReaderInv

-----------------------------------------------------------------------------
(* A reader's visits.                                                       *)

\* Only the reader r has moved, and has come to n.
Moved(r, n) == read' = [read EXCEPT ![r] = n] /\ n \in ReadType

\* A visited container leaves one fewer to visit.
LEMMA Counting ==
    ASSUME NEW K \in SUBSET Container
    PROVE  /\ Cardinality(K) \in Nat /\ Cardinality(K) <= Cardinality(Container)
           /\ \A c \in K : Cardinality(K \ {c}) = Cardinality(K) - 1
<1>1. IsFiniteSet(K) /\ Cardinality(K) <= Cardinality(Container)
  BY ContainersAreNumbers, FS_Subset
<1> QED BY <1>1, FS_CardinalityType, FS_RemoveElement

\* The reader after it has visited c and taken files from there.
Rest(r, c) == [read[r] EXCEPT !.pc = "walk", !.keys = @ \ {c}, !.cont = 0, !.size = 0]

\* The reader after a container: it is out of the keys, all else is kept.
LEMMA RestIs ==
    ASSUME NEW r \in Reader, NEW c, read[r] \in ReadType
    PROVE  /\ Rest(r, c) \in ReadType
           /\ Rest(r, c).pc = "walk" /\ Rest(r, c).keys = read[r].keys \ {c}
           /\ Rest(r, c).want = read[r].want /\ Rest(r, c).loaded = read[r].loaded
           /\ Rest(r, c).snap = read[r].snap /\ Rest(r, c).files = read[r].files
           /\ Rest(r, c).due = read[r].due
BY DEF Rest, ReadType, Active

\* The reader after its answer: nothing of the walk is left.
LEMMA AnswerIs ==
    ASSUME NEW rec \in ReadType, NEW a \in Answers
    PROVE  /\ Answer(rec, a) \in ReadType
           /\ Answer(rec, a).pc = "done" /\ Answer(rec, a).want = rec.want
           /\ Answer(rec, a).answer = a /\ Answer(rec, a).due = rec.due
           /\ Answer(rec, a).keys = {} /\ ~Answer(rec, a).loaded
           /\ Answer(rec, a).snap = <<{}, {}>> /\ Answer(rec, a).files = [f \in File |-> 0]
BY DEF Answer, IdleReader, ReadType, Active

\* A reader that is done keeps nothing but its answer.
LEMMA DoneStep ==
    ASSUME NEW r \in Reader, read \in [Reader -> ReadType],
           NEW rec \in ReadType, NEW a \in Answers,
           read' = [read EXCEPT ![r] = Answer(rec, a)],
           rec.want \in File /\ rec.due # {} => a = "found",
           rec.want = Dir => /\ a \in [File -> Nat] /\ \A f \in rec.due : a[f] > 0
                             /\ \A f \in Name : a[f] <= 1
    PROVE  ReaderInv(r)' /\ Moved(r, Answer(rec, a))
<1> DEFINE n == Answer(rec, a)
<1>1. /\ n \in ReadType
      /\ n.pc = "done" /\ n.want = rec.want /\ n.answer = a /\ n.due = rec.due
      /\ n.keys = {} /\ ~n.loaded /\ n.snap = <<{}, {}>> /\ n.files = [f \in File |-> 0]
  BY AnswerIs
<1> HIDE DEF n
<1>2. read'[r] = n BY DEF n
<1>3. VisitInv(r)' BY <1>1, <1>2 DEF VisitInv, Visiting
<1>4. WalkInv(r)' BY <1>1, <1>2 DEF WalkInv
<1>5. ActiveInv(r)' BY <1>1, <1>2 DEF ActiveInv, Active, Visiting
<1>6. DoneInv(r)' BY <1>1, <1>2 DEF DoneInv
<1> QED BY <1>1, <1>3, <1>4, <1>5, <1>6 DEF ReaderInv, Moved, n

\* The step that ends a visit: it finds what is due in the container, and a file
\* of the node for the first time, since the container that has it was still to
\* visit.
LEMMA FoundStep ==
    ASSUME ReadingInv, UNCHANGED Shared, NEW r \in Reader, NEW c \in read[r].keys, NEW fs,
           read[r].pc \in {"walk", "look"}, Found(r, c, fs),
           fs \cap Name \subseteq records[c],
           \A f \in read[r].due : Warm(r, c, f) => f \in fs
    PROVE  ReaderInv(r)' /\ \E n : Moved(r, n)
<1> DEFINE o == read[r]
           rest == Rest(r, c)
           more == [f \in File |-> o.files[f] + IF f \in fs THEN 1 ELSE 0]
           n == [rest EXCEPT !.files = more]
<1>0. /\ o \in ReadType /\ read \in [Reader -> ReadType] /\ o.pc \in Active
      /\ o.keys \in SUBSET Container /\ o.files \in [File -> Nat] /\ c \in Container
  BY DEF ReadingInv, Types, ReadType, Active, Visiting
<1>1. /\ rest \in ReadType /\ rest.pc = "walk" /\ rest.keys = o.keys \ {c}
      /\ rest.want = o.want /\ rest.loaded = o.loaded
      /\ rest.snap = o.snap /\ rest.files = o.files /\ rest.due = o.due
  BY <1>0, RestIs
<1>2. read' = [read EXCEPT ![r] = IF o.want = Dir THEN [rest EXCEPT !.files = [f \in File |-> @[f] + IF f \in fs THEN 1 ELSE 0]]
                                  ELSE IF o.want \in fs THEN Answer(rest, "found") ELSE rest]
  BY DEF Found, Rest
<1>3. [rest EXCEPT !.files = [f \in File |-> @[f] + IF f \in fs THEN 1 ELSE 0]] = n
  BY <1>1
<1>4. read' = [read EXCEPT ![r] = IF o.want = Dir THEN n
                                  ELSE IF o.want \in fs THEN Answer(rest, "found") ELSE rest]
  BY <1>2, <1>3
<1>5. VisitInv(r) /\ WalkInv(r) /\ ActiveInv(r) BY DEF ReadingInv, ReaderInv
<1>6. o.want \in File \cup {Dir} BY <1>0, <1>5 DEF ActiveInv
<1>7. more \in [File -> Nat] BY <1>0
<1>8. /\ n \in ReadType /\ n.pc = "walk" /\ n.keys = o.keys \ {c}
      /\ n.want = o.want /\ n.loaded = o.loaded
      /\ n.snap = o.snap /\ n.files = more /\ n.due = o.due
  BY <1>1, <1>7 DEF ReadType
<1>9. Dir \notin File BY ReadingAssumption DEF File
<1>10. ASSUME o.want \in fs, o.want # Dir PROVE ReaderInv(r)' /\ \E x : Moved(r, x)
  <2>1. read' = [read EXCEPT ![r] = Answer(rest, "found")] BY <1>4, <1>10
  <2>2. "found" \in Answers BY DEF Answers
  <2>3. o.want # Dir /\ rest.want = o.want BY <1>1, <1>10
  <2> HIDE DEF rest, o, n, more
  <2> QED BY <1>0, <1>1, <2>1, <2>2, <2>3, DoneStep
\* What the visit leaves is still to be found elsewhere.
<1>11. ASSUME NEW x \in {rest, n}, read' = [read EXCEPT ![r] = x],
              x.pc = "walk", x.keys = o.keys \ {c}, x.want = o.want, x.due = o.due,
              x.loaded = o.loaded, x.snap = o.snap,
              \A f \in File : x.files[f] >= o.files[f],
              \A f \in File : o.want = Dir /\ f \in fs => x.files[f] > 0,
              o.want = Dir \/ o.want \notin fs
       PROVE  /\ VisitInv(r)' /\ WalkInv(r)' /\ DoneInv(r)'
              /\ \A f \in x.due :
                    /\ f # wname /\ (x.want \in {f, Dir}) /\ \E d \in Container : f \in Indexed(d)
                    /\ (x.want = Dir /\ x.files[f] > 0) \/ \E d \in Container : Warm(r, d, f)'
  <2>1. read'[r] = x BY <1>0, <1>11
  <2>2. VisitInv(r)' BY <1>11, <2>1 DEF VisitInv, Visiting
  <2>3. WalkInv(r)' BY <1>5, <1>11, <2>1 DEF WalkInv, Shared, diskVars, cacheVars
  <2>4. DoneInv(r)' BY <1>11, <2>1 DEF DoneInv, Active
  <2>5. ASSUME NEW f \in x.due
        PROVE  /\ f # wname /\ (x.want \in {f, Dir}) /\ \E d \in Container : f \in Indexed(d)
               /\ (x.want = Dir /\ x.files[f] > 0) \/ \E d \in Container : Warm(r, d, f)'
    <3>1. /\ f \in File
          /\ f # wname /\ (o.want \in {f, Dir}) /\ \E d \in Container : f \in Indexed(d)
          /\ (o.want = Dir /\ o.files[f] > 0) \/ \E d \in Container : Warm(r, d, f)
      BY <1>0, <1>5, <1>11 DEF ActiveInv, ReadType
    <3>2. ASSUME o.want = Dir, o.files[f] > 0 PROVE x.files[f] > 0
      <4>1. x.files \in [File -> Nat] BY <1>1, <1>8, <1>11 DEF ReadType
      <4> HIDE DEF o, n, rest, more
      <4> QED BY <1>0, <1>11, <3>1, <3>2, <4>1
    <3>3. ASSUME NEW d \in Container, Warm(r, d, f), d = c
          PROVE  o.want = Dir /\ x.files[f] > 0
      <4>1. f \in fs BY <1>11, <3>3
      <4>2. o.want = Dir BY <1>11, <3>1, <4>1
      <4> QED BY <1>11, <3>1, <4>1, <4>2
    <3>4. ASSUME NEW d \in Container, Warm(r, d, f), d # c PROVE Warm(r, d, f)'
      <4>1. d \in x.keys /\ x.pc = "walk" BY <1>11, <3>4 DEF Warm
      <4>2. cached'[d] = "index" /\ Indexed(d)' = Indexed(d)
        BY <3>4 DEF Warm, Indexed, Shared, diskVars, cacheVars
      <4> QED BY <2>1, <3>4, <4>1, <4>2 DEF Warm
    <3> QED BY <1>11, <3>1, <3>2, <3>3, <3>4
  <2> QED BY <2>2, <2>3, <2>4, <2>5
<1>12. ASSUME o.want = Dir PROVE ReaderInv(r)' /\ \E x : Moved(r, x)
  <2>1. read' = [read EXCEPT ![r] = n] /\ read'[r] = n BY <1>0, <1>4, <1>12
  <2>2. \A f \in File : n.files[f] >= o.files[f] /\ (f \in fs => n.files[f] > 0)
    BY <1>0, <1>8
  <2>3. VisitInv(r)' /\ WalkInv(r)' /\ DoneInv(r)' /\
        \A f \in n.due :
            /\ f # wname /\ (n.want \in {f, Dir}) /\ \E d \in Container : f \in Indexed(d)
            /\ (n.want = Dir /\ n.files[f] > 0) \/ \E d \in Container : Warm(r, d, f)'
    <3> HIDE DEF n, rest, o, more
    <3> QED BY <1>8, <1>11, <1>12, <2>1, <2>2
  <2>4. ASSUME NEW f \in Name, n.files[f] > 0
        PROVE  n.files[f] = 1 /\ \E d \in Container \ n.keys : f \in records[d] /\ cached[d] # "no"
    <3>1. f \in File BY DEF File
    <3>2. ASSUME o.files[f] > 0
          PROVE  o.files[f] = 1 /\ f \notin fs
                 /\ \E d \in Container \ n.keys : f \in records[d] /\ cached[d] # "no"
      <4>1. o.files[f] = 1 BY <1>0, <1>5, <3>2 DEF ActiveInv
      <4>2. PICK d \in Container \ o.keys : f \in records[d] /\ cached[d] # "no"
        BY <1>0, <1>5, <3>2 DEF ActiveInv
      <4>3. f \notin records[c]
        BY <1>0, <4>2 DEF ReadingInv, DiskInv
      <4> QED BY <1>8, <4>1, <4>2, <4>3
    <3>3. n.files[f] = o.files[f] + IF f \in fs THEN 1 ELSE 0 BY <1>8, <3>1
    <3>4. o.files[f] \in Nat BY <1>0, <3>1
    <3>5. ASSUME ~(o.files[f] > 0)
          PROVE  n.files[f] = 1 /\ f \in records[c] /\ cached[c] # "no" /\ c \in Container \ n.keys
      <4>1. f \in fs /\ n.files[f] = 1 BY <2>4, <3>3, <3>4, <3>5
      <4>2. cached[c] # "no" BY <1>5 DEF WalkInv
      <4> QED BY <1>0, <1>8, <4>1, <4>2
    <3> QED BY <3>2, <3>3, <3>4, <3>5
  <2>5. ASSUME NEW f \in File
        PROVE  n.files[f] + Cardinality(n.keys)
                 <= Cardinality(Container) + IF n.loaded THEN 1 ELSE 0
    <3>1. o.files[f] + Cardinality(o.keys)
             <= Cardinality(Container) + IF o.loaded THEN 1 ELSE 0
      BY <1>0, <1>5 DEF ActiveInv
    <3>2. Cardinality(n.keys) = Cardinality(o.keys) - 1 /\ Cardinality(o.keys) \in Nat
      BY <1>0, <1>8, Counting
    <3>3. n.files[f] <= o.files[f] + 1 /\ o.files[f] \in Nat /\ n.files[f] \in Nat
      BY <1>0, <1>7, <1>8
    <3>4. n.loaded = o.loaded /\ Cardinality(Container) \in Nat BY <1>8, ContainersAreNumbers
    <3> HIDE DEF n, o
    <3> QED BY <3>1, <3>2, <3>3, <3>4
  <2>6. ActiveInv(r)'
    <3>1. /\ wname' = wname /\ records' = records /\ cached' = cached
          /\ \A d : Indexed(d)' = Indexed(d)
      BY DEF Shared, diskVars, cacheVars, writerVars, Indexed
    <3> HIDE DEF n, rest, more
    <3> QED BY <1>6, <1>8, <2>1, <2>3, <2>4, <2>5, <3>1 DEF ActiveInv
  <2> HIDE DEF n
  <2> QED BY <1>8, <2>1, <2>3, <2>6 DEF ReaderInv, Moved
<1>13. ASSUME o.want # Dir, o.want \notin fs PROVE ReaderInv(r)' /\ \E x : Moved(r, x)
  <2>1. read' = [read EXCEPT ![r] = rest] /\ read'[r] = rest BY <1>0, <1>4, <1>13
  <2>2. \A f \in File : rest.files[f] >= o.files[f] BY <1>0, <1>1
  <2>3. VisitInv(r)' /\ WalkInv(r)' /\ DoneInv(r)' /\
        \A f \in rest.due :
            /\ f # wname /\ (rest.want \in {f, Dir}) /\ \E d \in Container : f \in Indexed(d)
            /\ (rest.want = Dir /\ rest.files[f] > 0) \/ \E d \in Container : Warm(r, d, f)'
    <3> HIDE DEF n, rest, o, more
    <3> QED BY <1>1, <1>11, <1>13, <2>1, <2>2
  <2>4. ASSUME NEW f \in Name, rest.files[f] > 0
        PROVE  rest.files[f] = 1
               /\ \E d \in Container \ rest.keys : f \in records[d] /\ cached[d] # "no"
    <3>1. rest.files[f] = 1
          /\ \E d \in Container \ o.keys : f \in records[d] /\ cached[d] # "no"
      <4> HIDE DEF rest
      <4> QED BY <1>0, <1>1, <1>5, <2>4 DEF ActiveInv
    <3> HIDE DEF rest
    <3> QED BY <1>1, <3>1
  <2>5. ASSUME NEW f \in File
        PROVE  rest.files[f] + Cardinality(rest.keys)
                 <= Cardinality(Container) + IF rest.loaded THEN 1 ELSE 0
    <3>1. o.files[f] + Cardinality(o.keys)
             <= Cardinality(Container) + IF o.loaded THEN 1 ELSE 0
      BY <1>0, <1>5 DEF ActiveInv
    <3>2. Cardinality(rest.keys) = Cardinality(o.keys) - 1 /\ Cardinality(o.keys) \in Nat
      BY <1>0, <1>1, Counting
    <3>3. rest.files[f] = o.files[f] /\ o.files[f] \in Nat BY <1>0, <1>1
    <3>4. rest.loaded = o.loaded /\ Cardinality(Container) \in Nat BY <1>1, ContainersAreNumbers
    <3> HIDE DEF rest, o
    <3> QED BY <3>1, <3>2, <3>3, <3>4
  <2>6. ActiveInv(r)'
    <3>1. /\ wname' = wname /\ records' = records /\ cached' = cached
          /\ \A d : Indexed(d)' = Indexed(d)
      BY DEF Shared, diskVars, cacheVars, writerVars, Indexed
    <3> HIDE DEF n, rest, more
    <3> QED BY <1>1, <1>6, <2>1, <2>3, <2>4, <2>5, <3>1 DEF ActiveInv
  <2> HIDE DEF rest
  <2> QED BY <1>1, <2>1, <2>3, <2>6 DEF ReaderInv, Moved
<1> QED BY <1>10, <1>12, <1>13

-----------------------------------------------------------------------------
(* The steps of a reader.                                                   *)

\* Readers that do not move keep their invariant, as what they share grows.
LEMMA OthersKept ==
    ASSUME ReadingInv, Types', Grow, NEW r \in Reader,
           \A q \in Reader \ {r} : read'[q] = read[q], ReaderInv(r)'
    PROVE  \A q \in Reader : ReaderInv(q)'
<1>1. ASSUME NEW q \in Reader, q # r PROVE ReaderInv(q)'
  <2>1. read'[q] = read[q] /\ ReaderInv(q) /\ Types BY <1>1 DEF ReadingInv
  <2> QED BY <2>1, ReaderKept
<1> QED BY <1>1

\* A step that changes nothing shared is one that lets it grow.
LEMMA StillGrows == ASSUME Types, UNCHANGED Shared PROVE Grow
<1>1. \A c \in Container : Len(rows[c]) \in Nat BY RowsAreFiles
<1> QED BY <1>1 DEF Grow, Shared, diskVars, cacheVars, writerVars

\* A step that changes nothing shared keeps the invariant if its reader's is
\* kept.
LEMMA AfterReading ==
    ASSUME ReadingInv, UNCHANGED Shared, NEW r \in Reader, ReaderInv(r)', \E n : Moved(r, n)
    PROVE  ReadingInv'
<1>1. PICK n : Moved(r, n) OBVIOUS
<1>2. read \in [Reader -> ReadType] BY DEF ReadingInv, Types
<1>3. read' \in [Reader -> ReadType] /\ \A q \in Reader \ {r} : read'[q] = read[q]
  BY <1>1, <1>2 DEF Moved
<1>4. Types' BY <1>3 DEF ReadingInv, Types, Shared, diskVars, cacheVars, writerVars
<1>5. Grow BY StillGrows DEF ReadingInv
<1>6. \A q \in Reader : ReaderInv(q)' BY <1>3, <1>4, <1>5, OthersKept
<1>7. DiskInv' BY DEF ReadingInv, DiskInv, Shared, diskVars, Indexed
<1>8. WriterInv'
  BY DEF ReadingInv, WriterInv, Shared, diskVars, cacheVars, writerVars, Indexed
<1>9. ASSUME NEW c \in Container PROVE ContainerInv(c)'
  BY DEF ReadingInv, ContainerInv, Shared, diskVars, cacheVars, writerVars, Indexed, Entered
<1> QED BY <1>4, <1>6, <1>7, <1>8, <1>9 DEF ReadingInv

\* A file of this node that an index has is in the container.
LEMMA IndexedNames ==
    ASSUME DiskInv, NEW c \in Container
    PROVE  Indexed(c) \cap Name \subseteq records[c]
BY ReadingAssumption DEF DiskInv, Container

\* The tar has the name, or the entries have all that is due when the index has
\* not grown.
LEMMA VisitKeeps ==
    ASSUME ReadingInv, NEW r \in Reader, NEW c \in Container, Visit(r, c)
    PROVE  ReadingInv'
<1>0. /\ read[r].pc = "walk" /\ c \in read[r].keys /\ UNCHANGED Shared /\ ContainerInv(c)
      /\ Types /\ read[r] \in ReadType /\ ActiveInv(r)
  BY DEF Visit, At, diskUnchanged, Shared, ReadingInv, Types, ReaderInv
<1>1. CASE cached[c] = "tar" /\ Found(r, c, Scan(c))
  <2>1. \A f \in read[r].due : ~Warm(r, c, f) BY <1>1 DEF Warm
  <2>2. Scan(c) \cap Name \subseteq records[c] BY DEF Scan
  <2> QED BY <1>0, <1>1, <2>1, <2>2, FoundStep, AfterReading
<1>2. CASE /\ cached[c] = "index" /\ (read[r].want \in entries[c] \/ ~Grown(c))
           /\ Found(r, c, entries[c])
  <2>1. entries[c] \subseteq Indexed(c) BY <1>0 DEF ContainerInv
  <2>2. entries[c] \cap Name \subseteq records[c] BY <2>1, IndexedNames DEF ReadingInv
  <2>3. ASSUME NEW f \in read[r].due, Warm(r, c, f) PROVE f \in entries[c]
    <3>1. f # wname /\ read[r].want \in {f, Dir}
      BY <1>0, <2>3 DEF ActiveInv, Active
    <3>2. Dir \notin Indexed(c)
      BY <1>0, RowsAreFiles, ReadingAssumption DEF File
    <3>3. CASE ~Grown(c)
      <4>1. lastSize[c] <= Len(rows[c]) /\ Entered(c, lastSize[c]) BY <1>0, <1>2 DEF ContainerInv
      <4>2. /\ Len(rows[c]) \in Nat /\ lastSize[c] \in Nat
            /\ Indexed(c) = {rows[c][i] : i \in 1 .. Len(rows[c])}
        BY <1>0, RowsAreFiles
      <4>3. lastSize[c] = Len(rows[c]) BY <3>3, <4>1, <4>2 DEF Grown
      <4>4. f \in Indexed(c) BY <2>3 DEF Warm
      <4> QED BY <3>1, <4>1, <4>2, <4>3, <4>4 DEF Entered
    <3>4. CASE read[r].want \in entries[c] BY <2>1, <3>1, <3>2, <3>4
    <3> QED BY <1>2, <3>3, <3>4
  <2> QED BY <1>0, <1>2, <2>2, <2>3, FoundStep, AfterReading
<1> QED BY <1>1, <1>2 DEF Visit

\* After the rows are read the due file is in the entries.
LEMMA LookKeeps ==
    ASSUME ReadingInv, NEW r \in Reader, Look(r)
    PROVE  ReadingInv'
<1> DEFINE c == read[r].cont
<1>0. /\ read[r].pc = "look" /\ UNCHANGED Shared /\ read[r] \in ReadType
      /\ Found(r, c, entries[c])
  BY DEF Look, At, diskUnchanged, Shared, ReadingInv, Types
<1>1. c \in read[r].keys
  BY <1>0 DEF ReadingInv, ReaderInv, VisitInv, Visiting
<1>2. c \in Container BY <1>0, <1>1 DEF ReadType
<1>3. entries[c] \cap Name \subseteq records[c]
  BY <1>2, IndexedNames DEF ReadingInv, ContainerInv
<1>4. \A f \in read[r].due : Warm(r, c, f) => f \in entries[c] BY <1>0 DEF Warm
<1> HIDE DEF c
<1> QED BY <1>0, <1>1, <1>3, <1>4, FoundStep, AfterReading

\* A reader that goes on with its visit, and what is due with it.
LEMMA GoesOn ==
    ASSUME NEW r \in Reader, Types, Types', Grow, ActiveInv(r), read[r].pc \in Active,
           NEW n, read'[r] = n, n.pc \in Active,
           n.want = read[r].want, n.keys = read[r].keys, n.loaded = read[r].loaded,
           n.files = read[r].files, n.due = read[r].due,
           \A c \in Container : \A f \in n.due :
              Warm(r, c, f) /\ n.cont = c /\ n.pc \in {"size", "look"} => f \in entries'[c]
    PROVE  ActiveInv(r)' /\ DoneInv(r)'
<1>0. read[r] \in ReadType BY DEF Types
<1>1. ASSUME NEW f \in n.due
      PROVE  /\ f # wname' /\ (n.want \in {f, Dir}) /\ \E c \in Container : f \in Indexed(c)'
             /\ (n.want = Dir /\ n.files[f] > 0) \/ \E c \in Container : Warm(r, c, f)'
  <2>1. /\ f # wname /\ (n.want \in {f, Dir}) /\ \E c \in Container : f \in Indexed(c)
        /\ (n.want = Dir /\ n.files[f] > 0) \/ \E c \in Container : Warm(r, c, f)
    BY <1>1 DEF ActiveInv
  <2>2. f # wname' BY <2>1 DEF Grow
  <2>3. ASSUME NEW c \in Container, Warm(r, c, f) PROVE Warm(r, c, f)'
    BY <1>1, <2>3, IndexedGrows DEF Warm, Grow
  <2> QED BY <2>1, <2>2, <2>3, IndexedGrows
<1>2. ASSUME NEW f \in Name, n.files[f] > 0
      PROVE  n.files[f] = 1
             /\ \E c \in Container \ n.keys : f \in records'[c] /\ cached'[c] # "no"
  BY <1>2 DEF ActiveInv, Grow
<1>3. DoneInv(r)' BY DEF DoneInv, Active, Visiting
<1> QED BY <1>1, <1>2, <1>3 DEF ActiveInv

\* The size that is measured is that of rows that stay.
LEMMA StatKeeps ==
    ASSUME ReadingInv, NEW r \in Reader, NEW c \in Container, Stat(r, c)
    PROVE  ReadingInv'
<1> DEFINE n == [read[r] EXCEPT !.pc = "rows", !.cont = c, !.size = Len(rows[c])]
<1>0. /\ read[r].pc = "walk" /\ c \in read[r].keys /\ cached[c] = "index"
      /\ read' = [read EXCEPT ![r] = n] /\ UNCHANGED Shared
      /\ Types /\ read \in [Reader -> ReadType] /\ read[r] \in ReadType
      /\ WalkInv(r) /\ ActiveInv(r)
  BY DEF Stat, At, diskUnchanged, Shared, ReadingInv, Types, ReaderInv
<1>1. Len(rows[c]) \in Nat BY <1>0, RowsAreFiles
<1>2. /\ n \in ReadType /\ n.pc = "rows" /\ n.cont = c /\ n.size = Len(rows[c])
      /\ n.want = read[r].want /\ n.keys = read[r].keys /\ n.loaded = read[r].loaded
      /\ n.snap = read[r].snap /\ n.files = read[r].files /\ n.due = read[r].due
  BY <1>0, <1>1 DEF ReadType, Active, Visiting
<1> HIDE DEF n
<1>3. read'[r] = n /\ Moved(r, n) BY <1>0, <1>2 DEF Moved
<1>4. Types'
  BY <1>0, <1>2 DEF Types, Shared, diskVars, cacheVars, writerVars
<1>5. Grow BY <1>0, StillGrows
<1>6. ActiveInv(r)' /\ DoneInv(r)'
  <2>1. read[r].pc \in Active /\ n.pc \in Active /\ n.pc \notin {"size", "look"}
    BY <1>0, <1>2 DEF Active, Visiting
  <2> QED BY <1>0, <1>2, <1>3, <1>4, <1>5, <2>1, GoesOn
<1>7. VisitInv(r)'
  BY <1>0, <1>1, <1>2, <1>3 DEF VisitInv, Shared, diskVars, cacheVars
<1>8. WalkInv(r)' BY <1>0, <1>2, <1>3 DEF WalkInv, Shared, diskVars, cacheVars
<1> QED BY <1>0, <1>3, <1>6, <1>7, <1>8, AfterReading DEF ReaderInv

\* A step of a reader that changes what is cached.
LEMMA AfterCaching ==
    ASSUME ReadingInv, UNCHANGED <<diskVars, writerVars>>, NEW r \in Reader, NEW n, Moved(r, n),
           Types', Grow, ReaderInv(r)', \A c \in Container : ContainerInv(c)',
           wpc = "make" => cached' = cached
    PROVE  ReadingInv'
<1>1. read \in [Reader -> ReadType] BY DEF ReadingInv, Types
<1>2. \A q \in Reader \ {r} : read'[q] = read[q] BY <1>1 DEF Moved
<1>3. \A q \in Reader : ReaderInv(q)' BY <1>2, OthersKept
<1>4. DiskInv' BY DEF ReadingInv, DiskInv, diskVars, Indexed
<1>5. WriterInv'
  <2>1. WriterInv BY DEF ReadingInv
  <2>2. wpc \in {"record", "size", "entry"} => cached'[wcont] = "index"
    BY <2>1 DEF WriterInv, Grow, Container
  <2>3. wpc = "make" => cached'[wcont] = "no" BY <2>1 DEF WriterInv
  <2> QED BY <2>1, <2>2, <2>3 DEF WriterInv, diskVars, writerVars, Indexed
<1> QED BY <1>3, <1>4, <1>5 DEF ReadingInv

\* Reading from lastSize to the end enters the rows up to the measured size, as
\* those before lastSize are entered.
LEMMA ReadRowsKeeps ==
    ASSUME ReadingInv, NEW r \in Reader, ReadRows(r)
    PROVE  ReadingInv'
<1> DEFINE n == [read[r] EXCEPT !.pc = "size"]
           c == read[r].cont
           new == {rows[c][i] : i \in (lastSize[c] + 1)..Len(rows[c])}
<1>0. /\ read[r].pc = "rows" /\ read[r] \in ReadType /\ read \in [Reader -> ReadType]
      /\ read' = [read EXCEPT ![r] = n] /\ UNCHANGED <<diskVars, writerVars, cached, lastSize>>
      /\ entries' = [entries EXCEPT ![c] = @ \cup new]
      /\ Types /\ VisitInv(r) /\ WalkInv(r) /\ ActiveInv(r)
  BY DEF ReadRows, At, diskUnchanged, ReadingInv, Types, ReaderInv
<1>1. /\ n \in ReadType /\ n.pc = "size" /\ n.cont = c /\ n.size = read[r].size
      /\ n.want = read[r].want /\ n.keys = read[r].keys /\ n.loaded = read[r].loaded
      /\ n.snap = read[r].snap /\ n.files = read[r].files /\ n.due = read[r].due
  BY <1>0 DEF ReadType, Active, Visiting
<1>2. /\ c \in read[r].keys /\ c \in Container /\ cached[c] = "index"
      /\ n.size <= Len(rows[c])
  BY <1>0, <1>1 DEF VisitInv, Visiting, ReadType
<1>3. /\ rows[c] \in Seq(File) /\ Len(rows[c]) \in Nat /\ lastSize[c] \in Nat
      /\ Indexed(c) = {rows[c][i] : i \in 1 .. Len(rows[c])} /\ Indexed(c) \subseteq File
  BY <1>0, <1>2, RowsAreFiles
<1>4. new \subseteq Indexed(c) BY <1>3
<1>5. entries \in [Container -> SUBSET File] BY <1>0 DEF Types
<1>6. /\ entries' \in [Container -> SUBSET File] /\ entries'[c] = entries[c] \cup new
      /\ \A d \in Container : d # c => entries'[d] = entries[d]
  <2> HIDE DEF new, c, n
  <2> QED BY <1>0, <1>2, <1>3, <1>4, <1>5
\* All rows are entered now, but for the worker's.
<1>7. \A i \in 1 .. Len(rows[c]) : rows[c][i] \in entries'[c] \cup {wname}
  <2>1. lastSize[c] <= Len(rows[c]) /\ Entered(c, lastSize[c])
    BY <1>2 DEF ReadingInv, ContainerInv
  <2>2. SUFFICES ASSUME NEW i \in 1 .. Len(rows[c]) PROVE rows[c][i] \in entries'[c] \cup {wname}
    OBVIOUS
  <2>3. CASE i <= lastSize[c]
    <3>1. i \in 1 .. lastSize[c] BY <1>3, <2>3
    <3> QED BY <1>6, <2>1, <3>1 DEF Entered
  <2>4. CASE i > lastSize[c]
    <3>1. i \in (lastSize[c] + 1) .. Len(rows[c]) BY <1>3, <2>4
    <3> QED BY <1>6, <3>1
  <2> QED BY <1>3, <2>3, <2>4
<1>8. \A d \in Container : entries[d] \subseteq entries'[d] BY <1>6
<1> HIDE DEF n, c, new
<1>9. read'[r] = n /\ Moved(r, n) BY <1>0, <1>1 DEF Moved
<1>10. Types' BY <1>0, <1>1, <1>6 DEF Types, diskVars, writerVars
<1>11. Grow
  <2>1. \A d \in Container : Len(rows[d]) \in Nat BY <1>0, RowsAreFiles
  <2> QED BY <1>0, <1>8, <2>1 DEF Grow, diskVars, writerVars
<1>12. ASSUME NEW d \in Container PROVE ContainerInv(d)'
  <2>1. ContainerInv(d) BY DEF ReadingInv
  <2>2. entries'[d] \subseteq Indexed(d)
    <3>1. entries[d] \subseteq Indexed(d) BY <2>1 DEF ContainerInv
    <3> QED BY <1>4, <1>6, <3>1
  <2>3. lastSize[d] \in Nat /\ lastSize[d] <= Len(rows[d])
    BY <1>0, <2>1 DEF ContainerInv, Types
  <2>4. cached[d] = "index" => d \in indexes /\ Entered(d, lastSize[d])
    BY <2>1 DEF ContainerInv
  <2>5. cached[d] = "index" => {rows'[d][i] : i \in 1 .. lastSize[d]} \subseteq entries'[d] \cup {wname'}
    BY <1>0, <1>11, <2>3, <2>4, EnteredKept
  <2>6. Indexed(d)' = Indexed(d) BY <1>0 DEF Indexed, diskVars
  <2> QED BY <1>0, <1>8, <2>1, <2>2, <2>4, <2>5, <2>6
          DEF ContainerInv, Entered, diskVars, writerVars
<1>13. ActiveInv(r)' /\ DoneInv(r)'
  <2>1. read[r].pc \in Active /\ n.pc \in Active BY <1>0, <1>1 DEF Active, Visiting
  <2>2. ASSUME NEW d \in Container, NEW f \in n.due, Warm(r, d, f), n.cont = d
        PROVE  f \in entries'[d]
    <3>1. f # wname BY <1>0, <1>1, <2>1 DEF ActiveInv
    <3>2. f \in Indexed(c) BY <1>1, <2>2 DEF Warm
    <3> QED BY <1>1, <1>3, <1>7, <2>2, <3>1, <3>2
  <2> QED BY <1>0, <1>1, <1>9, <1>10, <1>11, <2>1, <2>2, GoesOn
<1>14. VisitInv(r)'
  <2>1. n.size \in Nat BY <1>1 DEF ReadType
  <2>2. PICK k \in Nat : k = n.size BY <2>1
  <2>3. PICK d \in Container : d = c BY <1>2
  <2>4. Entered(d, k)'
    <3>1. \A i \in 1 .. k : i \in 1 .. Len(rows[d]) BY <1>2, <1>3, <2>2, <2>3
    <3>2. rows' = rows /\ wname' = wname BY <1>0 DEF diskVars, writerVars
    <3>3. \A i \in 1 .. k : rows'[d][i] \in entries'[d] \cup {wname'}
      BY <1>7, <2>3, <3>1, <3>2
    <3> QED BY <3>3 DEF Entered
  <2>5. read'[r].cont = d /\ read'[r].size = k BY <1>1, <1>9, <2>2, <2>3
  <2>6. Entered(read[r].cont, read[r].size)' BY <2>4, <2>5 DEF Entered
  <2>7. /\ read'[r].cont \in read'[r].keys /\ cached'[read'[r].cont] = "index"
        /\ read'[r].size <= Len(rows'[read'[r].cont])
    BY <1>0, <1>1, <1>2, <1>9 DEF diskVars
  <2> QED BY <2>6, <2>7 DEF VisitInv
<1>15. WalkInv(r)' BY <1>0, <1>1, <1>9 DEF WalkInv, diskVars
<1> QED BY <1>0, <1>9, <1>10, <1>11, <1>12, <1>13, <1>14, <1>15, AfterCaching DEF ReaderInv

\* The measured size replaces lastSize: the rows before it are entered, whatever
\* lastSize was meanwhile.
LEMMA SetSizeKeeps ==
    ASSUME ReadingInv, NEW r \in Reader, SetSize(r)
    PROVE  ReadingInv'
<1> DEFINE n == [read[r] EXCEPT !.pc = "look"]
           c == read[r].cont
           s == read[r].size
<1>0. /\ read[r].pc = "size" /\ read[r] \in ReadType /\ read \in [Reader -> ReadType]
      /\ read' = [read EXCEPT ![r] = n] /\ UNCHANGED <<diskVars, writerVars, cached, entries>>
      /\ lastSize' = [lastSize EXCEPT ![c] = s]
      /\ Types /\ VisitInv(r) /\ WalkInv(r) /\ ActiveInv(r)
  BY DEF SetSize, At, diskUnchanged, ReadingInv, Types, ReaderInv
<1>1. /\ n \in ReadType /\ n.pc = "look" /\ n.cont = c
      /\ n.want = read[r].want /\ n.keys = read[r].keys /\ n.loaded = read[r].loaded
      /\ n.snap = read[r].snap /\ n.files = read[r].files /\ n.due = read[r].due
  BY <1>0 DEF ReadType, Active, Visiting
<1>2. /\ c \in read[r].keys /\ c \in Container /\ cached[c] = "index"
      /\ s \in Nat /\ s <= Len(rows[c]) /\ Entered(c, s)
  BY <1>0 DEF VisitInv, Visiting, ReadType
<1>3. /\ lastSize' \in [Container -> Nat] /\ lastSize'[c] = s
      /\ \A d \in Container : d # c => lastSize'[d] = lastSize[d]
  <2>1. lastSize \in [Container -> Nat] BY <1>0 DEF Types
  <2> HIDE DEF c, s
  <2> QED BY <1>0, <1>2, <2>1
<1> HIDE DEF n, c, s
<1>4. read'[r] = n /\ Moved(r, n) BY <1>0, <1>1 DEF Moved
<1>5. Types' BY <1>0, <1>1, <1>3 DEF Types, diskVars, writerVars
<1>6. Grow
  <2>1. \A d \in Container : Len(rows[d]) \in Nat BY <1>0, RowsAreFiles
  <2> QED BY <1>0, <2>1 DEF Grow, diskVars, writerVars
<1>7. ASSUME NEW d \in Container PROVE ContainerInv(d)'
  <2>1. ContainerInv(d) BY DEF ReadingInv
  <2>2. lastSize'[d] <= Len(rows[d]) BY <1>2, <1>3, <2>1 DEF ContainerInv
  <2>3. cached[d] = "index" => Entered(d, lastSize'[d])
    BY <1>2, <1>3, <2>1 DEF ContainerInv
  <2> QED BY <1>0, <2>1, <2>2, <2>3
          DEF ContainerInv, Entered, Indexed, diskVars, writerVars
<1>8. ActiveInv(r)' /\ DoneInv(r)'
  <2>1. read[r].pc \in Active /\ n.pc \in Active BY <1>0, <1>1 DEF Active, Visiting
  <2>2. ASSUME NEW d \in Container, NEW f \in n.due, Warm(r, d, f), n.cont = d
        PROVE  f \in entries'[d]
    BY <1>0, <1>1, <2>2 DEF Warm, c
  <2> QED BY <1>0, <1>1, <1>4, <1>5, <1>6, <2>1, <2>2, GoesOn
<1>9. VisitInv(r)' BY <1>0, <1>1, <1>2, <1>4 DEF VisitInv
<1>10. WalkInv(r)' BY <1>0, <1>1, <1>4 DEF WalkInv, diskVars
<1>11. cached' = cached BY <1>0
<1> QED BY <1>0, <1>4, <1>5, <1>6, <1>7, <1>8, <1>9, <1>10, <1>11, AfterCaching DEF ReaderInv

\* The listing is of what is in the directory now.
LEMMA ListDirectoryKeeps ==
    ASSUME ReadingInv, NEW r \in Reader, ListDirectory(r)
    PROVE  ReadingInv'
<1> DEFINE n == [read[r] EXCEPT !.pc = "load", !.snap = Here]
<1>0. /\ read[r].pc = "walk" /\ read[r].keys = {} /\ ~read[r].loaded
      /\ read[r] \in ReadType /\ read \in [Reader -> ReadType]
      /\ read' = [read EXCEPT ![r] = n] /\ UNCHANGED Shared
      /\ Types /\ WalkInv(r) /\ ActiveInv(r)
  BY DEF ListDirectory, At, diskUnchanged, Shared, ReadingInv, Types, ReaderInv
<1>1. tars \in SUBSET Container /\ indexes \in SUBSET Container BY <1>0 DEF Types
<1>2. /\ n \in ReadType /\ n.pc = "load" /\ n.snap = Here
      /\ n.want = read[r].want /\ n.keys = read[r].keys /\ n.loaded = read[r].loaded
      /\ n.files = read[r].files /\ n.due = read[r].due
  BY <1>0, <1>1 DEF ReadType, Active, Visiting, Here
<1> HIDE DEF n
<1>3. read'[r] = n /\ Moved(r, n) BY <1>0, <1>2 DEF Moved
<1>4. Types'
  BY <1>0, <1>2 DEF Types, Shared, diskVars, cacheVars, writerVars
<1>5. Grow BY <1>0, StillGrows
<1>6. ActiveInv(r)' /\ DoneInv(r)'
  <2>1. read[r].pc \in Active /\ n.pc \in Active /\ n.pc \notin {"size", "look"}
    BY <1>0, <1>2 DEF Active, Visiting
  <2> QED BY <1>0, <1>2, <1>3, <1>4, <1>5, <2>1, GoesOn
<1>7. VisitInv(r)' BY <1>2, <1>3 DEF VisitInv, Visiting
<1>8. WalkInv(r)'
  BY <1>0, <1>2, <1>3 DEF WalkInv, Shared, diskVars, Here
<1> QED BY <1>0, <1>3, <1>6, <1>7, <1>8, AfterReading DEF ReaderInv

\* A name is refused when no container is left, and then nothing was due.
LEMMA AnswerNotFoundKeeps ==
    ASSUME ReadingInv, NEW r \in Reader, AnswerNotFound(r)
    PROVE  ReadingInv'
<1> DEFINE o == read[r]
<1>0. /\ o.pc = "walk" /\ o.keys = {} /\ o.want # Dir
      /\ o \in ReadType /\ read \in [Reader -> ReadType] /\ UNCHANGED Shared
      /\ read' = [read EXCEPT ![r] = Answer(o, "notExist")]
      /\ ActiveInv(r)
  BY DEF AnswerNotFound, At, diskUnchanged, Shared, ReadingInv, Types, ReaderInv
<1>1. o.due = {}
  BY <1>0 DEF ActiveInv, Active, Warm
<1>2. "notExist" \in Answers BY DEF Answers
<1>3. o.want # Dir /\ o \in ReadType BY <1>0
<1> HIDE DEF o
<1>4. ReaderInv(r)' /\ Moved(r, Answer(o, "notExist"))
  BY <1>0, <1>1, <1>2, <1>3, DoneStep
<1> QED BY <1>0, <1>4, AfterReading

\* A listing is answered when no container is left, and then all that was due is
\* found.
LEMMA AnswerListingKeeps ==
    ASSUME ReadingInv, NEW r \in Reader, AnswerListing(r)
    PROVE  ReadingInv'
<1> DEFINE o == read[r]
           n == o.files
<1>0. /\ o.pc = "walk" /\ o.keys = {} /\ o.want = Dir
      /\ o \in ReadType /\ read \in [Reader -> ReadType] /\ UNCHANGED Shared
      /\ ActiveInv(r)
  BY DEF AnswerListing, At, diskUnchanged, Shared, ReadingInv, Types, ReaderInv
<1>1. read' = [read EXCEPT ![r] = Answer(o, n)]
  BY DEF AnswerListing
<1>2. n \in [File -> Nat] BY <1>0 DEF ReadType
<1>3. n \in Answers BY <1>2 DEF Answers
<1>4. \A f \in o.due : n[f] > 0 BY <1>0 DEF ActiveInv, Active, Warm
<1>5. \A f \in Name : n[f] <= 1
  <2> SUFFICES ASSUME NEW f \in Name PROVE n[f] <= 1
    OBVIOUS
  <2>1. n[f] \in Nat /\ (n[f] > 0 => n[f] = 1) BY <1>0, <1>2 DEF ActiveInv, Active, File
  <2> HIDE DEF n
  <2> QED BY <2>1
<1>6. o.want \notin File BY <1>0, ReadingAssumption DEF File
<1> HIDE DEF o, n
<1>7. ReaderInv(r)' /\ Moved(r, Answer(o, n))
  BY <1>0, <1>1, <1>2, <1>3, <1>4, <1>5, <1>6, DoneStep
<1> QED BY <1>0, <1>7, AfterReading

\* What is due is in the indexes of the cached containers that the reader will
\* visit, but for what the writer has not entered.
LEMMA StartKeeps ==
    ASSUME ReadingInv, NEW r \in Reader, NEW w \in Wants[r], Start(r, w)
    PROVE  ReadingInv'
<1> DEFINE known == {c \in Container : cached[c] # "no"}
           due == {f \in (IF w = Dir THEN File ELSE {w}) \ {wname} :
                        \E c \in known : cached[c] = "index" /\ f \in Indexed(c)}
           there == w # wname /\ \E c \in Container : w \in Readable(c)
           n == [IdleReader EXCEPT !.pc = "walk", !.want = w, !.keys = known, !.due = due,
                                   !.there = there]
<1>0. /\ read \in [Reader -> ReadType] /\ UNCHANGED Shared
      /\ read' = [read EXCEPT ![r] = n]
  BY DEF Start, diskUnchanged, Shared, ReadingInv, Types
<1>1. w \in File \cup {Dir} BY ReadingAssumption DEF File
<1>2. Dir \notin File BY ReadingAssumption DEF File
<1>3. due \subseteq File BY <1>1, <1>2
<1>4. known \subseteq Container OBVIOUS
<1>5. /\ n \in ReadType /\ n.pc = "walk" /\ n.want = w /\ n.keys = known /\ n.due = due
      /\ ~n.loaded /\ n.snap = <<{}, {}>> /\ n.files = [f \in File |-> 0]
  <2>1. there \in BOOLEAN OBVIOUS
  <2> HIDE DEF due, known, there
  <2> QED BY <1>1, <1>3, <1>4, <2>1 DEF IdleReader, ReadType, Active, Answers
<1> HIDE DEF n
<1>6. read'[r] = n /\ Moved(r, n) BY <1>0, <1>5 DEF Moved
<1>7. VisitInv(r)' BY <1>5, <1>6 DEF VisitInv, Visiting
<1>8. WalkInv(r)' BY <1>0, <1>5, <1>6 DEF WalkInv, Shared, cacheVars
<1>9. /\ wname' = wname /\ records' = records /\ cached' = cached
      /\ \A d : Indexed(d)' = Indexed(d)
  BY <1>0 DEF Shared, diskVars, cacheVars, writerVars, Indexed
<1>10. ASSUME NEW f \in due
       PROVE  /\ f # wname /\ w \in {f, Dir}
              /\ \E c \in Container : f \in Indexed(c) /\ Warm(r, c, f)'
  <2>1. PICK c \in known : cached[c] = "index" /\ f \in Indexed(c) OBVIOUS
  <2>2. Warm(r, c, f)' BY <1>5, <1>6, <1>9, <2>1 DEF Warm
  <2> QED BY <2>1, <2>2
<1>11. \A f \in File : n.files[f] = 0 BY <1>5
<1>12. Cardinality(known) \in Nat /\ Cardinality(known) <= Cardinality(Container)
  BY <1>4, Counting
<1> HIDE DEF due, known
<1>13. ActiveInv(r)'
  <2>1. \A f \in Name : ~(n.files[f] > 0) BY <1>11 DEF File
  <2>2. \A f \in File : n.files[f] + Cardinality(n.keys)
                           <= Cardinality(Container) + IF n.loaded THEN 1 ELSE 0
    BY <1>5, <1>11, <1>12, ContainersAreNumbers
  <2> QED BY <1>1, <1>5, <1>6, <1>9, <1>10, <2>1, <2>2 DEF ActiveInv
<1>14. DoneInv(r)' BY <1>5, <1>6 DEF DoneInv, Active
<1> QED BY <1>0, <1>6, <1>7, <1>8, <1>13, <1>14, AfterReading DEF ReaderInv

-----------------------------------------------------------------------------
(* Loading.                                                                 *)

\* The containers that a walk loads: all that are new, of which it visits the
\* first.
LEMMA FirstNewIsNew ==
    ASSUME NEW snap, snap[1] \subseteq Container, snap[2] \subseteq Container
    PROVE  /\ FirstNew(snap) \subseteq NewOnes(snap) /\ NewOnes(snap) \subseteq Container
           /\ IsFiniteSet(FirstNew(snap)) /\ Cardinality(FirstNew(snap)) <= 1
           /\ \A c \in NewOnes(snap) : cached[c] # "index" /\ c \in snap[1] \cup snap[2]
           /\ \A c \in snap[1] : c \in NewOnes(snap) \/ cached[c] # "no"
           /\ \A c \in snap[2] : c \in NewOnes(snap) \/ cached[c] = "index"
<1>1. NewOnes(snap) \subseteq Container BY DEF NewOnes, NewTars, NewIndexes
<1>2. /\ \A c \in NewOnes(snap) : cached[c] # "index" /\ c \in snap[1] \cup snap[2]
      /\ \A c \in snap[1] : c \in NewOnes(snap) \/ cached[c] # "no"
      /\ \A c \in snap[2] : c \in NewOnes(snap) \/ cached[c] = "index"
  BY DEF NewOnes, NewTars, NewIndexes
<1>3. ASSUME NEW S, S \subseteq NewOnes(snap), S # {} PROVE First(S) \in NewOnes(snap)
  <2>1. S \in SUBSET Nat BY <1>1, <1>3, ContainersAreNumbers
  <2> QED BY <1>3, <2>1, FirstIsElement
<1>4. NewTars(snap) \subseteq NewOnes(snap) /\ NewIndexes(snap) \subseteq NewOnes(snap)
  BY DEF NewOnes
<1>5. FirstNew(snap) = {} \/ \E c \in NewOnes(snap) : FirstNew(snap) = {c}
  BY <1>3, <1>4 DEF FirstNew, FirstOf
<1>6. IsFiniteSet(FirstNew(snap)) /\ Cardinality(FirstNew(snap)) <= 1
  <2>1. CASE FirstNew(snap) = {} BY <2>1, FS_EmptySet
  <2>2. ASSUME NEW c, FirstNew(snap) = {c} PROVE IsFiniteSet({c}) /\ Cardinality({c}) <= 1
    <3>1. IsFiniteSet({c}) /\ Cardinality({c}) = 1 BY FS_Singleton
    <3> QED BY <3>1
  <2> QED BY <1>5, <2>1, <2>2
<1> QED BY <1>1, <1>2, <1>5, <1>6

\* Loading does to the cache what readers may rely on.
LEMMA Loaded ==
    ASSUME ReadingInv, NEW new \in SUBSET Container, LoadContainers(new),
           \A c \in new : c \in tars \cup indexes /\ cached[c] # "index",
           UNCHANGED <<indexes, rows>>, tars \subseteq tars'
    PROVE  /\ cached' \in [Container -> {"no", "tar", "index"}]
           /\ entries' \in [Container -> SUBSET File] /\ lastSize' \in [Container -> Nat]
           /\ \A c \in Container :
                 /\ cached[c] # "no" => cached'[c] # "no"
                 /\ cached[c] = "index" => cached'[c] = "index" /\ entries[c] \subseteq entries'[c]
                 /\ c \in new => cached'[c] # "no" /\ (c \in indexes => cached'[c] = "index")
                 /\ c \notin new => cached'[c] = cached[c]
                 /\ lastSize'[c] <= Len(rows[c]) /\ entries'[c] \subseteq Indexed(c)
                 /\ cached'[c] # "no" => c \in tars \cup indexes
                 /\ cached'[c] = "index" =>
                       c \in indexes /\ {rows[c][i] : i \in 1 .. lastSize'[c]} \subseteq entries'[c] \cup {wname}
                 /\ c \in Own /\ cached'[c] = "tar" => c \notin indexes
                 /\ c \in Own /\ cached'[c] = "index" =>
                       \A f \in Indexed(c) : f \in entries'[c] \/ (f = wname /\ wpc \in {"size", "entry"})
<1>1. Types /\ \A c \in Container : ContainerInv(c) BY DEF ReadingInv
<1>2. \A c \in Container : /\ Indexed(c) \subseteq File /\ Len(rows[c]) \in Nat
                           /\ Indexed(c) = {rows[c][i] : i \in 1 .. Len(rows[c])}
  BY <1>1, RowsAreFiles
<1>3. /\ cached' \in [Container -> {"no", "tar", "index"}]
      /\ entries' \in [Container -> SUBSET File] /\ lastSize' \in [Container -> Nat]
  BY <1>1, <1>2 DEF LoadContainers, Types
<1>4. ASSUME NEW c \in new
      PROVE  /\ cached'[c] = IF c \in indexes THEN "index" ELSE "tar"
             /\ entries'[c] = Indexed(c) /\ lastSize'[c] = Len(rows[c])
             /\ cached[c] # "index" /\ c \in tars \cup indexes
  BY DEF LoadContainers
<1>5. ASSUME NEW c \in Container, c \notin new
      PROVE  cached'[c] = cached[c] /\ entries'[c] = entries[c] /\ lastSize'[c] = lastSize[c]
  BY <1>5 DEF LoadContainers
<1>6. ASSUME NEW c \in new
      PROVE  /\ cached'[c] # "no" /\ (c \in indexes <=> cached'[c] = "index")
             /\ lastSize'[c] <= Len(rows[c]) /\ entries'[c] \subseteq Indexed(c)
             /\ {rows[c][i] : i \in 1 .. lastSize'[c]} \subseteq entries'[c] \cup {wname}
             /\ \A f \in Indexed(c) : f \in entries'[c]
  BY <1>2, <1>4
<1>7. ASSUME NEW c \in Container, c \notin new
      PROVE  /\ lastSize'[c] <= Len(rows[c]) /\ entries'[c] \subseteq Indexed(c)
             /\ cached'[c] # "no" => c \in tars \cup indexes
             /\ cached'[c] = "index" =>
                   c \in indexes /\ {rows[c][i] : i \in 1 .. lastSize'[c]} \subseteq entries'[c] \cup {wname}
             /\ c \in Own /\ cached'[c] = "tar" => c \notin indexes
             /\ c \in Own /\ cached'[c] = "index" =>
                   \A f \in Indexed(c) : f \in entries'[c] \/ (f = wname /\ wpc \in {"size", "entry"})
  BY <1>1, <1>5, <1>7 DEF ContainerInv, Entered
<1> QED BY <1>3, <1>4, <1>5, <1>6, <1>7

\* All that the listing saw is cached now; a container loaded with its index has
\* all its rows entered.
LEMMA LoadKeeps ==
    ASSUME ReadingInv, NEW r \in Reader, Load(r)
    PROVE  ReadingInv'
<1> DEFINE o == read[r]
           snap == read[r].snap
           new == NewOnes(snap)
           n == [o EXCEPT !.pc = "walk", !.loaded = TRUE, !.keys = FirstNew(snap)]
<1>0. /\ o.pc = "load" /\ wpc # "make" /\ LoadContainers(new)
      /\ o \in ReadType /\ read \in [Reader -> ReadType]
      /\ read' = [read EXCEPT ![r] = n] /\ UNCHANGED <<diskVars, writerVars>>
      /\ Types /\ WalkInv(r) /\ ActiveInv(r) /\ DoneInv(r)
  BY DEF Load, At, diskUnchanged, ReadingInv, Types, ReaderInv
<1>1. /\ snap[1] \subseteq tars /\ snap[2] \subseteq indexes /\ o.keys = {} /\ ~o.loaded
      /\ snap[1] \subseteq Container /\ snap[2] \subseteq Container
      /\ o.due \subseteq File /\ o.files \in [File -> Nat]
  BY <1>0 DEF WalkInv, Types, ReadType
<1>2. /\ FirstNew(snap) \subseteq new /\ new \subseteq Container
      /\ Cardinality(FirstNew(snap)) <= 1 /\ Cardinality(FirstNew(snap)) \in Nat
      /\ \A c \in new : cached[c] # "index" /\ c \in snap[1] \cup snap[2]
      /\ \A c \in snap[1] : c \in new \/ cached[c] # "no"
      /\ \A c \in snap[2] : c \in new \/ cached[c] = "index"
  BY <1>1, FirstNewIsNew, FS_CardinalityType
<1>3. /\ n \in ReadType /\ n.pc = "walk" /\ n.keys = FirstNew(snap) /\ n.loaded
      /\ n.want = o.want /\ n.snap = snap /\ n.files = o.files /\ n.due = o.due
  BY <1>0, <1>2 DEF ReadType, Active, Visiting
<1> HIDE DEF n, o, new, snap
<1>4. read'[r] = n /\ Moved(r, n) BY <1>0, <1>3 DEF Moved
<1>5. \A c \in new : c \in tars \cup indexes /\ cached[c] # "index" BY <1>1, <1>2
<1>6. UNCHANGED <<tars, indexes, records, rows, behind, wpc, wname, wcont>>
  BY <1>0 DEF diskVars, writerVars
<1> DEFINE Kept(c) ==
             /\ cached[c] # "no" => cached'[c] # "no"
             /\ cached[c] = "index" => cached'[c] = "index" /\ entries[c] \subseteq entries'[c]
             /\ c \in new => cached'[c] # "no" /\ (c \in indexes => cached'[c] = "index")
             /\ c \notin new => cached'[c] = cached[c]
           Right(c) ==
             /\ lastSize'[c] <= Len(rows[c]) /\ entries'[c] \subseteq Indexed(c)
             /\ cached'[c] # "no" => c \in tars \cup indexes
             /\ cached'[c] = "index" =>
                   c \in indexes /\ {rows[c][i] : i \in 1 .. lastSize'[c]} \subseteq entries'[c] \cup {wname}
             /\ c \in Own /\ cached'[c] = "tar" => c \notin indexes
             /\ c \in Own /\ cached'[c] = "index" =>
                   \A f \in Indexed(c) : f \in entries'[c] \/ (f = wname /\ wpc \in {"size", "entry"})
<1>7. /\ cached' \in [Container -> {"no", "tar", "index"}]
      /\ entries' \in [Container -> SUBSET File] /\ lastSize' \in [Container -> Nat]
      /\ \A c \in Container : Kept(c) /\ Right(c)
  BY <1>0, <1>2, <1>5, <1>6, Loaded
<1>8. Types' BY <1>0, <1>4, <1>6, <1>7 DEF Types, Moved
<1>9. Grow
  <2>1. \A c \in Container : Len(rows[c]) \in Nat BY <1>0, RowsAreFiles
  <2> QED BY <1>6, <1>7, <2>1 DEF Grow
<1>10. ASSUME NEW c \in Container PROVE ContainerInv(c)'
  <2>1. Right(c) BY <1>7
  <2>2. Indexed(c)' = Indexed(c) BY <1>6 DEF Indexed
  <2> QED BY <1>6, <2>1, <2>2 DEF ContainerInv, Entered
<1>11. VisitInv(r)' BY <1>3, <1>4 DEF VisitInv, Visiting
<1>12. WalkInv(r)'
  <2>1. \A c \in n.keys : cached'[c] # "no" BY <1>2, <1>3, <1>7
  <2>2. \A c \in snap[1] : cached'[c] # "no" BY <1>1, <1>2, <1>7
  <2>3. \A c \in snap[2] : cached'[c] = "index" BY <1>1, <1>2, <1>7
  <2> QED BY <1>1, <1>3, <1>4, <1>6, <2>1, <2>2, <2>3 DEF WalkInv
<1>13. ActiveInv(r)'
  <2>1. /\ o.want \in File \cup {Dir}
        /\ \A f \in o.due :
              /\ f # wname /\ (o.want \in {f, Dir}) /\ \E c \in Container : f \in Indexed(c)
              /\ (o.want = Dir /\ o.files[f] > 0)
        /\ \A f \in Name : o.files[f] > 0 =>
              o.files[f] = 1 /\ \E c \in Container : f \in records[c] /\ cached[c] # "no"
        /\ \A f \in File : o.files[f] <= Cardinality(Container)
    <3>1. Cardinality(o.keys) = 0 BY <1>1, FS_EmptySet
    <3>2. \A c : c \notin o.keys BY <1>1
    <3>3. \A f : \A c : ~Warm(r, c, f) BY <3>2 DEF Warm, o
    <3>4. read[r] = o /\ o.pc \in Active BY <1>0 DEF o, Active
    <3>5. \A f \in File : o.files[f] + 0 <= Cardinality(Container) + 0
      BY <1>0, <1>1, <3>1, <3>4 DEF ActiveInv
    <3>6. \A f \in File : o.files[f] <= Cardinality(Container)
      BY <1>1, <3>5, ContainersAreNumbers
    <3> QED BY <1>0, <3>3, <3>4, <3>6 DEF ActiveInv
  <2>2. \A f : \A c : f \in Indexed(c) <=> f \in Indexed(c)' BY <1>6 DEF Indexed
  <2>3. ASSUME NEW f \in Name, o.files[f] > 0
        PROVE  o.files[f] = 1
               /\ \E c \in Container \ n.keys : f \in records[c] /\ cached'[c] # "no"
    <3>1. PICK c \in Container : f \in records[c] /\ cached[c] # "no" BY <2>1, <2>3
    <3>2. c \in Own
      BY <3>1, ReadingAssumption DEF ReadingInv, DiskInv, Container
    <3>3. c \notin new
      <4>1. SUFFICES ASSUME c \in new PROVE FALSE OBVIOUS
      <4>2. cached[c] = "tar" BY <1>0, <1>5, <3>1, <4>1 DEF Types
      <4>3. c \notin indexes BY <3>2, <4>2 DEF ReadingInv, ContainerInv
      <4>4. c \notin snap[2] BY <1>1, <4>3
      <4>5. c \in NewOnes(snap) BY <4>1 DEF new
      <4> QED BY <3>1, <4>4, <4>5 DEF NewOnes, NewTars, NewIndexes
    <3> QED BY <1>2, <1>3, <1>7, <2>1, <2>3, <3>1, <3>3
  <2>4. ASSUME NEW f \in File
        PROVE  n.files[f] + Cardinality(n.keys) <= Cardinality(Container) + IF n.loaded THEN 1 ELSE 0
    <3>1. n.files[f] \in Nat /\ n.files[f] <= Cardinality(Container) BY <1>1, <1>3, <2>1
    <3>2. Cardinality(n.keys) \in Nat /\ Cardinality(n.keys) <= 1 BY <1>2, <1>3
    <3> QED BY <1>3, <3>1, <3>2, ContainersAreNumbers
  <2> QED BY <1>3, <1>4, <1>6, <2>1, <2>2, <2>3, <2>4 DEF ActiveInv
<1>14. DoneInv(r)' BY <1>3, <1>4 DEF DoneInv, Active
<1> QED BY <1>0, <1>4, <1>8, <1>9, <1>10, <1>11, <1>12, <1>13, <1>14, AfterCaching DEF ReaderInv

-----------------------------------------------------------------------------
(* The steps of the worker, and of replication.                             *)

\* A step that readers only see as growth.
LEMMA ReadersKept ==
    ASSUME ReadingInv, Types', Grow, read' = read
    PROVE  \A r \in Reader : ReaderInv(r)'
BY ReaderKept DEF ReadingInv

\* What a container keeps when its own files, rows and entries do not change.
LEMMA ContainerKept ==
    ASSUME ReadingInv, Grow, NEW c \in Container,
           rows'[c] = rows[c], cached'[c] = cached[c], entries'[c] = entries[c],
           lastSize'[c] = lastSize[c],
           c \in Own /\ c \notin indexes => c \notin indexes',
           wname \in {None, wname'} \/ wname \notin Indexed(c),
           wname' = wname => wpc' = wpc \/ wpc' \in {"size", "entry"}
    PROVE  ContainerInv(c)'
<1>1. ContainerInv(c) /\ Types BY DEF ReadingInv
<1>2. Indexed(c)' = Indexed(c) BY DEF Indexed
<1>3. lastSize[c] \in Nat /\ lastSize[c] <= Len(rows[c]) BY <1>1 DEF ContainerInv, Types
<1>4. cached[c] = "index" =>
        {rows'[c][i] : i \in 1 .. lastSize[c]} \subseteq entries'[c] \cup {wname'}
  BY <1>1, <1>3, EnteredKept DEF ContainerInv
<1>5. None \notin Indexed(c)
  BY <1>1, RowsAreFiles, ReadingAssumption DEF File
<1>6. tars \subseteq tars' /\ indexes \subseteq indexes' BY DEF Grow
<1>7. \A f \in Indexed(c) : f \in entries[c] \/ (f = wname /\ wpc \in {"size", "entry"}) =>
         f \in entries[c] \/ (f = wname' /\ wpc' \in {"size", "entry"})
  BY <1>5
<1> QED BY <1>1, <1>2, <1>3, <1>4, <1>6, <1>7 DEF ContainerInv, Entered

\* An index is made for the worker's container, which nobody has loaded.
LEMMA MakeIndexKeeps ==
    ASSUME ReadingInv, MakeIndex
    PROVE  ReadingInv'
<1>0. /\ wpc = "make" /\ wpc' = "record" /\ indexes' = indexes \cup {wcont}
      /\ cached' = [cached EXCEPT ![wcont] = "index"]
      /\ UNCHANGED <<tars, records, rows, behind, entries, lastSize, wname, wcont, read>>
      /\ Types /\ DiskInv /\ WriterInv
  BY DEF MakeIndex, ReadingInv
<1>1. /\ wcont \in Own /\ wcont \in Container /\ wcont \in tars /\ wcont \notin indexes
      /\ cached[wcont] = "no" /\ rows[wcont] = <<>>
  BY <1>0 DEF WriterInv, DiskInv, Container
<1>2. /\ cached' \in [Container -> {"no", "tar", "index"}] /\ cached'[wcont] = "index"
      /\ \A c \in Container : c # wcont => cached'[c] = cached[c]
  BY <1>0, <1>1 DEF Types
<1>3. Types' BY <1>0, <1>1, <1>2 DEF Types
<1>4. Grow
  <2>1. \A c \in Container : Len(rows[c]) \in Nat BY <1>0, RowsAreFiles
  <2> QED BY <1>0, <1>1, <1>2, <2>1 DEF Grow
<1>5. DiskInv' BY <1>0, <1>1 DEF DiskInv, Indexed
<1>6. WriterInv' BY <1>0, <1>1, <1>2 DEF WriterInv
<1>7. ASSUME NEW c \in Container, c # wcont PROVE ContainerInv(c)'
  BY <1>0, <1>2, <1>4, <1>7, ContainerKept DEF ReadingInv, ContainerInv, Entered, Indexed
<1>8. ASSUME NEW c \in Container, c = wcont PROVE ContainerInv(c)'
  <2>1. ContainerInv(c) BY DEF ReadingInv
  <2>2. Len(rows[c]) = 0 /\ Indexed(c) = {} BY <1>1, <1>8 DEF Indexed, ToSet
  <2>3. lastSize[c] \in Nat /\ lastSize[c] <= 0
    BY <1>0, <2>1, <2>2 DEF ContainerInv, Types
  <2>4. 1 .. lastSize[c] = {} BY <2>3
  <2>5. Indexed(c)' = {} BY <1>0, <2>2 DEF Indexed
  <2> QED BY <1>0, <1>1, <1>2, <1>8, <2>1, <2>2, <2>3, <2>4, <2>5 DEF ContainerInv, Entered
<1>9. \A r \in Reader : ReaderInv(r)' BY <1>0, <1>3, <1>4, ReadersKept
<1> QED BY <1>3, <1>5, <1>6, <1>7, <1>8, <1>9 DEF ReadingInv

\* The writer measures its own row too: wname is what is not entered.
LEMMA WriterSetsSizeKeeps ==
    ASSUME ReadingInv, WriterSetsSize
    PROVE  ReadingInv'
<1>0. /\ wpc = "size" /\ wpc' = "entry"
      /\ lastSize' = [lastSize EXCEPT ![wcont] = Len(rows[wcont])]
      /\ UNCHANGED <<diskVars, cached, entries, wname, wcont, read>>
      /\ Types /\ DiskInv /\ WriterInv
  BY DEF WriterSetsSize, ReadingInv
<1>1. wcont \in Own /\ wcont \in Container /\ cached[wcont] = "index"
  BY <1>0 DEF WriterInv, Container
<1>2. Len(rows[wcont]) \in Nat
      /\ Indexed(wcont) = {rows[wcont][i] : i \in 1 .. Len(rows[wcont])}
  BY <1>0, <1>1, RowsAreFiles
<1>3. /\ lastSize' \in [Container -> Nat] /\ lastSize'[wcont] = Len(rows[wcont])
      /\ \A c \in Container : c # wcont => lastSize'[c] = lastSize[c]
  BY <1>0, <1>1, <1>2 DEF Types
<1>4. Types' BY <1>0, <1>3 DEF Types, diskVars
<1>5. Grow
  <2>1. \A c \in Container : Len(rows[c]) \in Nat BY <1>0, RowsAreFiles
  <2> QED BY <1>0, <2>1 DEF Grow, diskVars
<1>6. DiskInv' BY <1>0 DEF DiskInv, Indexed, diskVars
<1>7. WriterInv' BY <1>0 DEF WriterInv, Indexed, diskVars
<1>8. ASSUME NEW c \in Container PROVE ContainerInv(c)'
  <2>1. ContainerInv(c) BY DEF ReadingInv
  <2>2. c = wcont => Entered(c, Len(rows[c]))
    BY <1>1, <1>2, <2>1 DEF ContainerInv, Entered
  <2> QED BY <1>0, <1>1, <1>2, <1>3, <2>1, <2>2 DEF ContainerInv, Entered, Indexed, diskVars
<1>9. \A r \in Reader : ReaderInv(r)' BY <1>0, <1>4, <1>5, ReadersKept
<1> QED BY <1>4, <1>6, <1>7, <1>8, <1>9 DEF ReadingInv

\* The writer enters wname, and nothing is excused any more.
LEMMA WriterSetsEntryKeeps ==
    ASSUME ReadingInv, WriterSetsEntry
    PROVE  ReadingInv'
<1>0. /\ wpc = "entry" /\ wpc' = "idle" /\ wname' = None /\ wcont' = 0
      /\ entries' = [entries EXCEPT ![wcont] = @ \cup {wname}]
      /\ UNCHANGED <<diskVars, cached, lastSize, read>>
      /\ Types /\ DiskInv /\ WriterInv
  BY DEF WriterSetsEntry, ReadingInv
<1>1. /\ wcont \in Own /\ wcont \in Container /\ wname \in Indexed(wcont)
      /\ wname \in Name /\ wname \in File
  BY <1>0 DEF WriterInv, Container, Types, File
<1>2. /\ entries' \in [Container -> SUBSET File]
      /\ entries'[wcont] = entries[wcont] \cup {wname}
      /\ \A c \in Container : c # wcont => entries'[c] = entries[c]
  BY <1>0, <1>1 DEF Types
<1>3. Types' BY <1>0, <1>2 DEF Types, diskVars
\* No other index has the file, and none has a file without a name.
<1>4. ASSUME NEW c \in Container, wname \in Indexed(c) PROVE c = wcont
  <2>1. wname \in records[c] /\ wname \in records[wcont]
    BY <1>0, <1>1, <1>4, IndexedNames
  <2> QED BY <1>0, <1>1, <2>1 DEF DiskInv
<1>5. ASSUME NEW c \in Container PROVE None \notin Indexed(c)
  BY <1>0, RowsAreFiles, ReadingAssumption DEF File
<1>6. Grow
  <2>1. \A c \in Container : Len(rows[c]) \in Nat BY <1>0, RowsAreFiles
  <2> QED BY <1>0, <1>2, <1>4, <1>5, <2>1 DEF Grow, diskVars
<1>7. DiskInv' BY <1>0 DEF DiskInv, Indexed, diskVars
<1>8. WriterInv' BY <1>0 DEF WriterInv
<1>9. ASSUME NEW c \in Container, c # wcont PROVE ContainerInv(c)'
  <2>1. wname \notin Indexed(c) BY <1>4, <1>9
  <2>2. wname' # wname BY <1>0, <1>1, ReadingAssumption
  <2> QED BY <1>0, <1>2, <1>6, <1>9, <2>1, <2>2, ContainerKept DEF diskVars
<1>10. ASSUME NEW c \in Container, c = wcont PROVE ContainerInv(c)'
  <2>1. ContainerInv(c) BY DEF ReadingInv
  <2>2. lastSize[c] \in Nat /\ lastSize[c] <= Len(rows[c]) BY <1>0, <2>1 DEF ContainerInv, Types
  <2>3. cached[c] = "index" =>
          {rows'[c][i] : i \in 1 .. lastSize[c]} \subseteq entries'[c] \cup {wname'}
    BY <1>0, <1>6, <2>1, <2>2, EnteredKept DEF ContainerInv
  <2>4. entries'[c] \subseteq Indexed(c) BY <1>1, <1>2, <1>10, <2>1 DEF ContainerInv
  <2>5. Indexed(c)' = Indexed(c) BY <1>0 DEF Indexed, diskVars
  <2> QED BY <1>0, <1>2, <1>10, <2>1, <2>2, <2>3, <2>4, <2>5 DEF ContainerInv, Entered, diskVars
<1>11. \A r \in Reader : ReaderInv(r)' BY <1>0, <1>3, <1>6, ReadersKept
<1> QED BY <1>3, <1>7, <1>8, <1>9, <1>10, <1>11 DEF ReadingInv

\* A row at the end leaves the rows before it and adds its file.
LEMMA RowAppended ==
    ASSUME Types, NEW c \in Container, NEW f \in File,
           rows' = [rows EXCEPT ![c] = Append(@, f)]
    PROVE  /\ rows' \in [Container -> Seq(File)]
           /\ Len(rows'[c]) = Len(rows[c]) + 1
           /\ \A i \in 1 .. Len(rows[c]) : rows'[c][i] = rows[c][i]
           /\ Indexed(c)' = Indexed(c) \cup {f}
           /\ \A d \in Container : d # c => rows'[d] = rows[d] /\ Indexed(d)' = Indexed(d)
           /\ \A d \in Container : Len(rows[d]) \in Nat
<1>1. /\ rows \in [Container -> Seq(File)] /\ rows[c] \in Seq(File) /\ Len(rows[c]) \in Nat
      /\ Indexed(c) = {rows[c][i] : i \in 1 .. Len(rows[c])}
  BY RowsAreFiles DEF Types
<1>2. /\ rows'[c] = Append(rows[c], f) /\ \A d \in Container : d # c => rows'[d] = rows[d]
  BY <1>1
<1>3. /\ Append(rows[c], f) \in Seq(File) /\ Len(Append(rows[c], f)) = Len(rows[c]) + 1
      /\ \A i \in 1 .. Len(rows[c]) : Append(rows[c], f)[i] = rows[c][i]
      /\ Append(rows[c], f)[Len(rows[c]) + 1] = f
  BY <1>1, AppendProperties
<1>4. rows' \in [Container -> Seq(File)] BY <1>1, <1>3
<1>5. DOMAIN rows'[c] = 1 .. Len(rows[c]) + 1 BY <1>2, <1>3, LenProperties
<1>6. Indexed(c)' = {rows'[c][i] : i \in 1 .. Len(rows[c]) + 1}
  BY <1>5 DEF Indexed, ToSet
<1>7. \A i \in 1 .. Len(rows[c]) : i \in 1 .. Len(rows[c]) + 1 BY <1>1
<1>8. \A i \in 1 .. Len(rows[c]) + 1 : i \in 1 .. Len(rows[c]) \/ i = Len(rows[c]) + 1 BY <1>1
<1>9. Len(rows[c]) + 1 \in 1 .. Len(rows[c]) + 1 BY <1>1
<1>10. Indexed(c)' = Indexed(c) \cup {f} BY <1>1, <1>2, <1>3, <1>6, <1>7, <1>8, <1>9
<1>11. \A d \in Container : d # c => Indexed(d)' = Indexed(d) BY <1>2 DEF Indexed
<1>12. \A d \in Container : Len(rows[d]) \in Nat BY RowsAreFiles
<1> QED BY <1>2, <1>3, <1>4, <1>10, <1>11, <1>12

\* The row of a new name is written at the end of its index.
LEMMA WriteKeeps ==
    ASSUME ReadingInv, Write
    PROVE  ReadingInv'
<1>0. /\ wpc = "record" /\ wpc' = "size"
      /\ records' = [records EXCEPT ![wcont] = @ \cup {wname}]
      /\ rows' = [rows EXCEPT ![wcont] = Append(@, wname)]
      /\ UNCHANGED <<tars, indexes, behind, cached, entries, lastSize, wname, wcont, read>>
      /\ Types /\ DiskInv /\ WriterInv
  BY DEF Write, ReadingInv, cacheVars
<1>1. /\ wcont \in Own /\ wcont \in Container /\ wcont \in indexes /\ cached[wcont] = "index"
      /\ wname \in Name /\ wname \in File /\ \A c \in Container : wname \notin records[c]
  BY <1>0 DEF WriterInv, Container, Types, File
<1>2. /\ rows' \in [Container -> Seq(File)]
      /\ Len(rows'[wcont]) = Len(rows[wcont]) + 1
      /\ \A i \in 1 .. Len(rows[wcont]) : rows'[wcont][i] = rows[wcont][i]
      /\ \A d \in Container : d # wcont => rows'[d] = rows[d] /\ Indexed(d)' = Indexed(d)
      /\ \A d \in Container : Len(rows[d]) \in Nat
  BY <1>0, <1>1, RowAppended
<1>3. ASSUME NEW c \in Container, c = wcont PROVE Indexed(c)' = Indexed(c) \cup {wname}
  BY <1>0, <1>1, <1>3, RowAppended
<1>4. /\ records' \in [Container -> SUBSET File] /\ records'[wcont] = records[wcont] \cup {wname}
      /\ \A d \in Container : d # wcont => records'[d] = records[d]
  BY <1>0, <1>1 DEF Types
<1>5. Types' BY <1>0, <1>2, <1>4 DEF Types
<1>6. Grow BY <1>0, <1>2, <1>4 DEF Grow
<1>7. DiskInv'
  <2>1. /\ \A c \in Own : Indexed(c) \subseteq records[c] /\ records[c] \subseteq Name
        /\ \A c \in Foreign : Indexed(c) \subseteq Copied /\ records[c] \subseteq Copied
        /\ Own \subseteq Container /\ Foreign \subseteq Container /\ wcont \notin Foreign
    BY <1>0, <1>1, ContainersAreNumbers DEF DiskInv, Container
  <2>2. ASSUME NEW c \in Own PROVE Indexed(c)' \subseteq records'[c] /\ records'[c] \subseteq Name
    BY <1>1, <1>2, <1>3, <1>4, <2>1
  <2>3. ASSUME NEW c \in Own \ indexes PROVE rows'[c] = <<>>
    BY <1>0, <1>1, <1>2, <2>1 DEF DiskInv
  <2>4. ASSUME NEW c \in Foreign PROVE Indexed(c)' \subseteq Copied /\ records'[c] \subseteq Copied
    BY <1>1, <1>2, <1>4, <2>1
  <2>5. ASSUME NEW c \in Container, NEW d \in Container,
               NEW f \in records'[c] \cap records'[d] \cap Name
        PROVE  c = d
    <3>1. CASE f = wname BY <1>1, <1>4, <3>1
    <3>2. CASE f # wname
      <4>1. f \in records[c] \cap records[d] \cap Name BY <1>4, <3>2
      <4> QED BY <1>0, <4>1 DEF DiskInv
    <3> QED BY <3>1, <3>2
  <2> QED BY <1>0, <2>2, <2>3, <2>4, <2>5 DEF DiskInv
<1>8. WriterInv'
  <2>1. PICK c \in Container : c = wcont BY <1>1
  <2>2. wname \in Indexed(c)' BY <1>3, <2>1
  <2>3. wname' \in Indexed(wcont)' BY <1>0, <2>1, <2>2 DEF Indexed
  <2> QED BY <1>0, <1>1, <2>3 DEF WriterInv
<1>9. ASSUME NEW c \in Container, c # wcont PROVE ContainerInv(c)'
  <2>1. wname \notin Indexed(c) BY <1>0, <1>1, IndexedNames
  <2> QED BY <1>0, <1>2, <1>6, <1>9, <2>1, ContainerKept
<1>10. ASSUME NEW c \in Container, c = wcont PROVE ContainerInv(c)'
  <2>1. ContainerInv(c) BY DEF ReadingInv
  <2>2. lastSize[c] \in Nat /\ lastSize[c] <= Len(rows[c]) BY <1>0, <2>1 DEF ContainerInv, Types
  <2>3. {rows'[c][i] : i \in 1 .. lastSize[c]} \subseteq entries'[c] \cup {wname'}
    BY <1>0, <1>1, <1>6, <1>10, <2>1, <2>2, EnteredKept DEF ContainerInv
  <2>4. Len(rows'[c]) \in Nat /\ lastSize[c] <= Len(rows'[c]) BY <1>2, <1>10, <2>2
  <2>5. Indexed(c)' = Indexed(c) \cup {wname} BY <1>3, <1>10
  <2>6. \A f \in Indexed(c) : f \in entries[c] \/ f = wname
    BY <1>1, <1>10, <2>1 DEF ContainerInv
  <2> QED BY <1>0, <1>1, <1>10, <2>1, <2>3, <2>4, <2>5, <2>6 DEF ContainerInv, Entered
<1>11. \A r \in Reader : ReaderInv(r)' BY <1>0, <1>5, <1>6, ReadersKept
<1> QED BY <1>5, <1>7, <1>8, <1>9, <1>10, <1>11 DEF ReadingInv

\* The index of a copied container arrives.
LEMMA CopyIndexKeeps ==
    ASSUME ReadingInv, NEW c \in Foreign, CopyIndex(c)
    PROVE  ReadingInv'
<1>0. /\ c \notin indexes /\ indexes' = indexes \cup {c} /\ c \in Container /\ c \notin Own
      /\ UNCHANGED <<tars, records, rows, behind, cached, entries, lastSize, wpc, wname, wcont, read>>
      /\ Types /\ DiskInv /\ WriterInv
  BY ContainersAreNumbers DEF CopyIndex, cacheVars, writerVars, ReadingInv, Container
<1>1. Types' BY <1>0 DEF Types
<1>2. Grow
  <2>1. \A d \in Container : Len(rows[d]) \in Nat BY <1>0, RowsAreFiles
  <2> QED BY <1>0, <2>1 DEF Grow
<1>3. DiskInv' BY <1>0 DEF DiskInv, Indexed
<1>4. WriterInv' BY <1>0 DEF WriterInv, Indexed
<1>5. ASSUME NEW d \in Container PROVE ContainerInv(d)'
  <2>1. d \in Own /\ d \notin indexes => d \notin indexes' BY <1>0
  <2> QED BY <1>0, <1>2, <2>1, ContainerKept
<1>6. \A r \in Reader : ReaderInv(r)' BY <1>0, <1>1, <1>2, ReadersKept
<1> QED BY <1>1, <1>3, <1>4, <1>5, <1>6 DEF ReadingInv

\* A row of a copied index arrives at its end.
LEMMA CopyRowKeeps ==
    ASSUME ReadingInv, NEW c \in Foreign, NEW f \in Copied, CopyRow(c, f)
    PROVE  ReadingInv'
<1>0. /\ rows' = [rows EXCEPT ![c] = Append(@, f)] /\ c \in Container /\ c \notin Own
      /\ f \in File /\ f \notin Name
      /\ UNCHANGED <<tars, indexes, records, behind, cached, entries, lastSize, wpc, wname, wcont, read>>
      /\ Types /\ DiskInv /\ WriterInv
  BY ContainersAreNumbers, ReadingAssumption
     DEF CopyRow, cacheVars, writerVars, ReadingInv, Container, File
<1>1. /\ rows' \in [Container -> Seq(File)]
      /\ Len(rows'[c]) = Len(rows[c]) + 1
      /\ \A i \in 1 .. Len(rows[c]) : rows'[c][i] = rows[c][i]
      /\ Indexed(c)' = Indexed(c) \cup {f}
      /\ \A d \in Container : d # c => rows'[d] = rows[d] /\ Indexed(d)' = Indexed(d)
      /\ \A d \in Container : Len(rows[d]) \in Nat
  BY <1>0, RowAppended
<1>2. Types' BY <1>0, <1>1 DEF Types
<1>3. Grow BY <1>0, <1>1 DEF Grow
<1>4. DiskInv'
  <2>1. \A d \in Own : d # c /\ d \in Container BY <1>0 DEF Container
  <2>2. \A d \in Foreign : d \in Container BY DEF Container
  <2>3. \A d \in Own : Indexed(d)' = Indexed(d) /\ rows'[d] = rows[d] BY <1>1, <2>1
  <2>4. \A d \in Foreign : Indexed(d)' \subseteq Indexed(d) \cup {f} BY <1>1, <2>2
  <2> QED BY <1>0, <2>3, <2>4 DEF DiskInv
<1>5. WriterInv'
  <2>1. wpc # "idle" => wcont \in Own BY <1>0 DEF WriterInv
  <2>2. wpc # "idle" => Indexed(wcont)' = Indexed(wcont)
    BY <1>0, <2>1 DEF Indexed, Container
  <2> QED BY <1>0, <2>2 DEF WriterInv
<1>6. ASSUME NEW d \in Container, d # c PROVE ContainerInv(d)'
  <2>1. rows'[d] = rows[d] BY <1>1, <1>6
  <2> QED BY <1>0, <1>3, <2>1, ContainerKept
<1>7. ContainerInv(c)'
  <2>1. ContainerInv(c) BY <1>0 DEF ReadingInv
  <2>2. lastSize[c] \in Nat /\ lastSize[c] <= Len(rows[c])
    BY <1>0, <2>1 DEF ContainerInv, Types
  <2>3. cached[c] = "index" =>
          {rows'[c][i] : i \in 1 .. lastSize[c]} \subseteq entries'[c] \cup {wname'}
    BY <1>0, <1>3, <2>1, <2>2, EnteredKept DEF ContainerInv
  <2>4. Len(rows[c]) \in Nat BY <1>0, <1>1
  <2>5. lastSize[c] <= Len(rows'[c]) BY <1>1, <2>2, <2>4
  <2> QED BY <1>0, <1>1, <2>1, <2>3, <2>5 DEF ContainerInv, Entered
<1>8. \A r \in Reader : ReaderInv(r)' BY <1>0, <1>2, <1>3, ReadersKept
<1> QED BY <1>2, <1>4, <1>5, <1>6, <1>7, <1>8 DEF ReadingInv

\* What both ways to a write container have in common.
LEMMA OpensKeep ==
    ASSUME ReadingInv, NEW f \in Name, wpc = "idle", ~Created(f),
           LoadContainers(NewOnes(Here)),
           UNCHANGED <<indexes, records, rows, behind, read>>,
           tars \subseteq tars', tars' \subseteq Container,
           wname' = f, wpc' \in {"make", "record"}, wcont' \in Own, wcont' \in tars',
           wpc' = "record" => cached'[wcont'] = "index",
           wpc' = "make" => wcont' \notin indexes /\ cached'[wcont'] = "no"
    PROVE  ReadingInv'
<1> DEFINE new == NewOnes(Here)
           Kept(c) ==
             /\ cached[c] # "no" => cached'[c] # "no"
             /\ cached[c] = "index" => cached'[c] = "index" /\ entries[c] \subseteq entries'[c]
           Right(c) ==
             /\ lastSize'[c] <= Len(rows[c]) /\ entries'[c] \subseteq Indexed(c)
             /\ cached'[c] # "no" => c \in tars \cup indexes
             /\ cached'[c] = "index" =>
                   c \in indexes /\ {rows[c][i] : i \in 1 .. lastSize'[c]} \subseteq entries'[c] \cup {wname}
             /\ c \in Own /\ cached'[c] = "tar" => c \notin indexes
             /\ c \in Own /\ cached'[c] = "index" =>
                   \A g \in Indexed(c) : g \in entries'[c] \/ (g = wname /\ wpc \in {"size", "entry"})
<1>0. Types /\ DiskInv /\ WriterInv /\ wname = None BY DEF ReadingInv, WriterInv
<1>1. Here[1] = tars /\ Here[2] = indexes /\ tars \subseteq Container /\ indexes \subseteq Container
  BY <1>0 DEF Here, Types
<1>2. /\ new \subseteq Container
      /\ \A c \in new : cached[c] # "index" /\ c \in tars \cup indexes
  BY <1>1, FirstNewIsNew
<1> HIDE DEF new
<1>3. /\ cached' \in [Container -> {"no", "tar", "index"}]
      /\ entries' \in [Container -> SUBSET File] /\ lastSize' \in [Container -> Nat]
      /\ \A c \in Container : Kept(c) /\ Right(c)
  BY <1>2, Loaded DEF new
<1>4. f \in File /\ f # None BY ReadingAssumption DEF File
<1>5. ASSUME NEW c \in Container
      PROVE  /\ Len(rows[c]) \in Nat /\ f \notin records[c] /\ f \notin Indexed(c)
             /\ None \notin Indexed(c)
             /\ Indexed(c) = {rows[c][i] : i \in 1 .. Len(rows[c])} /\ lastSize'[c] \in Nat
  <2>1. f \notin records[c] BY DEF Created
  <2>2. f \notin Indexed(c) BY <1>0, <2>1, IndexedNames
  <2>3. None \notin File BY ReadingAssumption DEF File
  <2> QED BY <1>0, <1>3, <2>1, <2>2, <2>3, RowsAreFiles
<1>6. Types' BY <1>0, <1>3 DEF Types
<1>7. Grow BY <1>0, <1>3, <1>5 DEF Grow
<1>8. DiskInv' BY <1>0 DEF DiskInv, Indexed
<1>9. WriterInv'
  <2>1. wcont' \in Container /\ Right(wcont') BY <1>3 DEF Container
  <2> QED BY <1>3, <1>4, <1>5, <2>1 DEF WriterInv
<1>10. ASSUME NEW c \in Container PROVE ContainerInv(c)'
  <2>1. Right(c) BY <1>3
  <2>2. Indexed(c)' = Indexed(c) BY DEF Indexed
  <2>3. ASSUME cached'[c] = "index"
        PROVE  {rows[c][i] : i \in 1 .. lastSize'[c]} \subseteq entries'[c]
    <3>1. \A i \in 1 .. lastSize'[c] : i \in 1 .. Len(rows[c]) BY <1>5, <2>1
    <3>2. \A i \in 1 .. lastSize'[c] : rows[c][i] \in Indexed(c) BY <1>5, <3>1
    <3> QED BY <1>0, <1>5, <2>1, <2>3, <3>2
  <2> QED BY <1>0, <2>1, <2>2, <2>3 DEF ContainerInv, Entered
<1>11. \A r \in Reader : ReaderInv(r)' BY <1>6, <1>7, ReadersKept
<1> QED BY <1>6, <1>8, <1>9, <1>10, <1>11 DEF ReadingInv

\* The worker loads all that is new and takes a container with an index.
LEMMA OpenKeeps ==
    ASSUME ReadingInv, NEW f \in Name, Open(f)
    PROVE  ReadingInv'
<1>1. /\ wcont' \in Own /\ wcont' \in tars /\ cached'[wcont'] = "index"
      /\ tars' = tars /\ tars \subseteq Container
  BY DEF Open, diskVars, ReadingInv, Types
<1> QED BY <1>1, OpensKeep DEF Open, diskVars

\* The worker makes the tar of the next number, which nobody has loaded.
LEMMA OpenNewKeeps ==
    ASSUME ReadingInv, NEW f \in Name, OpenNew(f)
    PROVE  ReadingInv'
<1>0. Types /\ DiskInv BY DEF ReadingInv
<1>1. wcont' \in Own \ tars
  <2>1. Own \ tars \in SUBSET Nat BY ContainersAreNumbers
  <2> QED BY <2>1, FirstIsElement DEF OpenNew
<1>2. PICK c \in Own \ tars : c = wcont' BY <1>1
<1>3. c \in Container /\ c \notin indexes /\ c \notin tars BY <1>0, <1>2 DEF DiskInv, Container
<1>4. c \notin NewOnes(Here)
  BY <1>3 DEF NewOnes, NewTars, NewIndexes, Here
<1>5. cached[c] = "no" BY <1>3 DEF ReadingInv, ContainerInv
<1>6. cached'[c] = "no" BY <1>3, <1>4, <1>5 DEF OpenNew, LoadContainers
<1>7. /\ wcont' \in Own /\ wcont' \in tars' /\ tars \subseteq tars' /\ tars' \subseteq Container
      /\ wcont' \notin indexes /\ cached'[wcont'] = "no"
  BY <1>0, <1>2, <1>3, <1>6 DEF OpenNew, Types
<1> QED BY <1>7, OpensKeep DEF OpenNew

\* Nothing is cached initially, whatever an earlier process left on the disk.
LEMMA InitReading == Init => ReadingInv
<1> SUFFICES ASSUME Init PROVE ReadingInv
  OBVIOUS
<1>1. /\ tars \subseteq Container /\ indexes \subseteq tars /\ indexes \subseteq Own
  BY DEF Init, Container
<1>2. PICK place \in [Name -> (tars \cap Own) \cup {None}] :
         /\ records = [c \in Container |-> IF c \in Own THEN {f \in Name : place[f] = c}
                                           ELSE IF c \in tars THEN Copied ELSE {}]
         /\ rows = [c \in Container |-> IF c \in indexes THEN SetToSeq(records[c]) ELSE <<>>]
  BY DEF Init
<1>3. /\ Own \cap Foreign = {} /\ Name \cap Copied = {} /\ None \notin Own
      /\ None \notin File /\ Container = Own \cup Foreign /\ File = Name \cup Copied
  BY ContainersAreNumbers, ReadingAssumption DEF Container, File
<1>4. ASSUME NEW c \in Container
      PROVE  /\ records[c] \in SUBSET File
             /\ c \in Own => records[c] = {f \in Name : place[f] = c}
             /\ c \in Foreign => records[c] \subseteq Copied
  BY <1>2, <1>3
<1>5. ASSUME NEW c \in Container
      PROVE  /\ rows[c] \in Seq(File) /\ Indexed(c) \subseteq records[c] \cap Name
             /\ (c \notin indexes => rows[c] = <<>>)
  <2>1. CASE c \notin indexes
    <3>1. rows[c] = <<>> BY <1>2, <2>1
    <3>2. Indexed(c) = {} BY <3>1 DEF Indexed, ToSet
    <3> QED BY <2>1, <3>1, <3>2, EmptySeq
  <2>2. CASE c \in indexes
    <3>1. rows[c] = SetToSeq(records[c]) /\ records[c] \subseteq Name
      BY <1>1, <1>2, <1>4, <2>2
    <3>2. IsFiniteSet(records[c]) BY <3>1, ReadingAssumption, FS_Subset
    <3>3. PICK S : S = records[c] OBVIOUS
    <3>4. SetToSeq(S) \in Seq(File) /\ ToSet(SetToSeq(S)) \subseteq S
      BY <1>4, <3>2, <3>3, RowsOfSet
    <3> QED BY <2>2, <3>1, <3>3, <3>4 DEF Indexed
  <2> QED BY <2>1, <2>2
<1>6. records \in [Container -> SUBSET File] BY <1>2, <1>4
<1>7. rows \in [Container -> Seq(File)] BY <1>2, <1>5
<1>8. IdleReader \in ReadType BY DEF IdleReader, ReadType, Answers
<1>a. behind \subseteq File
  <2>1. behind \subseteq UNION {records[c] : c \in tars \ (indexes \cup Foreign)}
    BY DEF Init
  <2> QED BY <1>1, <1>4, <2>1
<1>9. Types BY <1>1, <1>3, <1>6, <1>7, <1>8, <1>a DEF Init, Types
<1>10. DiskInv
  <2>1. ASSUME NEW c \in Own \ indexes PROVE rows[c] = <<>> BY <1>3, <1>5
  <2>2. ASSUME NEW c \in Container, NEW d \in Container,
               NEW f \in records[c] \cap records[d] \cap Name
        PROVE  c = d
    <3>1. c \in Own /\ d \in Own BY <1>3, <1>4
    <3> QED BY <1>4, <3>1
  <2>3. \A c \in Own : Indexed(c) \subseteq records[c] /\ records[c] \subseteq Name
    BY <1>3, <1>4, <1>5
  <2>4. \A c \in Foreign : Indexed(c) \subseteq Copied /\ records[c] \subseteq Copied
    BY <1>3, <1>4, <1>5
  <2> QED BY <1>1, <2>1, <2>2, <2>3, <2>4 DEF DiskInv
<1>11. WriterInv BY DEF Init, WriterInv
<1>12. ASSUME NEW c \in Container PROVE ContainerInv(c)
  <2>1. Len(rows[c]) \in Nat BY <1>9, RowsAreFiles
  <2> QED BY <2>1 DEF Init, ContainerInv
<1>13. ASSUME NEW r \in Reader PROVE ReaderInv(r)
  <2>1. /\ read[r].pc = "idle" /\ read[r].keys = {} /\ ~read[r].loaded
        /\ read[r].snap = <<{}, {}>> /\ read[r].files = [f \in File |-> 0]
    BY DEF Init, IdleReader
  <2> QED BY <2>1 DEF ReaderInv, VisitInv, WalkInv, ActiveInv, DoneInv, Active, Visiting
<1> QED BY <1>9, <1>10, <1>11, <1>12, <1>13 DEF ReadingInv

\* The steps of a reader.
LEMMA ReaderStepKeeps ==
    ASSUME ReadingInv, NEW r \in Reader, ReaderStep(r)
    PROVE  ReadingInv'
<1>1. ASSUME NEW c \in Container, Visit(r, c) PROVE ReadingInv' BY <1>1, VisitKeeps
<1>2. ASSUME NEW c \in Container, Stat(r, c) PROVE ReadingInv' BY <1>2, StatKeeps
<1>3. CASE ReadRows(r) BY <1>3, ReadRowsKeeps
<1>4. CASE SetSize(r) BY <1>4, SetSizeKeeps
<1>5. CASE Look(r) BY <1>5, LookKeeps
<1>6. CASE ListDirectory(r) BY <1>6, ListDirectoryKeeps
<1>7. CASE Load(r) BY <1>7, LoadKeeps
<1>8. CASE AnswerNotFound(r) BY <1>8, AnswerNotFoundKeeps
<1>9. CASE AnswerListing(r) BY <1>9, AnswerListingKeeps
<1> QED BY <1>1, <1>2, <1>3, <1>4, <1>5, <1>6, <1>7, <1>8, <1>9 DEF ReaderStep

\* Every step keeps the invariant.
LEMMA NextReading == ReadingInv /\ [Next]_vars => ReadingInv'
<1> SUFFICES ASSUME ReadingInv, [Next]_vars PROVE ReadingInv'
  OBVIOUS
<1>1. CASE WriterStep
  <2>1. ASSUME NEW f \in Name, Open(f) PROVE ReadingInv' BY <2>1, OpenKeeps
  <2>2. ASSUME NEW f \in Name, OpenNew(f) PROVE ReadingInv' BY <2>2, OpenNewKeeps
  <2> QED BY <1>1, <2>1, <2>2, MakeIndexKeeps, WriteKeeps, WriterSetsSizeKeeps,
             WriterSetsEntryKeeps DEF WriterStep
<1>2. ASSUME NEW c \in Foreign, CopyIndex(c) PROVE ReadingInv' BY <1>2, CopyIndexKeeps
<1>3. ASSUME NEW c \in Foreign, NEW f \in Copied, CopyRow(c, f) PROVE ReadingInv'
  BY <1>3, CopyRowKeeps
<1>4. ASSUME NEW r \in Reader, ReaderStep(r) PROVE ReadingInv' BY <1>4, ReaderStepKeeps
<1>5. ASSUME NEW r \in Reader, NEW w \in Wants[r], Start(r, w) PROVE ReadingInv'
  BY <1>5, StartKeeps
<1>6. CASE UNCHANGED vars
  <2>1. UNCHANGED Shared /\ read' = read BY <1>6 DEF vars, Shared
  <2>2. Types' BY <2>1 DEF ReadingInv, Types, Shared, diskVars, cacheVars, writerVars
  <2>3. \A r \in Reader : ReaderInv(r)'
    BY <2>1, <2>2, StillGrows, ReadersKept DEF ReadingInv
  <2>4. DiskInv' /\ WriterInv' /\ \A c \in Container : ContainerInv(c)'
    BY <2>1 DEF ReadingInv, DiskInv, WriterInv, ContainerInv, Entered, Indexed,
                Shared, diskVars, cacheVars, writerVars
  <2> QED BY <2>2, <2>3, <2>4 DEF ReadingInv
<1> QED BY <1>1, <1>2, <1>3, <1>4, <1>5, <1>6 DEF Next

-----------------------------------------------------------------------------
(* The theorems.                                                            *)

\* The inductive invariant: what lies before lastSize is entered, the writer's
\* container is loaded by its index, and what is due to a reader is found or
\* still before it in a container where it will look it up.
THEOREM ReadingInvariance == Spec => []ReadingInv
<1>1. Init => ReadingInv BY InitReading
<1>2. ReadingInv /\ [Next]_vars => ReadingInv' BY NextReading
<1> QED BY <1>1, <1>2, PTL DEF Spec

\* Every variable keeps its type: lastSize never passes the end of its index,
\* and a walk lists a file at most once for every container, and once more.
THEOREM ReadingTypeCorrectness == Spec => []TypeOK
<1>1. ReadingInv => TypeOK
  <2> SUFFICES ASSUME ReadingInv PROVE TypeOK
    OBVIOUS
  <2>1. Types BY DEF ReadingInv
  <2>2. ASSUME NEW c \in Container
        PROVE  records[c] \subseteq File /\ rows[c] \in Seq(File) /\ lastSize[c] \in 0 .. Len(rows[c])
    <3>1. Len(rows[c]) \in Nat /\ lastSize[c] \in Nat /\ lastSize[c] <= Len(rows[c])
      BY <2>1, RowsAreFiles DEF ReadingInv, ContainerInv
    <3> QED BY <2>1, <3>1 DEF Types
  <2>3. ASSUME NEW r \in Reader
        PROVE  /\ read[r].pc \in {"idle", "walk", "rows", "size", "look", "load", "done"}
               /\ read[r].want \in File \cup {Dir, None}
               /\ read[r].keys \subseteq Container /\ read[r].cont \in Container \cup {0}
               /\ read[r].files \in [File -> 0..Cardinality(Container) + 1]
    <3>1. read[r] \in ReadType BY <2>1 DEF Types
    <3>2. read[r].files \in [File -> Nat] /\ read[r].keys \in SUBSET Container
      BY <3>1 DEF ReadType
    <3>3. ASSUME NEW f \in File PROVE read[r].files[f] \in 0..Cardinality(Container) + 1
      <4>1. read[r].files[f] \in Nat /\ Cardinality(Container) \in Nat
        BY <3>2, ContainersAreNumbers
      <4>2. Cardinality(read[r].keys) \in Nat BY <3>2, Counting
      <4>3. CASE read[r].pc \in Active
        <5>1. read[r].files[f] + Cardinality(read[r].keys)
                 <= Cardinality(Container) + IF read[r].loaded THEN 1 ELSE 0
          BY <4>3 DEF ReadingInv, ReaderInv, ActiveInv
        <5>2. read[r].files[f] <= Cardinality(Container) + 1 BY <4>1, <4>2, <5>1
        <5> QED BY <4>1, <5>2
      <4>4. CASE read[r].pc \notin Active
        <5>1. read[r].files[f] = 0 BY <4>4 DEF ReadingInv, ReaderInv, DoneInv
        <5> QED BY <4>1, <5>1
      <4> QED BY <4>3, <4>4
    <3> QED BY <3>1, <3>2, <3>3 DEF ReadType, Active, Visiting
  <2> QED BY <2>1, <2>2, <2>3 DEF Types, TypeOK
<1> QED BY <1>1, ReadingInvariance, PTL

\* Whoever moves an index's lastSize under whom, no row is passed over
\* (updateEntries, AddRegularFile).
THEOREM NoRowIsSkipped == Spec => []NothingSkipped
<1>1. ReadingInv => NothingSkipped
  BY DEF ReadingInv, ContainerInv, Entered, NothingSkipped
<1> QED BY <1>1, ReadingInvariance, PTL

\* A walk that has loaded has put all that it saw in the directory into the
\* cache (regularFileContainerWalker.Next).
THEOREM WalksLoadAll == Spec => []WalkLoadsAll
<1>1. ReadingInv => WalkLoadsAll BY DEF ReadingInv, ReaderInv, WalkInv, WalkLoadsAll
<1> QED BY <1>1, ReadingInvariance, PTL

\* What was in a cached index when the request came is found and listed, however
\* readers and the writer share the index (GetRegularFile, ListFiles).
THEOREM WarmFilesFound == Spec => []WarmFilesAreFound
<1>1. ReadingInv => WarmFilesAreFound
  <2> SUFFICES ASSUME ReadingInv, NEW r \in Reader
               PROVE  /\ \A f \in read[r].due : ~(Done(r, f) /\ Refused(r))
                      /\ Done(r, Dir) => \A f \in read[r].due : read[r].answer[f] > 0
    BY DEF WarmFilesAreFound
  <2>1. DoneInv(r) /\ read[r].due \subseteq File
    BY DEF ReadingInv, ReaderInv, Types, ReadType
  <2>2. ASSUME NEW f \in read[r].due, Done(r, f), Refused(r) PROVE FALSE
    <3>1. read[r].answer = "found" BY <2>1, <2>2 DEF Done, At, DoneInv
    <3> QED BY <2>2, <3>1 DEF Refused
  <2>3. ASSUME Done(r, Dir) PROVE \A f \in read[r].due : read[r].answer[f] > 0
    BY <2>1, <2>3 DEF Done, At, DoneInv
  <2> QED BY <2>2, <2>3
<1> QED BY <1>1, ReadingInvariance, PTL

\* A file of the node is listed at most once, although containers are loaded
\* while the walk is on its way (ReadDir).
THEOREM OwnFilesAreListedOnce == Spec => []ListedOnce
<1>1. ReadingInv => ListedOnce
  BY DEF ReadingInv, ReaderInv, Done, At, DoneInv, ListedOnce
<1> QED BY <1>1, ReadingInvariance, PTL
=============================================================================
