------------------------- MODULE WriteContainerProofs -------------------------
(***************************************************************************)
(* Proofs about WriteContainer, for any number of workers, requests and    *)
(* containers and any container size: the inductive invariant IInv, the    *)
(* safety properties that follow from it, and the implementation of        *)
(* FileStore.  Only AckedIsStored, and with it the implementation of       *)
(* FileStore, asks the disk not to lose rows of an index ("indexWrite").   *)
(***************************************************************************)
EXTENDS WriteContainer, TLAPS

USE SizeAssumption, NumberAssumption, NameOrderAssumption, NoneAssumption
    DEF Nil, PC, Ensuring, Writing

-----------------------------------------------------------------------------
(* Lemmas about single operators.                                           *)

\* A walk only comes across containers that exist.
LEMMA CandidatesExist ==
    ASSUME TypeOK
    PROVE  Candidates \subseteq tars
BY DEF TypeOK, Candidates, Visited, FirstListed

\* Loading the containers gives each one a size.
LEMMA LoadedType ==
    ASSUME TypeOK, LoadContainers
    PROVE  containers' = tars /\ Size' \in [Number -> Nat]
BY DEF TypeOK, LoadContainers

\* A worker that waits for a writeMutex, or has one, has a container.
LEMMA HasContainer ==
    ASSUME TypeOK, Locks, NEW w \in Worker, pc[w] \in {"lock"} \cup Writing
    PROVE  cont[w] \in containers /\ cont[w] \in tars /\ cont[w] \in Number
BY DEF TypeOK, Locks

\* A container is written by one worker at a time.
LEMMA OneWriter ==
    ASSUME TypeOK, Locks,
           NEW v \in Worker, NEW w \in Worker, v # w,
           pc[v] \in Writing, pc[w] \in Writing
    PROVE  cont[v] # cont[w]
BY DEF Locks

\* A record that starts at the end of the tar overwrites nothing.
LEMMA EndIsFree ==
    ASSUME TypeOK, Records, NEW n \in Number, writeFd[n]
    PROVE  Overwritten(n, position[n]) = blocks
<1>1. \A b \in blocks : b.number = n => b.address < position[n]
  BY DEF Records
<1>2. position[n] \in Nat /\ \A b \in blocks : b.address \in Nat
  BY DEF TypeOK, Block
<1>3. \A b \in blocks : ~(b.number = n /\ b.address = position[n])
  BY <1>1, <1>2
<1> QED BY <1>3 DEF Overwritten

\* A header is appended to the tar.
LEMMA HeaderAppends ==
    ASSUME DiskInv, NEW w \in Worker, WriteHeader(w)
    PROVE  blocks' = blocks \cup {[number |-> cont[w], address |-> position[cont[w]],
                                  file |-> req[w], whole |-> FALSE]}
BY HasContainer, EndIsFree DEF DiskInv, WriteHeader

\* The data completes the record of its header and touches no other.
LEMMA DataCompletes ==
    ASSUME DiskInv, NEW w \in Worker, WriteData(w)
    PROVE  /\ Mine(w, FALSE) \in blocks
           /\ blocks' = (blocks \ {Mine(w, FALSE)}) \cup {Mine(w, TRUE)}
<1>1. Mine(w, FALSE) \in blocks BY DEF DiskInv, InProgress, WriteData
<1>2. \A b \in blocks :
         b.number = cont[w] /\ b.address = addr[w] <=> b = Mine(w, FALSE)
  BY <1>1 DEF DiskInv, Records, Mine
<1>3. Overwritten(cont[w], addr[w]) = blocks \ {Mine(w, FALSE)}
  BY <1>2 DEF Overwritten
<1> QED BY <1>1, <1>3 DEF WriteData

\* Every step keeps the types.
LEMMA TypeStep ==
    ASSUME DiskInv, Next
    PROVE  TypeOK'
<1> USE DEF DiskInv
<1>1. ASSUME NEW w \in Worker, NEW f \in File, Accept(w, f)
      PROVE  TypeOK'
  BY <1>1 DEF Accept, TypeOK, Goto, diskVars, entryVars, objectVars, workerVars
<1>2. ASSUME NEW w \in Worker, LockEntry(w) PROVE TypeOK'
  BY <1>2 DEF LockEntry, TypeOK, Goto, diskVars, entryVars, objectVars, workerVars
<1>3. ASSUME NEW w \in Worker, KeepContainer(w) PROVE TypeOK'
  BY <1>3 DEF KeepContainer, TypeOK, Goto, diskVars, entryVars, objectVars, workerVars
<1>4. ASSUME NEW w \in Worker, CloseTar(w) PROVE TypeOK'
  BY <1>4 DEF CloseTar, TypeOK, Goto, diskVars, entryVars, objectVars, workerVars
<1>5. ASSUME NEW w \in Worker, CloseIndex(w) PROVE TypeOK'
  BY <1>5 DEF CloseIndex, TypeOK, Goto, diskVars, entryVars, objectVars, workerVars
<1>6. ASSUME NEW w \in Worker, StartWalk(w) PROVE TypeOK'
  BY <1>6 DEF StartWalk, TypeOK, Goto, diskVars, entryVars, objectVars, workerVars
<1>7. ASSUME NEW w \in Worker, PickContainer(w) PROVE TypeOK'
  <2>1. Candidates \subseteq tars BY CandidatesExist DEF DiskInv
  <2>2. containers' = tars /\ Size' \in [Number -> Nat]
    BY <1>7, LoadedType DEF DiskInv, PickContainer
  <2> QED BY <1>7, <2>1, <2>2 DEF PickContainer, TypeOK, Goto, diskVars
<1>8. ASSUME NEW w \in Worker, ReuseContainer(w) PROVE TypeOK'
  <2>1. containers' = tars /\ Size' \in [Number -> Nat]
    BY <1>8, LoadedType DEF DiskInv, ReuseContainer
  <2> QED BY <1>8, <2>1 DEF ReuseContainer, TypeOK, Goto, diskVars
<1>9. ASSUME NEW w \in Worker, MakeTar(w) PROVE TypeOK'
  <2>1. containers' = tars /\ Size' \in [Number -> Nat]
    BY <1>9, LoadedType DEF DiskInv, MakeTar
  <2> QED BY <1>9, <2>1 DEF MakeTar, TypeOK, Goto, diskVars
<1>10. ASSUME NEW w \in Worker, MakeIndex(w) PROVE TypeOK'
  <2>1. cont[w] \in tars BY <1>10 DEF Locks, MakeIndex
  <2> QED BY <1>10, <2>1 DEF MakeIndex, TypeOK, Goto, objectVars
<1>11. ASSUME NEW w \in Worker, Use(w) PROVE TypeOK'
  BY <1>11 DEF Use, TypeOK, Goto, diskVars, entryVars, objectVars, workerVars
<1>12. ASSUME NEW w \in Worker, Panic(w) PROVE TypeOK'
  BY <1>12 DEF Panic, ForgetMemory, TypeOK, Goto, diskVars, entryVars, objectVars, workerVars
<1>13. ASSUME NEW w \in Worker, LockContainer(w) PROVE TypeOK'
  BY <1>13 DEF LockContainer, TypeOK, Goto, diskVars, entryVars, objectVars, workerVars
<1>14. ASSUME NEW w \in Worker, OpenTar(w) PROVE TypeOK'
  <2>1. cont[w] \in Number BY <1>14, HasContainer DEF OpenTar
  <2>2. writeFd' \in [Number -> BOOLEAN] /\ tarErr' \in [Number -> BOOLEAN]
    BY <1>14 DEF OpenTar, TypeOK
  <2>3. position' \in [Number -> Nat]
    BY <1>14, <2>1 DEF OpenTar, TypeOK
  <2> QED BY <1>14, <2>2, <2>3 DEF OpenTar, TypeOK, Goto, diskVars, entryVars
<1>15. ASSUME NEW w \in Worker, WriteHeader(w) PROVE TypeOK'
  <2>1. cont[w] \in Number /\ position[cont[w]] \in Nat
    BY <1>15, HasContainer DEF WriteHeader, TypeOK
  <2>2. req[w] \in File BY <1>15 DEF Requests, WriteHeader
  <2>3. blocks' \subseteq Block
    <3>1. [number |-> cont[w], address |-> position[cont[w]],
            file |-> req[w], whole |-> FALSE] \in Block
      BY <2>1, <2>2 DEF Block
    <3>2. Overwritten(cont[w], position[cont[w]]) \subseteq Block
      BY DEF Overwritten, TypeOK
    <3> QED BY <1>15, <3>1, <3>2 DEF WriteHeader
  <2>4. position' \in [Number -> Nat] BY <1>15, <2>1 DEF WriteHeader, TypeOK
  <2>5. size' \in [Number -> Nat] BY <1>15, <2>1 DEF WriteHeader, TypeOK
  <2>6. addr' \in [Worker -> Nat] BY <1>15, <2>1 DEF WriteHeader, TypeOK
  <2> QED BY <1>15, <2>3, <2>4, <2>5, <2>6 DEF WriteHeader, TypeOK, Goto, entryVars
<1>16. ASSUME NEW w \in Worker, SeekFails(w) PROVE TypeOK'
  BY <1>16 DEF SeekFails, Return, TypeOK, Goto, diskVars, entryVars, objectVars, workerVars
<1>17. ASSUME NEW w \in Worker, HeaderFails(w) PROVE TypeOK'
  BY <1>17 DEF HeaderFails, Return, TypeOK, Goto, diskVars, entryVars, objectVars, workerVars
<1>18. ASSUME NEW w \in Worker, WriteData(w) PROVE TypeOK'
  <2>1. cont[w] \in Number BY <1>18, HasContainer DEF WriteData
  <2>2. req[w] \in File BY <1>18 DEF Requests, WriteData
  <2>3. blocks' \subseteq Block
    <3>1. Mine(w, TRUE) \in Block BY <2>1, <2>2 DEF Mine, Block, TypeOK
    <3>2. Overwritten(cont[w], addr[w]) \subseteq Block
      BY DEF Overwritten, TypeOK
    <3> QED BY <1>18, <3>1, <3>2 DEF WriteData
  <2> QED BY <1>18, <2>3 DEF WriteData, TypeOK, Goto, entryVars, objectVars
<1>19. ASSUME NEW w \in Worker, DataFails(w) PROVE TypeOK'
  BY <1>19 DEF DataFails, Return, TypeOK, Goto, diskVars, entryVars, objectVars, workerVars
<1>20. ASSUME NEW w \in Worker, TarFault(w) PROVE TypeOK'
  BY <1>20 DEF TarFault, Return, TypeOK, Goto, diskVars, entryVars, objectVars, workerVars
<1>21. ASSUME NEW w \in Worker, OpenIndex(w) PROVE TypeOK'
  BY <1>21 DEF OpenIndex, TypeOK, Goto, diskVars, entryVars, objectVars, workerVars
<1>22. ASSUME NEW w \in Worker, NoIndex(w) PROVE TypeOK'
  BY <1>22 DEF NoIndex, TypeOK, Goto, diskVars, entryVars, objectVars, workerVars
<1>23. ASSUME NEW w \in Worker, WriteRow(w) PROVE TypeOK'
  <2>1. cont[w] \in Number BY <1>23, HasContainer DEF WriteRow
  <2>2. req[w] \in File BY <1>23 DEF Requests, WriteRow
  <2>3. rows' \subseteq Row
    BY <1>23, <2>1, <2>2 DEF WriteRow, MyRow, TypeOK, Row
  <2> QED BY <1>23, <2>3 DEF WriteRow, TypeOK, Goto, entryVars, objectVars
<1>24. ASSUME NEW w \in Worker, Sync(w) PROVE TypeOK'
  BY <1>24 DEF Sync, TypeOK, Goto, diskVars, entryVars, objectVars, workerVars
<1>25. ASSUME NEW w \in Worker, SyncFails(w) PROVE TypeOK'
  BY <1>25 DEF SyncFails, Return, TypeOK, Goto, diskVars, entryVars, objectVars, workerVars
<1>26. ASSUME NEW w \in Worker, SetSize(w) PROVE TypeOK'
  <2>1. Size' \in [Number -> Nat]
    BY <1>26, HasContainer DEF SetSize, TypeOK
  <2> QED BY <1>26, <2>1 DEF SetSize, Return, TypeOK, Goto, diskVars, entryVars
<1>27. CASE ReaderLoads
  <2>1. containers' = tars /\ Size' \in [Number -> Nat]
    BY <1>27, LoadedType DEF DiskInv, ReaderLoads
  <2> QED BY <1>27, <2>1 DEF ReaderLoads, TypeOK, diskVars, workerVars
<1>28. CASE Restart
  BY <1>28 DEF Restart, ForgetMemory, TypeOK, Goto, diskVars, entryVars, objectVars, workerVars
<1>29. CASE Finished
  BY <1>29 DEF Finished, vars, TypeOK, Goto, diskVars, entryVars, objectVars, workerVars
<1> QED
  BY <1>1, <1>2, <1>3, <1>4, <1>5, <1>6, <1>7, <1>8, <1>9, <1>10, <1>11,
     <1>12, <1>13, <1>14, <1>15, <1>16, <1>17, <1>18, <1>19, <1>20, <1>21,
     <1>22, <1>23, <1>24, <1>25, <1>26, <1>27, <1>28, <1>29 DEF
     Next, Step, Ensure, CreateRegularFile

\* Every step keeps the mutexes in order.
LEMMA LocksStep ==
    ASSUME DiskInv, Next
    PROVE  Locks'
<1> USE DEF DiskInv
<1>1. ASSUME NEW w \in Worker, NEW f \in File, Accept(w, f)
      PROVE  Locks'
  BY <1>1 DEF Accept, TypeOK, Locks, Goto, diskVars, entryVars, objectVars, workerVars
<1>2. ASSUME NEW w \in Worker, LockEntry(w) PROVE Locks'
  BY <1>2 DEF LockEntry, TypeOK, Locks, Goto, diskVars, entryVars, objectVars, workerVars
<1>3. ASSUME NEW w \in Worker, KeepContainer(w) PROVE Locks'
  BY <1>3 DEF KeepContainer, TypeOK, Locks, Goto, diskVars, entryVars, objectVars, workerVars
<1>4. ASSUME NEW w \in Worker, CloseTar(w) PROVE Locks'
  BY <1>4 DEF CloseTar, TypeOK, Locks, Goto, diskVars, entryVars, objectVars, workerVars
<1>5. ASSUME NEW w \in Worker, CloseIndex(w) PROVE Locks'
  BY <1>5 DEF CloseIndex, TypeOK, Locks, Goto, diskVars, entryVars, objectVars, workerVars
<1>6. ASSUME NEW w \in Worker, StartWalk(w) PROVE Locks'
  BY <1>6 DEF StartWalk, TypeOK, Locks, Goto, diskVars, entryVars, objectVars, workerVars
<1>7. ASSUME NEW w \in Worker, PickContainer(w) PROVE Locks'
  BY <1>7 DEF PickContainer, LoadContainers, Candidates, Visited, FirstListed, TypeOK, Locks, Goto, diskVars, entryVars, objectVars, workerVars
<1>8. ASSUME NEW w \in Worker, ReuseContainer(w) PROVE Locks'
  BY <1>8 DEF ReuseContainer, LoadContainers, Candidates, Visited, FirstListed, TypeOK, Locks, Goto, diskVars, entryVars, objectVars, workerVars
<1>9. ASSUME NEW w \in Worker, MakeTar(w) PROVE Locks'
  BY <1>9 DEF MakeTar, LoadContainers, TypeOK, Locks, Goto, diskVars, entryVars, objectVars, workerVars
<1>10. ASSUME NEW w \in Worker, MakeIndex(w) PROVE Locks'
  BY <1>10 DEF MakeIndex, TypeOK, Locks, Goto, diskVars, entryVars, objectVars, workerVars
<1>11. ASSUME NEW w \in Worker, Use(w) PROVE Locks'
  BY <1>11 DEF Use, TypeOK, Locks, Goto, diskVars, entryVars, objectVars, workerVars
<1>12. ASSUME NEW w \in Worker, Panic(w) PROVE Locks'
  BY <1>12 DEF Panic, ForgetMemory, TypeOK, Locks, Goto, diskVars, entryVars, objectVars, workerVars
<1>13. ASSUME NEW w \in Worker, LockContainer(w) PROVE Locks'
  BY <1>13 DEF LockContainer, TypeOK, Locks, Goto, diskVars, entryVars, objectVars, workerVars
<1>14. ASSUME NEW w \in Worker, OpenTar(w) PROVE Locks'
  BY <1>14 DEF OpenTar, TypeOK, Locks, Goto, diskVars, entryVars, objectVars, workerVars
<1>15. ASSUME NEW w \in Worker, WriteHeader(w) PROVE Locks'
  BY <1>15 DEF WriteHeader, Overwritten, TypeOK, Locks, Goto, diskVars, entryVars, objectVars, workerVars
<1>16. ASSUME NEW w \in Worker, SeekFails(w) PROVE Locks'
  BY <1>16 DEF SeekFails, Return, TypeOK, Locks, Goto, diskVars, entryVars, objectVars, workerVars
<1>17. ASSUME NEW w \in Worker, HeaderFails(w) PROVE Locks'
  BY <1>17 DEF HeaderFails, Return, TypeOK, Locks, Goto, diskVars, entryVars, objectVars, workerVars
<1>18. ASSUME NEW w \in Worker, WriteData(w) PROVE Locks'
  BY <1>18 DEF WriteData, Overwritten, Mine, TypeOK, Locks, Goto, diskVars, entryVars, objectVars, workerVars
<1>19. ASSUME NEW w \in Worker, DataFails(w) PROVE Locks'
  BY <1>19 DEF DataFails, Return, TypeOK, Locks, Goto, diskVars, entryVars, objectVars, workerVars
<1>20. ASSUME NEW w \in Worker, TarFault(w) PROVE Locks'
  BY <1>20 DEF TarFault, Return, TypeOK, Locks, Goto, diskVars, entryVars, objectVars, workerVars
<1>21. ASSUME NEW w \in Worker, OpenIndex(w) PROVE Locks'
  BY <1>21 DEF OpenIndex, TypeOK, Locks, Goto, diskVars, entryVars, objectVars, workerVars
<1>22. ASSUME NEW w \in Worker, NoIndex(w) PROVE Locks'
  BY <1>22 DEF NoIndex, TypeOK, Locks, Goto, diskVars, entryVars, objectVars, workerVars
<1>23. ASSUME NEW w \in Worker, WriteRow(w) PROVE Locks'
  BY <1>23 DEF WriteRow, MyRow, TypeOK, Locks, Goto, diskVars, entryVars, objectVars, workerVars
<1>24. ASSUME NEW w \in Worker, Sync(w) PROVE Locks'
  BY <1>24 DEF Sync, TypeOK, Locks, Goto, diskVars, entryVars, objectVars, workerVars
<1>25. ASSUME NEW w \in Worker, SyncFails(w) PROVE Locks'
  BY <1>25 DEF SyncFails, Return, TypeOK, Locks, Goto, diskVars, entryVars, objectVars, workerVars
<1>26. ASSUME NEW w \in Worker, SetSize(w) PROVE Locks'
  BY <1>26 DEF SetSize, Return, TypeOK, Locks, Goto, diskVars, entryVars, objectVars, workerVars
<1>27. CASE ReaderLoads
  BY <1>27 DEF ReaderLoads, LoadContainers, TypeOK, Locks, Goto, diskVars, entryVars, objectVars, workerVars
<1>28. CASE Restart
  BY <1>28 DEF Restart, ForgetMemory, TypeOK, Locks, Goto, diskVars, entryVars, objectVars, workerVars
<1>29. CASE Finished
  BY <1>29 DEF Finished, vars, TypeOK, Locks, Goto, diskVars, entryVars, objectVars, workerVars
<1> QED
  BY <1>1, <1>2, <1>3, <1>4, <1>5, <1>6, <1>7, <1>8, <1>9, <1>10, <1>11,
     <1>12, <1>13, <1>14, <1>15, <1>16, <1>17, <1>18, <1>19, <1>20, <1>21,
     <1>22, <1>23, <1>24, <1>25, <1>26, <1>27, <1>28, <1>29 DEF
     Next, Step, Ensure, CreateRegularFile

\* Every step keeps the requests apart.
LEMMA RequestsStep ==
    ASSUME DiskInv, Next
    PROVE  Requests'
<1> USE DEF DiskInv
<1>1. ASSUME NEW w \in Worker, NEW f \in File, Accept(w, f)
      PROVE  Requests'
  BY <1>1 DEF Accept, TypeOK, Requests, Goto, diskVars, entryVars, objectVars, workerVars
<1>2. ASSUME NEW w \in Worker, LockEntry(w) PROVE Requests'
  BY <1>2 DEF LockEntry, TypeOK, Requests, Goto, diskVars, entryVars, objectVars, workerVars
<1>3. ASSUME NEW w \in Worker, KeepContainer(w) PROVE Requests'
  BY <1>3 DEF KeepContainer, TypeOK, Requests, Goto, diskVars, entryVars, objectVars, workerVars
<1>4. ASSUME NEW w \in Worker, CloseTar(w) PROVE Requests'
  BY <1>4 DEF CloseTar, TypeOK, Requests, Goto, diskVars, entryVars, objectVars, workerVars
<1>5. ASSUME NEW w \in Worker, CloseIndex(w) PROVE Requests'
  BY <1>5 DEF CloseIndex, TypeOK, Requests, Goto, diskVars, entryVars, objectVars, workerVars
<1>6. ASSUME NEW w \in Worker, StartWalk(w) PROVE Requests'
  BY <1>6 DEF StartWalk, TypeOK, Requests, Goto, diskVars, entryVars, objectVars, workerVars
<1>7. ASSUME NEW w \in Worker, PickContainer(w) PROVE Requests'
  BY <1>7 DEF PickContainer, LoadContainers, Candidates, Visited, FirstListed, TypeOK, Requests, Goto, diskVars, entryVars, objectVars, workerVars
<1>8. ASSUME NEW w \in Worker, ReuseContainer(w) PROVE Requests'
  BY <1>8 DEF ReuseContainer, LoadContainers, Candidates, Visited, FirstListed, TypeOK, Requests, Goto, diskVars, entryVars, objectVars, workerVars
<1>9. ASSUME NEW w \in Worker, MakeTar(w) PROVE Requests'
  BY <1>9 DEF MakeTar, LoadContainers, TypeOK, Requests, Goto, diskVars, entryVars, objectVars, workerVars
<1>10. ASSUME NEW w \in Worker, MakeIndex(w) PROVE Requests'
  BY <1>10 DEF MakeIndex, TypeOK, Requests, Goto, diskVars, entryVars, objectVars, workerVars
<1>11. ASSUME NEW w \in Worker, Use(w) PROVE Requests'
  BY <1>11 DEF Use, TypeOK, Requests, Goto, diskVars, entryVars, objectVars, workerVars
<1>12. ASSUME NEW w \in Worker, Panic(w) PROVE Requests'
  BY <1>12 DEF Panic, ForgetMemory, TypeOK, Requests, Goto, diskVars, entryVars, objectVars, workerVars
<1>13. ASSUME NEW w \in Worker, LockContainer(w) PROVE Requests'
  BY <1>13 DEF LockContainer, TypeOK, Requests, Goto, diskVars, entryVars, objectVars, workerVars
<1>14. ASSUME NEW w \in Worker, OpenTar(w) PROVE Requests'
  BY <1>14 DEF OpenTar, TypeOK, Requests, Goto, diskVars, entryVars, objectVars, workerVars
<1>15. ASSUME NEW w \in Worker, WriteHeader(w) PROVE Requests'
  BY <1>15 DEF WriteHeader, Overwritten, TypeOK, Requests, Goto, diskVars, entryVars, objectVars, workerVars
<1>16. ASSUME NEW w \in Worker, SeekFails(w) PROVE Requests'
  BY <1>16 DEF SeekFails, Return, TypeOK, Requests, Goto, diskVars, entryVars, objectVars, workerVars
<1>17. ASSUME NEW w \in Worker, HeaderFails(w) PROVE Requests'
  BY <1>17 DEF HeaderFails, Return, TypeOK, Requests, Goto, diskVars, entryVars, objectVars, workerVars
<1>18. ASSUME NEW w \in Worker, WriteData(w) PROVE Requests'
  BY <1>18 DEF WriteData, Overwritten, Mine, TypeOK, Requests, Goto, diskVars, entryVars, objectVars, workerVars
<1>19. ASSUME NEW w \in Worker, DataFails(w) PROVE Requests'
  BY <1>19 DEF DataFails, Return, TypeOK, Requests, Goto, diskVars, entryVars, objectVars, workerVars
<1>20. ASSUME NEW w \in Worker, TarFault(w) PROVE Requests'
  BY <1>20 DEF TarFault, Return, TypeOK, Requests, Goto, diskVars, entryVars, objectVars, workerVars
<1>21. ASSUME NEW w \in Worker, OpenIndex(w) PROVE Requests'
  BY <1>21 DEF OpenIndex, TypeOK, Requests, Goto, diskVars, entryVars, objectVars, workerVars
<1>22. ASSUME NEW w \in Worker, NoIndex(w) PROVE Requests'
  BY <1>22 DEF NoIndex, TypeOK, Requests, Goto, diskVars, entryVars, objectVars, workerVars
<1>23. ASSUME NEW w \in Worker, WriteRow(w) PROVE Requests'
  BY <1>23 DEF WriteRow, MyRow, TypeOK, Requests, Goto, diskVars, entryVars, objectVars, workerVars
<1>24. ASSUME NEW w \in Worker, Sync(w) PROVE Requests'
  BY <1>24 DEF Sync, TypeOK, Requests, Goto, diskVars, entryVars, objectVars, workerVars
<1>25. ASSUME NEW w \in Worker, SyncFails(w) PROVE Requests'
  BY <1>25 DEF SyncFails, Return, TypeOK, Requests, Goto, diskVars, entryVars, objectVars, workerVars
<1>26. ASSUME NEW w \in Worker, SetSize(w) PROVE Requests'
  BY <1>26 DEF SetSize, Return, TypeOK, Requests, Goto, diskVars, entryVars, objectVars, workerVars
<1>27. CASE ReaderLoads
  BY <1>27 DEF ReaderLoads, LoadContainers, TypeOK, Requests, Goto, diskVars, entryVars, objectVars, workerVars
<1>28. CASE Restart
  BY <1>28 DEF Restart, ForgetMemory, TypeOK, Requests, Goto, diskVars, entryVars, objectVars, workerVars
<1>29. CASE Finished
  BY <1>29 DEF Finished, vars, TypeOK, Requests, Goto, diskVars, entryVars, objectVars, workerVars
<1> QED
  BY <1>1, <1>2, <1>3, <1>4, <1>5, <1>6, <1>7, <1>8, <1>9, <1>10, <1>11,
     <1>12, <1>13, <1>14, <1>15, <1>16, <1>17, <1>18, <1>19, <1>20, <1>21,
     <1>22, <1>23, <1>24, <1>25, <1>26, <1>27, <1>28, <1>29 DEF
     Next, Step, Ensure, CreateRegularFile

\* Every step keeps the records apart.
LEMMA RecordsStep ==
    ASSUME DiskInv, Next
    PROVE  Records'
<1> USE DEF DiskInv
<1>1. ASSUME NEW w \in Worker, NEW f \in File, Accept(w, f)
      PROVE  Records'
  BY <1>1 DEF Accept, TypeOK, Records, Goto, diskVars, entryVars, objectVars, workerVars
<1>2. ASSUME NEW w \in Worker, LockEntry(w) PROVE Records'
  BY <1>2 DEF LockEntry, TypeOK, Records, Goto, diskVars, entryVars, objectVars, workerVars
<1>3. ASSUME NEW w \in Worker, KeepContainer(w) PROVE Records'
  BY <1>3 DEF KeepContainer, TypeOK, Records, Goto, diskVars, entryVars, objectVars, workerVars
<1>4. ASSUME NEW w \in Worker, CloseTar(w) PROVE Records'
  BY <1>4 DEF CloseTar, TypeOK, Records, Goto, diskVars, entryVars, objectVars, workerVars
<1>5. ASSUME NEW w \in Worker, CloseIndex(w) PROVE Records'
  BY <1>5 DEF CloseIndex, TypeOK, Records, Goto, diskVars, entryVars, objectVars, workerVars
<1>6. ASSUME NEW w \in Worker, StartWalk(w) PROVE Records'
  BY <1>6 DEF StartWalk, TypeOK, Records, Goto, diskVars, entryVars, objectVars, workerVars
<1>7. ASSUME NEW w \in Worker, PickContainer(w) PROVE Records'
  BY <1>7 DEF PickContainer, LoadContainers, Candidates, Visited, FirstListed, TypeOK, Records, Goto, diskVars, entryVars, objectVars, workerVars
<1>8. ASSUME NEW w \in Worker, ReuseContainer(w) PROVE Records'
  BY <1>8 DEF ReuseContainer, LoadContainers, Candidates, Visited, FirstListed, TypeOK, Records, Goto, diskVars, entryVars, objectVars, workerVars
<1>9. ASSUME NEW w \in Worker, MakeTar(w) PROVE Records'
  BY <1>9 DEF MakeTar, LoadContainers, TypeOK, Records, Goto, diskVars, entryVars, objectVars, workerVars
<1>10. ASSUME NEW w \in Worker, MakeIndex(w) PROVE Records'
  BY <1>10 DEF MakeIndex, TypeOK, Records, Goto, diskVars, entryVars, objectVars, workerVars
<1>11. ASSUME NEW w \in Worker, Use(w) PROVE Records'
  BY <1>11 DEF Use, TypeOK, Records, Goto, diskVars, entryVars, objectVars, workerVars
<1>12. ASSUME NEW w \in Worker, Panic(w) PROVE Records'
  BY <1>12 DEF Panic, ForgetMemory, TypeOK, Records, Goto, diskVars, entryVars, objectVars, workerVars
<1>13. ASSUME NEW w \in Worker, LockContainer(w) PROVE Records'
  BY <1>13 DEF LockContainer, TypeOK, Records, Goto, diskVars, entryVars, objectVars, workerVars
<1>14. ASSUME NEW w \in Worker, OpenTar(w) PROVE Records'
  BY <1>14 DEF OpenTar, TypeOK, Records, Goto, diskVars, entryVars, objectVars, workerVars
<1>15. ASSUME NEW w \in Worker, WriteHeader(w) PROVE Records'
  <2> DEFINE n == cont[w]
             new == [number |-> n, address |-> position[n],
                     file |-> req[w], whole |-> FALSE]
  <2>1. n \in Number /\ n \in tars /\ n \in containers
    BY <1>15, HasContainer DEF WriteHeader
  <2>2. position[n] = size[n] /\ size[n] \in Nat
    BY <1>15, <2>1 DEF WriteHeader, Records, TypeOK
  <2>3. blocks' = blocks \cup {new}
    BY <1>15, HeaderAppends
  <2>4. size' = [size EXCEPT ![n] = size[n] + 1]
    <3>1. size' = [size EXCEPT ![n] = IF position[n] < size[n]
                                      THEN size[n] ELSE position[n] + 1]
      BY <1>15 DEF WriteHeader
    <3>2. ~(position[n] < size[n]) BY <2>2
    <3> QED BY <2>2, <3>1, <3>2
  <2>5. position' = [position EXCEPT ![n] = size[n] + 1]
    BY <1>15, <2>2 DEF WriteHeader
  <2>6. \A b \in blocks' : b.number \in tars' /\ b.address < size'[b.number]
    <3>1. tars' = tars BY <1>15 DEF WriteHeader
    <3>2. \A b \in blocks : b.number \in Number /\ b.address \in Nat
      BY DEF TypeOK, Block
    <3>3. new.number = n /\ new.address = size[n] BY <2>2
    <3>4. \A b \in blocks : b.number \in tars /\ b.address < size[b.number]
      BY DEF Records
    <3>5. \A m \in Number : size[m] \in Nat /\ size'[m] \in Nat /\ size[m] <= size'[m]
      BY <2>1, <2>4 DEF TypeOK
    <3>6. size'[n] = size[n] + 1 BY <2>1, <2>4 DEF TypeOK
    <3> HIDE DEF new
    <3>7. \A b \in blocks : b.number \in tars' /\ b.address < size'[b.number]
      BY <3>1, <3>2, <3>4, <3>5
    <3>8. new.number \in tars' /\ new.address < size'[new.number]
      BY <2>1, <2>2, <3>1, <3>3, <3>6
    <3> QED BY <2>3, <3>7, <3>8
  <2>7. \A b, c \in blocks' :
           b.number = c.number /\ b.address = c.address => b = c
    <3>1. \A b \in blocks : b.number = n => b.address < size[n]
      BY DEF Records
    <3>2. \A b \in blocks : b.address \in Nat BY DEF TypeOK, Block
    <3>3. new.number = n /\ new.address = size[n] BY <2>2
    <3> HIDE DEF new
    <3> QED BY <2>2, <2>3, <3>1, <3>2, <3>3 DEF Records
  <2>8. \A m \in Number : writeFd'[m] => position'[m] = size'[m]
    BY <1>15, <2>4, <2>5 DEF WriteHeader, Records, TypeOK
  <2>9. \A v \in Worker, b \in blocks' : pc'[v] = "makeIndex" => b.number # cont'[v]
    BY <1>15, <2>1, <2>3 DEF WriteHeader, Goto, Records, Locks, TypeOK
  <2> QED BY <2>6, <2>7, <2>8, <2>9 DEF Records
<1>16. ASSUME NEW w \in Worker, SeekFails(w) PROVE Records'
  BY <1>16 DEF SeekFails, Return, TypeOK, Records, Goto, diskVars, entryVars, objectVars, workerVars
<1>17. ASSUME NEW w \in Worker, HeaderFails(w) PROVE Records'
  BY <1>17 DEF HeaderFails, Return, TypeOK, Records, Goto, diskVars, entryVars, objectVars, workerVars
<1>18. ASSUME NEW w \in Worker, WriteData(w) PROVE Records'
  <2> DEFINE old == Mine(w, FALSE)
             new == Mine(w, TRUE)
  <2>1. old \in blocks /\ blocks' = (blocks \ {old}) \cup {new}
    BY <1>18, DataCompletes
  <2>2. /\ new.number = old.number /\ new.address = old.address
        /\ old.number = cont[w] /\ old.address = addr[w]
    BY DEF Mine
  <2> HIDE DEF old, new
  <2>3. UNCHANGED <<tars, size, writeFd, position, cont>>
    BY <1>18 DEF WriteData, entryVars, objectVars
  <2>4. \A v \in Worker : pc'[v] = "makeIndex" => pc[v] = "makeIndex"
    BY <1>18 DEF WriteData, Goto, TypeOK
  <2> QED BY <2>1, <2>2, <2>3, <2>4 DEF Records
<1>19. ASSUME NEW w \in Worker, DataFails(w) PROVE Records'
  BY <1>19 DEF DataFails, Return, TypeOK, Records, Goto, diskVars, entryVars, objectVars, workerVars
<1>20. ASSUME NEW w \in Worker, TarFault(w) PROVE Records'
  BY <1>20 DEF TarFault, Return, TypeOK, Records, Goto, diskVars, entryVars, objectVars, workerVars
<1>21. ASSUME NEW w \in Worker, OpenIndex(w) PROVE Records'
  BY <1>21 DEF OpenIndex, TypeOK, Records, Goto, diskVars, entryVars, objectVars, workerVars
<1>22. ASSUME NEW w \in Worker, NoIndex(w) PROVE Records'
  BY <1>22 DEF NoIndex, TypeOK, Records, Goto, diskVars, entryVars, objectVars, workerVars
<1>23. ASSUME NEW w \in Worker, WriteRow(w) PROVE Records'
  BY <1>23 DEF WriteRow, MyRow, TypeOK, Records, Goto, diskVars, entryVars, objectVars, workerVars
<1>24. ASSUME NEW w \in Worker, Sync(w) PROVE Records'
  BY <1>24 DEF Sync, TypeOK, Records, Goto, diskVars, entryVars, objectVars, workerVars
<1>25. ASSUME NEW w \in Worker, SyncFails(w) PROVE Records'
  BY <1>25 DEF SyncFails, Return, TypeOK, Records, Goto, diskVars, entryVars, objectVars, workerVars
<1>26. ASSUME NEW w \in Worker, SetSize(w) PROVE Records'
  BY <1>26 DEF SetSize, Return, TypeOK, Records, Goto, diskVars, entryVars, objectVars, workerVars
<1>27. CASE ReaderLoads
  BY <1>27 DEF ReaderLoads, LoadContainers, TypeOK, Records, Goto, diskVars, entryVars, objectVars, workerVars
<1>28. CASE Restart
  BY <1>28 DEF Restart, ForgetMemory, TypeOK, Records, Goto, diskVars, entryVars, objectVars, workerVars
<1>29. CASE Finished
  BY <1>29 DEF Finished, vars, TypeOK, Records, Goto, diskVars, entryVars, objectVars, workerVars
<1> QED
  BY <1>1, <1>2, <1>3, <1>4, <1>5, <1>6, <1>7, <1>8, <1>9, <1>10, <1>11,
     <1>12, <1>13, <1>14, <1>15, <1>16, <1>17, <1>18, <1>19, <1>20, <1>21,
     <1>22, <1>23, <1>24, <1>25, <1>26, <1>27, <1>28, <1>29 DEF
     Next, Step, Ensure, CreateRegularFile

\* Every step keeps the records that are being written in their places.
LEMMA InProgressStep ==
    ASSUME DiskInv, Next
    PROVE  InProgress'
<1> USE DEF DiskInv
<1>1. ASSUME NEW w \in Worker, NEW f \in File, Accept(w, f)
      PROVE  InProgress'
  BY <1>1 DEF Accept, TypeOK, InProgress, Mine, Goto, diskVars, entryVars, objectVars, workerVars
<1>2. ASSUME NEW w \in Worker, LockEntry(w) PROVE InProgress'
  BY <1>2 DEF LockEntry, TypeOK, InProgress, Mine, Goto, diskVars, entryVars, objectVars, workerVars
<1>3. ASSUME NEW w \in Worker, KeepContainer(w) PROVE InProgress'
  BY <1>3 DEF KeepContainer, TypeOK, InProgress, Mine, Goto, diskVars, entryVars, objectVars, workerVars
<1>4. ASSUME NEW w \in Worker, CloseTar(w) PROVE InProgress'
  BY <1>4 DEF CloseTar, TypeOK, InProgress, Mine, Goto, diskVars, entryVars, objectVars, workerVars
<1>5. ASSUME NEW w \in Worker, CloseIndex(w) PROVE InProgress'
  BY <1>5 DEF CloseIndex, TypeOK, InProgress, Mine, Goto, diskVars, entryVars, objectVars, workerVars
<1>6. ASSUME NEW w \in Worker, StartWalk(w) PROVE InProgress'
  BY <1>6 DEF StartWalk, TypeOK, InProgress, Mine, Goto, diskVars, entryVars, objectVars, workerVars
<1>7. ASSUME NEW w \in Worker, PickContainer(w) PROVE InProgress'
  BY <1>7 DEF PickContainer, LoadContainers, Candidates, Visited, FirstListed, TypeOK, InProgress, Mine, Goto, diskVars, entryVars, objectVars, workerVars
<1>8. ASSUME NEW w \in Worker, ReuseContainer(w) PROVE InProgress'
  BY <1>8 DEF ReuseContainer, LoadContainers, Candidates, Visited, FirstListed, TypeOK, InProgress, Mine, Goto, diskVars, entryVars, objectVars, workerVars
<1>9. ASSUME NEW w \in Worker, MakeTar(w) PROVE InProgress'
  BY <1>9 DEF MakeTar, LoadContainers, TypeOK, InProgress, Mine, Goto, diskVars, entryVars, objectVars, workerVars
<1>10. ASSUME NEW w \in Worker, MakeIndex(w) PROVE InProgress'
  BY <1>10 DEF MakeIndex, TypeOK, InProgress, Mine, Goto, diskVars, entryVars, objectVars, workerVars
<1>11. ASSUME NEW w \in Worker, Use(w) PROVE InProgress'
  BY <1>11 DEF Use, TypeOK, InProgress, Mine, Goto, diskVars, entryVars, objectVars, workerVars
<1>12. ASSUME NEW w \in Worker, Panic(w) PROVE InProgress'
  BY <1>12 DEF Panic, ForgetMemory, TypeOK, InProgress, Mine, Goto, diskVars, entryVars, objectVars, workerVars
<1>13. ASSUME NEW w \in Worker, LockContainer(w) PROVE InProgress'
  BY <1>13 DEF LockContainer, TypeOK, InProgress, Mine, Goto, diskVars, entryVars, objectVars, workerVars
<1>14. ASSUME NEW w \in Worker, OpenTar(w) PROVE InProgress'
  BY <1>14 DEF OpenTar, TypeOK, InProgress, Mine, Goto, diskVars, entryVars, objectVars, workerVars
<1>15. ASSUME NEW w \in Worker, WriteHeader(w) PROVE InProgress'
  <2>1. blocks \subseteq blocks' BY <1>15, HeaderAppends
  <2>2. Mine(w, FALSE)' \in blocks'
    BY <1>15, HeaderAppends DEF WriteHeader, Mine, TypeOK
  <2>3. \A v \in Worker \ {w} :
           /\ pc'[v] = pc[v]
           /\ Mine(v, FALSE)' = Mine(v, FALSE) /\ Mine(v, TRUE)' = Mine(v, TRUE)
    BY <1>15 DEF WriteHeader, Mine, Goto, TypeOK
  <2>4. pc'[w] = "data" BY <1>15 DEF WriteHeader, Goto, TypeOK
  <2>5. \A b \in blocks' : b.number = cont'[w] => b.address <= addr'[w]
    <3>1. cont[w] \in Number /\ addr'[w] = position[cont[w]] /\ cont'[w] = cont[w]
      BY <1>15, HasContainer DEF WriteHeader, TypeOK
    <3>2. \A b \in blocks : b.number = cont[w] => b.address < position[cont[w]]
      BY <1>15, <3>1 DEF Records, WriteHeader
    <3>3. position[cont[w]] \in Nat /\ \A b \in blocks : b.address \in Nat
      BY <3>1 DEF TypeOK, Block
    <3> QED BY <1>15, HeaderAppends, <3>1, <3>2, <3>3
  <2>6. ASSUME NEW v \in Worker, v # w, pc[v] = "data"
        PROVE  \A b \in blocks' : b.number = cont'[v] => b.address <= addr'[v]
    <3>1. cont[v] # cont[w] BY <1>15, <2>6, OneWriter DEF WriteHeader
    <3>2. cont'[v] = cont[v] /\ addr'[v] = addr[v]
      BY <1>15, <2>6 DEF WriteHeader, TypeOK
    <3>3. \A b \in blocks : b.number = cont[v] => b.address <= addr[v]
      BY <2>6 DEF InProgress
    <3> QED BY <1>15, HeaderAppends, <3>1, <3>2, <3>3
  <2> QED BY <2>1, <2>2, <2>3, <2>4, <2>5, <2>6 DEF InProgress
<1>16. ASSUME NEW w \in Worker, SeekFails(w) PROVE InProgress'
  BY <1>16 DEF SeekFails, Return, TypeOK, InProgress, Mine, Goto, diskVars, entryVars, objectVars, workerVars
<1>17. ASSUME NEW w \in Worker, HeaderFails(w) PROVE InProgress'
  BY <1>17 DEF HeaderFails, Return, TypeOK, InProgress, Mine, Goto, diskVars, entryVars, objectVars, workerVars
<1>18. ASSUME NEW w \in Worker, WriteData(w) PROVE InProgress'
  <2>1. blocks' = (blocks \ {Mine(w, FALSE)}) \cup {Mine(w, TRUE)}
    BY <1>18, DataCompletes
  <2>2. \A v \in Worker : Mine(v, FALSE)' = Mine(v, FALSE) /\ Mine(v, TRUE)' = Mine(v, TRUE)
    BY <1>18 DEF WriteData, Mine
  <2>3. pc'[w] = "index" BY <1>18 DEF WriteData, Goto, TypeOK
  <2>4. \A v \in Worker \ {w} : pc'[v] = pc[v]
    BY <1>18 DEF WriteData, Goto, TypeOK
  <2>5. \A v \in Worker \ {w} : pc[v] \in Writing =>
           Mine(v, FALSE) # Mine(w, FALSE) /\ Mine(v, TRUE) # Mine(w, FALSE)
    BY <1>18, OneWriter DEF WriteData, Mine
  <2>6. \A b \in blocks' : \E c \in blocks : c.number = b.number /\ c.address = b.address
    <3>1. \A b \in blocks' : b \in blocks \/ b = Mine(w, TRUE) BY <2>1
    <3>2. Mine(w, FALSE) \in blocks BY <1>18, DataCompletes
    <3>3. /\ Mine(w, FALSE).number = Mine(w, TRUE).number
          /\ Mine(w, FALSE).address = Mine(w, TRUE).address
      BY DEF Mine
    <3> QED BY <3>1, <3>2, <3>3
  <2>7. UNCHANGED <<cont, addr>> BY <1>18 DEF WriteData
  <2>8. ASSUME NEW v \in Worker, pc'[v] = "data"
        PROVE  /\ Mine(v, FALSE)' \in blocks'
               /\ \A b \in blocks' : b.number = cont'[v] => b.address <= addr'[v]
    <3>1. v # w /\ pc[v] = "data" BY <2>3, <2>4, <2>8
    <3>2. /\ Mine(v, FALSE) \in blocks
          /\ \A b \in blocks : b.number = cont[v] => b.address <= addr[v]
      BY <3>1 DEF InProgress
    <3>3. Mine(v, FALSE) # Mine(w, FALSE) BY <2>5, <3>1
    <3>4. \A b \in blocks' : b.number = cont[v] => b.address <= addr[v]
      BY <2>6, <3>2
    <3> QED BY <2>1, <2>2, <2>7, <3>2, <3>3, <3>4
  <2>9. ASSUME NEW v \in Worker, pc'[v] \in {"index", "row", "sync", "size"}
        PROVE  Mine(v, TRUE)' \in blocks'
    <3>1. CASE v = w BY <2>1, <2>2, <3>1
    <3>2. CASE v # w
      <4>1. pc[v] \in {"index", "row", "sync", "size"} BY <2>4, <2>9, <3>2
      <4>2. Mine(v, TRUE) \in blocks /\ Mine(v, TRUE) # Mine(w, FALSE)
        BY <2>5, <3>2, <4>1 DEF InProgress
      <4> QED BY <2>1, <2>2, <4>2
    <3> QED BY <3>1, <3>2
  <2> QED BY <2>8, <2>9 DEF InProgress
<1>19. ASSUME NEW w \in Worker, DataFails(w) PROVE InProgress'
  BY <1>19 DEF DataFails, Return, TypeOK, InProgress, Mine, Goto, diskVars, entryVars, objectVars, workerVars
<1>20. ASSUME NEW w \in Worker, TarFault(w) PROVE InProgress'
  BY <1>20 DEF TarFault, Return, TypeOK, InProgress, Mine, Goto, diskVars, entryVars, objectVars, workerVars
<1>21. ASSUME NEW w \in Worker, OpenIndex(w) PROVE InProgress'
  BY <1>21 DEF OpenIndex, TypeOK, InProgress, Mine, Goto, diskVars, entryVars, objectVars, workerVars
<1>22. ASSUME NEW w \in Worker, NoIndex(w) PROVE InProgress'
  BY <1>22 DEF NoIndex, TypeOK, InProgress, Mine, Goto, diskVars, entryVars, objectVars, workerVars
<1>23. ASSUME NEW w \in Worker, WriteRow(w) PROVE InProgress'
  BY <1>23 DEF WriteRow, MyRow, TypeOK, InProgress, Mine, Goto, diskVars, entryVars, objectVars, workerVars
<1>24. ASSUME NEW w \in Worker, Sync(w) PROVE InProgress'
  BY <1>24 DEF Sync, TypeOK, InProgress, Mine, Goto, diskVars, entryVars, objectVars, workerVars
<1>25. ASSUME NEW w \in Worker, SyncFails(w) PROVE InProgress'
  BY <1>25 DEF SyncFails, Return, TypeOK, InProgress, Mine, Goto, diskVars, entryVars, objectVars, workerVars
<1>26. ASSUME NEW w \in Worker, SetSize(w) PROVE InProgress'
  BY <1>26 DEF SetSize, Return, TypeOK, InProgress, Mine, Goto, diskVars, entryVars, objectVars, workerVars
<1>27. CASE ReaderLoads
  BY <1>27 DEF ReaderLoads, LoadContainers, TypeOK, InProgress, Mine, Goto, diskVars, entryVars, objectVars, workerVars
<1>28. CASE Restart
  BY <1>28 DEF Restart, ForgetMemory, TypeOK, InProgress, Mine, Goto, diskVars, entryVars, objectVars, workerVars
<1>29. CASE Finished
  BY <1>29 DEF Finished, vars, TypeOK, InProgress, Mine, Goto, diskVars, entryVars, objectVars, workerVars
<1> QED
  BY <1>1, <1>2, <1>3, <1>4, <1>5, <1>6, <1>7, <1>8, <1>9, <1>10, <1>11,
     <1>12, <1>13, <1>14, <1>15, <1>16, <1>17, <1>18, <1>19, <1>20, <1>21,
     <1>22, <1>23, <1>24, <1>25, <1>26, <1>27, <1>28, <1>29 DEF
     Next, Step, Ensure, CreateRegularFile

\* Every step keeps the rows' records whole.
LEMMA RowsStep ==
    ASSUME DiskInv, Next
    PROVE  IndexedFilesAreWhole'
<1> USE DEF DiskInv
<1>1. ASSUME NEW w \in Worker, NEW f \in File, Accept(w, f)
      PROVE  IndexedFilesAreWhole'
  BY <1>1 DEF Accept, TypeOK, IndexedFilesAreWhole, Goto, diskVars, entryVars, objectVars, workerVars
<1>2. ASSUME NEW w \in Worker, LockEntry(w) PROVE IndexedFilesAreWhole'
  BY <1>2 DEF LockEntry, TypeOK, IndexedFilesAreWhole, Goto, diskVars, entryVars, objectVars, workerVars
<1>3. ASSUME NEW w \in Worker, KeepContainer(w) PROVE IndexedFilesAreWhole'
  BY <1>3 DEF KeepContainer, TypeOK, IndexedFilesAreWhole, Goto, diskVars, entryVars, objectVars, workerVars
<1>4. ASSUME NEW w \in Worker, CloseTar(w) PROVE IndexedFilesAreWhole'
  BY <1>4 DEF CloseTar, TypeOK, IndexedFilesAreWhole, Goto, diskVars, entryVars, objectVars, workerVars
<1>5. ASSUME NEW w \in Worker, CloseIndex(w) PROVE IndexedFilesAreWhole'
  BY <1>5 DEF CloseIndex, TypeOK, IndexedFilesAreWhole, Goto, diskVars, entryVars, objectVars, workerVars
<1>6. ASSUME NEW w \in Worker, StartWalk(w) PROVE IndexedFilesAreWhole'
  BY <1>6 DEF StartWalk, TypeOK, IndexedFilesAreWhole, Goto, diskVars, entryVars, objectVars, workerVars
<1>7. ASSUME NEW w \in Worker, PickContainer(w) PROVE IndexedFilesAreWhole'
  BY <1>7 DEF PickContainer, LoadContainers, Candidates, Visited, FirstListed, TypeOK, IndexedFilesAreWhole, Goto, diskVars, entryVars, objectVars, workerVars
<1>8. ASSUME NEW w \in Worker, ReuseContainer(w) PROVE IndexedFilesAreWhole'
  BY <1>8 DEF ReuseContainer, LoadContainers, Candidates, Visited, FirstListed, TypeOK, IndexedFilesAreWhole, Goto, diskVars, entryVars, objectVars, workerVars
<1>9. ASSUME NEW w \in Worker, MakeTar(w) PROVE IndexedFilesAreWhole'
  BY <1>9 DEF MakeTar, LoadContainers, TypeOK, IndexedFilesAreWhole, Goto, diskVars, entryVars, objectVars, workerVars
<1>10. ASSUME NEW w \in Worker, MakeIndex(w) PROVE IndexedFilesAreWhole'
  BY <1>10 DEF MakeIndex, TypeOK, IndexedFilesAreWhole, Goto, diskVars, entryVars, objectVars, workerVars
<1>11. ASSUME NEW w \in Worker, Use(w) PROVE IndexedFilesAreWhole'
  BY <1>11 DEF Use, TypeOK, IndexedFilesAreWhole, Goto, diskVars, entryVars, objectVars, workerVars
<1>12. ASSUME NEW w \in Worker, Panic(w) PROVE IndexedFilesAreWhole'
  BY <1>12 DEF Panic, ForgetMemory, TypeOK, IndexedFilesAreWhole, Goto, diskVars, entryVars, objectVars, workerVars
<1>13. ASSUME NEW w \in Worker, LockContainer(w) PROVE IndexedFilesAreWhole'
  BY <1>13 DEF LockContainer, TypeOK, IndexedFilesAreWhole, Goto, diskVars, entryVars, objectVars, workerVars
<1>14. ASSUME NEW w \in Worker, OpenTar(w) PROVE IndexedFilesAreWhole'
  BY <1>14 DEF OpenTar, TypeOK, IndexedFilesAreWhole, Goto, diskVars, entryVars, objectVars, workerVars
<1>15. ASSUME NEW w \in Worker, WriteHeader(w) PROVE IndexedFilesAreWhole'
  <2>1. blocks \subseteq blocks' BY <1>15, HeaderAppends
  <2>2. rows' = rows BY <1>15 DEF WriteHeader
  <2> QED BY <2>1, <2>2 DEF IndexedFilesAreWhole
<1>16. ASSUME NEW w \in Worker, SeekFails(w) PROVE IndexedFilesAreWhole'
  BY <1>16 DEF SeekFails, Return, TypeOK, IndexedFilesAreWhole, Goto, diskVars, entryVars, objectVars, workerVars
<1>17. ASSUME NEW w \in Worker, HeaderFails(w) PROVE IndexedFilesAreWhole'
  BY <1>17 DEF HeaderFails, Return, TypeOK, IndexedFilesAreWhole, Goto, diskVars, entryVars, objectVars, workerVars
<1>18. ASSUME NEW w \in Worker, WriteData(w) PROVE IndexedFilesAreWhole'
  <2>1. blocks' = (blocks \ {Mine(w, FALSE)}) \cup {Mine(w, TRUE)}
    BY <1>18, DataCompletes
  <2>2. rows' = rows BY <1>18 DEF WriteData
  <2>3. \A r \in rows : [number |-> r.number, address |-> r.address,
                        file |-> r.file, whole |-> TRUE] # Mine(w, FALSE)
    BY DEF Mine
  <2> QED BY <2>1, <2>2, <2>3 DEF IndexedFilesAreWhole
<1>19. ASSUME NEW w \in Worker, DataFails(w) PROVE IndexedFilesAreWhole'
  BY <1>19 DEF DataFails, Return, TypeOK, IndexedFilesAreWhole, Goto, diskVars, entryVars, objectVars, workerVars
<1>20. ASSUME NEW w \in Worker, TarFault(w) PROVE IndexedFilesAreWhole'
  BY <1>20 DEF TarFault, Return, TypeOK, IndexedFilesAreWhole, Goto, diskVars, entryVars, objectVars, workerVars
<1>21. ASSUME NEW w \in Worker, OpenIndex(w) PROVE IndexedFilesAreWhole'
  BY <1>21 DEF OpenIndex, TypeOK, IndexedFilesAreWhole, Goto, diskVars, entryVars, objectVars, workerVars
<1>22. ASSUME NEW w \in Worker, NoIndex(w) PROVE IndexedFilesAreWhole'
  BY <1>22 DEF NoIndex, TypeOK, IndexedFilesAreWhole, Goto, diskVars, entryVars, objectVars, workerVars
<1>23. ASSUME NEW w \in Worker, WriteRow(w) PROVE IndexedFilesAreWhole'
  <2>1. Mine(w, TRUE) \in blocks BY <1>23 DEF WriteRow, InProgress
  <2>2. [number |-> MyRow(w).number, address |-> MyRow(w).address,
         file |-> MyRow(w).file, whole |-> TRUE] = Mine(w, TRUE)
    BY DEF MyRow, Mine
  <2>3. rows' \subseteq rows \cup {MyRow(w)} /\ blocks' = blocks
    BY <1>23 DEF WriteRow
  <2> QED BY <2>1, <2>2, <2>3 DEF IndexedFilesAreWhole
<1>24. ASSUME NEW w \in Worker, Sync(w) PROVE IndexedFilesAreWhole'
  BY <1>24 DEF Sync, TypeOK, IndexedFilesAreWhole, Goto, diskVars, entryVars, objectVars, workerVars
<1>25. ASSUME NEW w \in Worker, SyncFails(w) PROVE IndexedFilesAreWhole'
  BY <1>25 DEF SyncFails, Return, TypeOK, IndexedFilesAreWhole, Goto, diskVars, entryVars, objectVars, workerVars
<1>26. ASSUME NEW w \in Worker, SetSize(w) PROVE IndexedFilesAreWhole'
  BY <1>26 DEF SetSize, Return, TypeOK, IndexedFilesAreWhole, Goto, diskVars, entryVars, objectVars, workerVars
<1>27. CASE ReaderLoads
  BY <1>27 DEF ReaderLoads, LoadContainers, TypeOK, IndexedFilesAreWhole, Goto, diskVars, entryVars, objectVars, workerVars
<1>28. CASE Restart
  BY <1>28 DEF Restart, ForgetMemory, TypeOK, IndexedFilesAreWhole, Goto, diskVars, entryVars, objectVars, workerVars
<1>29. CASE Finished
  BY <1>29 DEF Finished, vars, TypeOK, IndexedFilesAreWhole, Goto, diskVars, entryVars, objectVars, workerVars
<1> QED
  BY <1>1, <1>2, <1>3, <1>4, <1>5, <1>6, <1>7, <1>8, <1>9, <1>10, <1>11,
     <1>12, <1>13, <1>14, <1>15, <1>16, <1>17, <1>18, <1>19, <1>20, <1>21,
     <1>22, <1>23, <1>24, <1>25, <1>26, <1>27, <1>28, <1>29 DEF
     Next, Step, Ensure, CreateRegularFile

\* Every step keeps the rows that are being written in their places.
LEMMA RowsInProgressStep ==
    ASSUME DiskInv, RowsInProgress, "indexWrite" \notin Faults, Next
    PROVE  RowsInProgress'
<1> USE DEF DiskInv
<1>1. ASSUME NEW w \in Worker, NEW f \in File, Accept(w, f)
      PROVE  RowsInProgress'
  BY <1>1 DEF Accept, TypeOK, RowsInProgress, MyRow, Goto, diskVars, entryVars, objectVars, workerVars
<1>2. ASSUME NEW w \in Worker, LockEntry(w) PROVE RowsInProgress'
  BY <1>2 DEF LockEntry, TypeOK, RowsInProgress, MyRow, Goto, diskVars, entryVars, objectVars, workerVars
<1>3. ASSUME NEW w \in Worker, KeepContainer(w) PROVE RowsInProgress'
  BY <1>3 DEF KeepContainer, TypeOK, RowsInProgress, MyRow, Goto, diskVars, entryVars, objectVars, workerVars
<1>4. ASSUME NEW w \in Worker, CloseTar(w) PROVE RowsInProgress'
  BY <1>4 DEF CloseTar, TypeOK, RowsInProgress, MyRow, Goto, diskVars, entryVars, objectVars, workerVars
<1>5. ASSUME NEW w \in Worker, CloseIndex(w) PROVE RowsInProgress'
  BY <1>5 DEF CloseIndex, TypeOK, RowsInProgress, MyRow, Goto, diskVars, entryVars, objectVars, workerVars
<1>6. ASSUME NEW w \in Worker, StartWalk(w) PROVE RowsInProgress'
  BY <1>6 DEF StartWalk, TypeOK, RowsInProgress, MyRow, Goto, diskVars, entryVars, objectVars, workerVars
<1>7. ASSUME NEW w \in Worker, PickContainer(w) PROVE RowsInProgress'
  BY <1>7 DEF PickContainer, LoadContainers, Candidates, Visited, FirstListed, TypeOK, RowsInProgress, MyRow, Goto, diskVars, entryVars, objectVars, workerVars
<1>8. ASSUME NEW w \in Worker, ReuseContainer(w) PROVE RowsInProgress'
  BY <1>8 DEF ReuseContainer, LoadContainers, Candidates, Visited, FirstListed, TypeOK, RowsInProgress, MyRow, Goto, diskVars, entryVars, objectVars, workerVars
<1>9. ASSUME NEW w \in Worker, MakeTar(w) PROVE RowsInProgress'
  BY <1>9 DEF MakeTar, LoadContainers, TypeOK, RowsInProgress, MyRow, Goto, diskVars, entryVars, objectVars, workerVars
<1>10. ASSUME NEW w \in Worker, MakeIndex(w) PROVE RowsInProgress'
  <2>1. \A v \in Worker : pc[v] = "size" => cont[v] # cont[w]
    BY <1>10 DEF MakeIndex, Locks
  <2>2. UNCHANGED <<cont, addr, req, rows, indexFd>> /\ indexes' = indexes \cup {cont[w]}
    BY <1>10 DEF MakeIndex, objectVars
  <2>3. \A v \in Worker : pc'[v] \in {"sync", "size"} => pc'[v] = pc[v]
    BY <1>10 DEF MakeIndex, Goto, TypeOK
  <2> QED BY <2>1, <2>2, <2>3 DEF RowsInProgress, MyRow
<1>11. ASSUME NEW w \in Worker, Use(w) PROVE RowsInProgress'
  BY <1>11 DEF Use, TypeOK, RowsInProgress, MyRow, Goto, diskVars, entryVars, objectVars, workerVars
<1>12. ASSUME NEW w \in Worker, Panic(w) PROVE RowsInProgress'
  BY <1>12 DEF Panic, ForgetMemory, TypeOK, RowsInProgress, MyRow, Goto, diskVars, entryVars, objectVars, workerVars
<1>13. ASSUME NEW w \in Worker, LockContainer(w) PROVE RowsInProgress'
  BY <1>13 DEF LockContainer, TypeOK, RowsInProgress, MyRow, Goto, diskVars, entryVars, objectVars, workerVars
<1>14. ASSUME NEW w \in Worker, OpenTar(w) PROVE RowsInProgress'
  BY <1>14 DEF OpenTar, TypeOK, RowsInProgress, MyRow, Goto, diskVars, entryVars, objectVars, workerVars
<1>15. ASSUME NEW w \in Worker, WriteHeader(w) PROVE RowsInProgress'
  BY <1>15 DEF WriteHeader, Overwritten, TypeOK, RowsInProgress, MyRow, Goto, diskVars, entryVars, objectVars, workerVars
<1>16. ASSUME NEW w \in Worker, SeekFails(w) PROVE RowsInProgress'
  BY <1>16 DEF SeekFails, Return, TypeOK, RowsInProgress, MyRow, Goto, diskVars, entryVars, objectVars, workerVars
<1>17. ASSUME NEW w \in Worker, HeaderFails(w) PROVE RowsInProgress'
  BY <1>17 DEF HeaderFails, Return, TypeOK, RowsInProgress, MyRow, Goto, diskVars, entryVars, objectVars, workerVars
<1>18. ASSUME NEW w \in Worker, WriteData(w) PROVE RowsInProgress'
  BY <1>18 DEF WriteData, Overwritten, Mine, TypeOK, RowsInProgress, MyRow, Goto, diskVars, entryVars, objectVars, workerVars
<1>19. ASSUME NEW w \in Worker, DataFails(w) PROVE RowsInProgress'
  BY <1>19 DEF DataFails, Return, TypeOK, RowsInProgress, MyRow, Goto, diskVars, entryVars, objectVars, workerVars
<1>20. ASSUME NEW w \in Worker, TarFault(w) PROVE RowsInProgress'
  BY <1>20 DEF TarFault, Return, TypeOK, RowsInProgress, MyRow, Goto, diskVars, entryVars, objectVars, workerVars
<1>21. ASSUME NEW w \in Worker, OpenIndex(w) PROVE RowsInProgress'
  <2>1. \A v \in Worker \ {w} : pc[v] \in Writing => cont[v] # cont[w]
    BY <1>21, OneWriter DEF OpenIndex
  <2>2. UNCHANGED <<cont, addr, req, rows, indexes>>
        /\ indexFd' = [indexFd EXCEPT ![cont[w]] = TRUE]
    BY <1>21 DEF OpenIndex, diskVars
  <2>3. pc'[w] = "row" /\ \A v \in Worker \ {w} : pc'[v] = pc[v]
    BY <1>21 DEF OpenIndex, Goto, TypeOK
  <2>4. \A v \in Worker \ {w} : pc[v] \in Writing => indexFd'[cont[v]] = indexFd[cont[v]]
    BY <2>1, <2>2, HasContainer DEF TypeOK
  <2> QED BY <2>1, <2>2, <2>3, <2>4 DEF RowsInProgress, MyRow
<1>22. ASSUME NEW w \in Worker, NoIndex(w) PROVE RowsInProgress'
  BY <1>22 DEF NoIndex, TypeOK, RowsInProgress, MyRow, Goto, diskVars, entryVars, objectVars, workerVars
<1>23. ASSUME NEW w \in Worker, WriteRow(w) PROVE RowsInProgress'
  BY <1>23 DEF WriteRow, MyRow, TypeOK, RowsInProgress, MyRow, Goto, diskVars, entryVars, objectVars, workerVars
<1>24. ASSUME NEW w \in Worker, Sync(w) PROVE RowsInProgress'
  BY <1>24 DEF Sync, TypeOK, RowsInProgress, MyRow, Goto, diskVars, entryVars, objectVars, workerVars
<1>25. ASSUME NEW w \in Worker, SyncFails(w) PROVE RowsInProgress'
  BY <1>25 DEF SyncFails, Return, TypeOK, RowsInProgress, MyRow, Goto, diskVars, entryVars, objectVars, workerVars
<1>26. ASSUME NEW w \in Worker, SetSize(w) PROVE RowsInProgress'
  BY <1>26 DEF SetSize, Return, TypeOK, RowsInProgress, MyRow, Goto, diskVars, entryVars, objectVars, workerVars
<1>27. CASE ReaderLoads
  BY <1>27 DEF ReaderLoads, LoadContainers, TypeOK, RowsInProgress, MyRow, Goto, diskVars, entryVars, objectVars, workerVars
<1>28. CASE Restart
  BY <1>28 DEF Restart, ForgetMemory, TypeOK, RowsInProgress, MyRow, Goto, diskVars, entryVars, objectVars, workerVars
<1>29. CASE Finished
  BY <1>29 DEF Finished, vars, TypeOK, RowsInProgress, MyRow, Goto, diskVars, entryVars, objectVars, workerVars
<1> QED
  BY <1>1, <1>2, <1>3, <1>4, <1>5, <1>6, <1>7, <1>8, <1>9, <1>10, <1>11,
     <1>12, <1>13, <1>14, <1>15, <1>16, <1>17, <1>18, <1>19, <1>20, <1>21,
     <1>22, <1>23, <1>24, <1>25, <1>26, <1>27, <1>28, <1>29 DEF
     Next, Step, Ensure, CreateRegularFile

\* No step writes over a whole record.
LEMMA WholeStays ==
    ASSUME DiskInv, Next
    PROVE  \A b \in blocks : b.whole => b \in blocks'
<1>1. ASSUME NEW w \in Worker, WriteHeader(w) PROVE blocks \subseteq blocks'
  BY <1>1, HeaderAppends
<1>2. ASSUME NEW w \in Worker, WriteData(w)
      PROVE  \A b \in blocks : b.whole => b \in blocks'
  <2>1. blocks' = (blocks \ {Mine(w, FALSE)}) \cup {Mine(w, TRUE)}
    BY <1>2, DataCompletes
  <2>2. Mine(w, FALSE).whole = FALSE BY DEF Mine
  <2> QED BY <2>1, <2>2
<1>3. ASSUME NEW w \in Worker, Ensure(w) PROVE blocks' = blocks
  BY <1>3 DEF Ensure, LockEntry, KeepContainer, CloseTar, CloseIndex, StartWalk,
     PickContainer, ReuseContainer, MakeTar, MakeIndex, diskVars
<1>4. ASSUME NEW w \in Worker, CreateRegularFile(w),
             ~WriteHeader(w), ~WriteData(w)
      PROVE  blocks' = blocks
  BY <1>4 DEF CreateRegularFile, Use, Panic, ForgetMemory, LockContainer,
     OpenTar, SeekFails, HeaderFails, DataFails, TarFault, OpenIndex, NoIndex,
     WriteRow, Sync, SyncFails, SetSize, diskVars
<1>5. ASSUME NEW w \in Worker, NEW f \in File, Accept(w, f) PROVE blocks' = blocks
  BY <1>5 DEF Accept, diskVars
<1>6. CASE ReaderLoads \/ Restart \/ Finished
  BY <1>6 DEF ReaderLoads, Restart, ForgetMemory, Finished, vars, diskVars
<1> QED BY <1>1, <1>2, <1>3, <1>4, <1>5, <1>6 DEF Next, Step

\* Every step keeps the acknowledged files stored.
LEMMA AckStep ==
    ASSUME DiskInv, AckInv, Next
    PROVE  AckedIsWritten'
<1> USE DEF DiskInv, AckInv
<1>1. ASSUME NEW w \in Worker, NEW f \in File, Accept(w, f)
      PROVE  AckedIsWritten'
  BY <1>1 DEF Accept, TypeOK, AckedIsWritten, Written, WholeRecord, Goto, diskVars, entryVars, objectVars, workerVars
<1>2. ASSUME NEW w \in Worker, LockEntry(w) PROVE AckedIsWritten'
  BY <1>2 DEF LockEntry, TypeOK, AckedIsWritten, Written, WholeRecord, Goto, diskVars, entryVars, objectVars, workerVars
<1>3. ASSUME NEW w \in Worker, KeepContainer(w) PROVE AckedIsWritten'
  BY <1>3 DEF KeepContainer, TypeOK, AckedIsWritten, Written, WholeRecord, Goto, diskVars, entryVars, objectVars, workerVars
<1>4. ASSUME NEW w \in Worker, CloseTar(w) PROVE AckedIsWritten'
  BY <1>4 DEF CloseTar, TypeOK, AckedIsWritten, Written, WholeRecord, Goto, diskVars, entryVars, objectVars, workerVars
<1>5. ASSUME NEW w \in Worker, CloseIndex(w) PROVE AckedIsWritten'
  BY <1>5 DEF CloseIndex, TypeOK, AckedIsWritten, Written, WholeRecord, Goto, diskVars, entryVars, objectVars, workerVars
<1>6. ASSUME NEW w \in Worker, StartWalk(w) PROVE AckedIsWritten'
  BY <1>6 DEF StartWalk, TypeOK, AckedIsWritten, Written, WholeRecord, Goto, diskVars, entryVars, objectVars, workerVars
<1>7. ASSUME NEW w \in Worker, PickContainer(w) PROVE AckedIsWritten'
  BY <1>7 DEF PickContainer, LoadContainers, Candidates, Visited, FirstListed, TypeOK, AckedIsWritten, Written, WholeRecord, Goto, diskVars, entryVars, objectVars, workerVars
<1>8. ASSUME NEW w \in Worker, ReuseContainer(w) PROVE AckedIsWritten'
  BY <1>8 DEF ReuseContainer, LoadContainers, Candidates, Visited, FirstListed, TypeOK, AckedIsWritten, Written, WholeRecord, Goto, diskVars, entryVars, objectVars, workerVars
<1>9. ASSUME NEW w \in Worker, MakeTar(w) PROVE AckedIsWritten'
  BY <1>9 DEF MakeTar, LoadContainers, TypeOK, AckedIsWritten, Written, WholeRecord, Goto, diskVars, entryVars, objectVars, workerVars
<1>10. ASSUME NEW w \in Worker, MakeIndex(w) PROVE AckedIsWritten'
  <2>1. \A b \in blocks : b.number # cont[w]
    BY <1>10 DEF MakeIndex, Records
  <2>2. UNCHANGED <<blocks, rows, answer>> /\ indexes' = indexes \cup {cont[w]}
    BY <1>10 DEF MakeIndex
  <2> QED BY <2>1, <2>2 DEF AckedIsWritten, Written, WholeRecord
<1>11. ASSUME NEW w \in Worker, Use(w) PROVE AckedIsWritten'
  BY <1>11 DEF Use, TypeOK, AckedIsWritten, Written, WholeRecord, Goto, diskVars, entryVars, objectVars, workerVars
<1>12. ASSUME NEW w \in Worker, Panic(w) PROVE AckedIsWritten'
  BY <1>12 DEF Panic, ForgetMemory, TypeOK, AckedIsWritten, Written, WholeRecord, Goto, diskVars, entryVars, objectVars, workerVars
<1>13. ASSUME NEW w \in Worker, LockContainer(w) PROVE AckedIsWritten'
  BY <1>13 DEF LockContainer, TypeOK, AckedIsWritten, Written, WholeRecord, Goto, diskVars, entryVars, objectVars, workerVars
<1>14. ASSUME NEW w \in Worker, OpenTar(w) PROVE AckedIsWritten'
  BY <1>14 DEF OpenTar, TypeOK, AckedIsWritten, Written, WholeRecord, Goto, diskVars, entryVars, objectVars, workerVars
<1>15. ASSUME NEW w \in Worker, WriteHeader(w) PROVE AckedIsWritten'
  <2>1. blocks \subseteq blocks' BY <1>15, HeaderAppends
  <2>2. UNCHANGED <<indexes, rows, answer>> BY <1>15 DEF WriteHeader
  <2> QED BY <2>1, <2>2 DEF AckedIsWritten, Written, WholeRecord
<1>16. ASSUME NEW w \in Worker, SeekFails(w) PROVE AckedIsWritten'
  BY <1>16 DEF SeekFails, Return, TypeOK, AckedIsWritten, Written, WholeRecord, Goto, diskVars, entryVars, objectVars, workerVars
<1>17. ASSUME NEW w \in Worker, HeaderFails(w) PROVE AckedIsWritten'
  BY <1>17 DEF HeaderFails, Return, TypeOK, AckedIsWritten, Written, WholeRecord, Goto, diskVars, entryVars, objectVars, workerVars
<1>18. ASSUME NEW w \in Worker, WriteData(w) PROVE AckedIsWritten'
  <2>1. \A b \in blocks : b.whole => b \in blocks'
    BY <1>18, WholeStays, DiskInv DEF Next, Step, CreateRegularFile
  <2>2. UNCHANGED <<indexes, rows, answer>> BY <1>18 DEF WriteData
  <2> QED BY <2>1, <2>2 DEF AckedIsWritten, Written, WholeRecord
<1>19. ASSUME NEW w \in Worker, DataFails(w) PROVE AckedIsWritten'
  BY <1>19 DEF DataFails, Return, TypeOK, AckedIsWritten, Written, WholeRecord, Goto, diskVars, entryVars, objectVars, workerVars
<1>20. ASSUME NEW w \in Worker, TarFault(w) PROVE AckedIsWritten'
  BY <1>20 DEF TarFault, Return, TypeOK, AckedIsWritten, Written, WholeRecord, Goto, diskVars, entryVars, objectVars, workerVars
<1>21. ASSUME NEW w \in Worker, OpenIndex(w) PROVE AckedIsWritten'
  BY <1>21 DEF OpenIndex, TypeOK, AckedIsWritten, Written, WholeRecord, Goto, diskVars, entryVars, objectVars, workerVars
<1>22. ASSUME NEW w \in Worker, NoIndex(w) PROVE AckedIsWritten'
  BY <1>22 DEF NoIndex, TypeOK, AckedIsWritten, Written, WholeRecord, Goto, diskVars, entryVars, objectVars, workerVars
<1>23. ASSUME NEW w \in Worker, WriteRow(w) PROVE AckedIsWritten'
  BY <1>23 DEF WriteRow, MyRow, TypeOK, AckedIsWritten, Written, WholeRecord, Goto, diskVars, entryVars, objectVars, workerVars
<1>24. ASSUME NEW w \in Worker, Sync(w) PROVE AckedIsWritten'
  BY <1>24 DEF Sync, TypeOK, AckedIsWritten, Written, WholeRecord, Goto, diskVars, entryVars, objectVars, workerVars
<1>25. ASSUME NEW w \in Worker, SyncFails(w) PROVE AckedIsWritten'
  BY <1>25 DEF SyncFails, Return, TypeOK, AckedIsWritten, Written, WholeRecord, Goto, diskVars, entryVars, objectVars, workerVars
<1>26. ASSUME NEW w \in Worker, SetSize(w) PROVE AckedIsWritten'
  <2>1. Mine(w, TRUE) \in blocks BY <1>26 DEF SetSize, InProgress
  <2>2. cont[w] \in indexes => MyRow(w) \in rows
    BY <1>26 DEF SetSize, RowsInProgress
  <2>3. Written(req[w]) BY <2>1, <2>2 DEF Written, WholeRecord, Mine, MyRow
  <2>4. UNCHANGED <<blocks, rows, indexes>> BY <1>26 DEF SetSize, diskVars
  <2>5. \A f \in File : answer'[f] = "acked" => answer[f] = "acked" \/ f = req[w]
    BY <1>26 DEF SetSize, Return, TypeOK
  <2> QED BY <2>3, <2>4, <2>5 DEF AckedIsWritten, Written, WholeRecord
<1>27. CASE ReaderLoads
  BY <1>27 DEF ReaderLoads, LoadContainers, TypeOK, AckedIsWritten, Written, WholeRecord, Goto, diskVars, entryVars, objectVars, workerVars
<1>28. CASE Restart
  BY <1>28 DEF Restart, ForgetMemory, TypeOK, AckedIsWritten, Written, WholeRecord, Goto, diskVars, entryVars, objectVars, workerVars
<1>29. CASE Finished
  BY <1>29 DEF Finished, vars, TypeOK, AckedIsWritten, Written, WholeRecord, Goto, diskVars, entryVars, objectVars, workerVars
<1> QED
  BY <1>1, <1>2, <1>3, <1>4, <1>5, <1>6, <1>7, <1>8, <1>9, <1>10, <1>11,
     <1>12, <1>13, <1>14, <1>15, <1>16, <1>17, <1>18, <1>19, <1>20, <1>21,
     <1>22, <1>23, <1>24, <1>25, <1>26, <1>27, <1>28, <1>29 DEF
     Next, Step, Ensure, CreateRegularFile

-----------------------------------------------------------------------------
(* The inductive invariant.                                                 *)

\* Nothing is written and nobody works at the start.
LEMMA InitInv == Init => IInv
BY DEF Init, LeftBehind, IInv, DiskInv, AckInv, TypeOK, Locks, Requests, Records, InProgress,
   IndexedFilesAreWhole, RowsInProgress, AckedIsWritten, Block, Row

\* Every step, and every stuttering step, keeps all its parts.
LEMMA NextInv == IInv /\ [Next]_vars => IInv'
<1> SUFFICES ASSUME IInv, [Next]_vars PROVE IInv'
  OBVIOUS
<1>1. CASE Next
  <2>1. DiskInv'
    BY <1>1, TypeStep, LocksStep, RequestsStep, RecordsStep, InProgressStep,
       RowsStep DEF IInv, DiskInv
  <2>2. ASSUME "indexWrite" \notin Faults PROVE AckInv'
    BY <1>1, <2>2, RowsInProgressStep, AckStep DEF IInv, AckInv
  <2> QED BY <2>1, <2>2 DEF IInv
<1>2. CASE UNCHANGED vars
  BY <1>2 DEF IInv, DiskInv, AckInv, TypeOK, Locks, Requests, Records,
     InProgress, Mine, IndexedFilesAreWhole, RowsInProgress, MyRow,
     AckedIsWritten, Written, WholeRecord, vars, diskVars, entryVars, objectVars, workerVars
<1> QED BY <1>1, <1>2

\* The inductive invariant holds in every reachable state.
THEOREM Invariance == Spec => []IInv
BY InitInv, NextInv, PTL DEF Spec

-----------------------------------------------------------------------------
(* What follows for the storage.                                            *)

\* Type correctness: every variable keeps to its type, and no tar is missing
\* for a container the cache knows.
THEOREM TypeCorrectness == Spec => []TypeOK
<1>1. IInv => TypeOK BY DEF IInv, DiskInv
<1> QED BY Invariance, <1>1, PTL

\* A row of an index points at a whole record, whatever fails or is killed.
THEOREM RowsPointAtWholeRecords == Spec => []IndexedFilesAreWhole
<1>1. IInv => IndexedFilesAreWhole BY DEF IInv, DiskInv
<1> QED BY Invariance, <1>1, PTL

\* What is written is stored, or it is buried: a scan of its container, which
\* has no index, ends before it.
LEMMA WrittenIsStoredOrBuried ==
    ASSUME NEW f, Written(f)
    PROVE  Stored(f) \/ Buried(f)
BY DEF Written, Stored, Buried

\* A create that succeeded can be read, as long as no row is lost by the disk,
\* unless its file lies behind a torn record in a container without index.
THEOREM AcknowledgedCreatesAreStored ==
    ASSUME "indexWrite" \notin Faults
    PROVE  Spec => []AckedIsStored
<1>1. IInv => AckedIsStored
  BY WrittenIsStoredOrBuried DEF IInv, AckInv, AckedIsWritten, AckedIsStored
<1> QED BY Invariance, <1>1, PTL

\* Two creates never write the same part of a tar.
THEOREM NothingIsOverwritten == Spec => AppendOnly
<1>1. IInv /\ [Next]_vars => [\A b \in blocks : b.whole => b \in blocks']_vars
  BY WholeStays DEF IInv
<1> QED BY Invariance, <1>1, PTL DEF Spec, AppendOnly


-----------------------------------------------------------------------------
(* WriteContainer implements FileStore: stored <- storedFiles and           *)
(* buried <- buriedFiles.                                                   *)

\* What is stored or buried is told by the records, the rows and the indexes.
LEMMA StoredSame ==
    ASSUME UNCHANGED <<blocks, rows, indexes>>
    PROVE  storedFiles' = storedFiles /\ buriedFiles' = buriedFiles
BY DEF storedFiles, buriedFiles, Stored, Buried, Scanned, WholeRecord

\* The answer of a request that a worker serves is still pending.
LEMMA Pending ==
    ASSUME DiskInv, NEW w \in Worker, pc[w] # "idle"
    PROVE  req[w] \in File /\ answer[req[w]] = "pending"
BY DEF DiskInv, Requests

\* An error, an answer without a new file, is a Reject.
LEMMA FailureIsReject ==
    ASSUME DiskInv, NEW w \in Worker, pc[w] # "idle", Return(w, "failed"),
           UNCHANGED diskVars
    PROVE  Store!Reject(req[w])
BY Pending, StoredSame DEF Return, Store!Reject, diskVars

\* Losing the memory is what the clients see as Lose.
LEMMA ForgetIsLose ==
    ASSUME ForgetMemory
    PROVE  Store!Lose
BY StoredSame DEF ForgetMemory, Store!Lose, diskVars

\* Steps that leave the disk and the answers alone are no steps of the store.
LEMMA QuietIsStutter ==
    ASSUME UNCHANGED <<blocks, rows, indexes, answer>>
    PROVE  UNCHANGED Store!storeVars
BY StoredSame DEF Store!storeVars

\* The index of a new, empty container stores nothing.
LEMMA MakeIndexIsStutter ==
    ASSUME DiskInv, NEW w \in Worker, MakeIndex(w)
    PROVE  UNCHANGED Store!storeVars
<1>1. \A b \in blocks : b.number # cont[w]
  BY DEF DiskInv, Records, MakeIndex
<1>2. UNCHANGED <<blocks, rows, answer>> /\ indexes' = indexes \cup {cont[w]}
  BY DEF MakeIndex
<1>3. \A b \in blocks : b.number \in indexes' <=> b.number \in indexes
  BY <1>1, <1>2
<1>4. storedFiles' = storedFiles
  BY <1>2, <1>3 DEF storedFiles, Stored, Scanned, WholeRecord
<1>5. buriedFiles' = buriedFiles
  BY <1>2, <1>3 DEF buriedFiles, Buried, Scanned, WholeRecord
<1> QED BY <1>2, <1>4, <1>5 DEF Store!storeVars

\* A record that is appended is behind all others: no scan ends before one that
\* it came to so far, and none gets further.
LEMMA AppendedIsBehind ==
    ASSUME NEW new, NEW b \in blocks,
           blocks' = blocks \cup {new},
           \A c \in blocks : c.number = new.number => ~(new.address < c.address)
    PROVE  Scanned(b)' <=> Scanned(b)
BY DEF Scanned

\* A torn record stores nothing, and hides nothing that is there.
LEMMA WriteHeaderIsStutter ==
    ASSUME DiskInv, NEW w \in Worker, WriteHeader(w)
    PROVE  UNCHANGED Store!storeVars
<1> DEFINE new == [number |-> cont[w], address |-> position[cont[w]],
                   file |-> req[w], whole |-> FALSE]
<1>1. blocks' = blocks \cup {new} BY HeaderAppends
<1>2. new.whole = FALSE OBVIOUS
<1>3. UNCHANGED <<indexes, rows, answer>> BY DEF WriteHeader
<1>4. \A c \in blocks : c.number = new.number => ~(new.address < c.address)
  <2>1. cont[w] \in Number /\ writeFd[cont[w]]
    BY HasContainer DEF WriteHeader, DiskInv
  <2>2. \A c \in blocks : c.number = cont[w] => c.address < position[cont[w]]
    BY <2>1 DEF DiskInv, Records
  <2>3. position[cont[w]] \in Nat /\ \A c \in blocks : c.address \in Nat
    BY <2>1 DEF DiskInv, TypeOK, Block
  <2> QED BY <2>2, <2>3
<1> HIDE DEF new
<1>5. \A b \in blocks : Scanned(b)' <=> Scanned(b)
  BY <1>1, <1>4, AppendedIsBehind
<1>6. storedFiles' = storedFiles
  BY <1>1, <1>2, <1>3, <1>5 DEF storedFiles, Stored, WholeRecord
<1>7. buriedFiles' = buriedFiles
  BY <1>1, <1>2, <1>3, <1>5 DEF buriedFiles, Buried, WholeRecord
<1> QED BY <1>3, <1>6, <1>7 DEF Store!storeVars

\* The data of a record, or its row, can only store or bury the worker's file.
LEMMA OneFileIsStored ==
    ASSUME DiskInv, NEW w \in Worker, pc[w] # "idle", UNCHANGED answer,
           \/ /\ storedFiles' = storedFiles
              /\ buriedFiles' \in {buriedFiles, buriedFiles \cup {req[w]}}
           \/ /\ storedFiles' = storedFiles \cup {req[w]}
              /\ buriedFiles' = buriedFiles
    PROVE  [Store!Next]_Store!storeVars
<1>1. req[w] \in File /\ answer[req[w]] = "pending" BY Pending
<1>2. CASE storedFiles' = storedFiles /\ buriedFiles' = buriedFiles
  BY <1>2 DEF Store!storeVars
<1>3. CASE storedFiles' = storedFiles \cup {req[w]} /\ buriedFiles' = buriedFiles
  BY <1>1, <1>3 DEF Store!Next, Store!Store
<1>4. CASE storedFiles' = storedFiles /\ buriedFiles' = buriedFiles \cup {req[w]}
  BY <1>1, <1>4 DEF Store!Next, Store!Bury
<1> QED BY <1>2, <1>3, <1>4

\* In a container without an index the data makes the file stored, or buried
\* when a record before it is torn.
LEMMA WriteDataStores ==
    ASSUME DiskInv, NEW w \in Worker, WriteData(w)
    PROVE  [Store!Next]_Store!storeVars
<1> DEFINE old == Mine(w, FALSE)
           new == Mine(w, TRUE)
<1>1. old \in blocks /\ blocks' = (blocks \ {old}) \cup {new}
  BY DataCompletes
<1>2. /\ ~old.whole /\ new.whole /\ new.file = req[w]
      /\ old.number = cont[w] /\ new.number = cont[w]
      /\ old.address = addr[w] /\ new.address = addr[w]
  BY DEF Mine
<1>3. UNCHANGED <<indexes, rows, answer>> /\ pc[w] # "idle" BY DEF WriteData
<1>4. \A b \in blocks : b.number = cont[w] => ~(addr[w] < b.address)
  <2>1. \A b \in blocks : b.number = cont[w] => b.address <= addr[w]
    BY DEF DiskInv, InProgress, WriteData
  <2>2. addr[w] \in Nat /\ \A b \in blocks : b.address \in Nat
    BY DEF DiskInv, TypeOK, Block
  <2> QED BY <2>1, <2>2
<1> HIDE DEF old, new
<1>5. /\ \A b \in blocks \ {old} : Scanned(b)' <=> Scanned(b)
      /\ \A b \in {new} : Scanned(b)' <=> Scanned(old)
  BY <1>1, <1>2, <1>4 DEF Scanned
<1>6. req[w] \in File BY <1>3, Pending
<1> DEFINE row == [number |-> new.number, address |-> new.address, file |-> req[w]]
           good == row \in rows \/ (new.number \notin indexes /\ Scanned(old))
           bad == new.number \notin indexes /\ ~Scanned(old)
<1>7. \A f \in File : Stored(f)' <=> Stored(f) \/ (f = req[w] /\ good)
  BY <1>1, <1>2, <1>3, <1>5 DEF Stored, WholeRecord
<1>8. \A f \in File : Buried(f)' <=> Buried(f) \/ (f = req[w] /\ bad)
  BY <1>1, <1>2, <1>3, <1>5 DEF Buried, WholeRecord
<1>9. ~(good /\ bad)
  <2>1. bad => row \notin rows
    <3> SUFFICES ASSUME row \in rows PROVE FALSE
      OBVIOUS
    <3>1. [number |-> row.number, address |-> row.address, file |-> row.file,
           whole |-> TRUE] \in blocks
      BY DEF DiskInv, IndexedFilesAreWhole
    <3>2. \E b \in blocks : b.number = cont[w] /\ b.address = addr[w] /\ b.whole
      BY <3>1, <1>2
    <3> QED BY <3>2, <1>1, <1>2 DEF DiskInv, Records
  <2> QED BY <2>1
<1>10. storedFiles' = IF good THEN storedFiles \cup {req[w]} ELSE storedFiles
  BY <1>6, <1>7 DEF storedFiles
<1>11. buriedFiles' = IF bad THEN buriedFiles \cup {req[w]} ELSE buriedFiles
  BY <1>6, <1>8 DEF buriedFiles
<1> HIDE DEF good, bad
<1> QED BY <1>3, <1>9, <1>10, <1>11, OneFileIsStored

\* The row makes the file stored, as its record is whole.
LEMMA WriteRowStores ==
    ASSUME DiskInv, NEW w \in Worker, WriteRow(w)
    PROVE  [Store!Next]_Store!storeVars
<1>1. rows' \in {rows, rows \cup {MyRow(w)}} BY DEF WriteRow
<1>2. UNCHANGED <<indexes, blocks, answer>> /\ pc[w] # "idle" BY DEF WriteRow
<1>3. Mine(w, TRUE) \in blocks BY DEF DiskInv, InProgress, WriteRow
<1>4. req[w] \in File BY <1>2, Pending
<1>5. buriedFiles' = buriedFiles
  BY <1>2 DEF buriedFiles, Buried, Scanned, WholeRecord
<1>6. CASE rows' = rows BY <1>2, <1>5, <1>6, StoredSame, OneFileIsStored
<1>7. CASE rows' = rows \cup {MyRow(w)}
  <2>1. \A f \in File : Stored(f)' <=> Stored(f) \/ f = req[w]
    BY <1>2, <1>3, <1>7 DEF Stored, Scanned, WholeRecord, MyRow, Mine
  <2>2. storedFiles' = storedFiles \cup {req[w]}
    BY <1>4, <2>1 DEF storedFiles
  <2> QED BY <1>2, <1>5, <2>2, OneFileIsStored
<1> QED BY <1>1, <1>6, <1>7

\* Success is answered for a file whose record and row are on disk.
LEMMA SetSizeAcks ==
    ASSUME IInv, "indexWrite" \notin Faults, NEW w \in Worker, SetSize(w)
    PROVE  Store!Ack(req[w])
<1>1. Mine(w, TRUE) \in blocks BY DEF IInv, DiskInv, InProgress, SetSize
<1>2. cont[w] \in indexes => MyRow(w) \in rows
  BY DEF IInv, AckInv, RowsInProgress, SetSize
<1>3. Written(req[w]) BY <1>1, <1>2 DEF Written, WholeRecord, Mine, MyRow
<1>4. req[w] \in File /\ answer[req[w]] = "pending"
  BY Pending DEF IInv, SetSize
<1>5. storedFiles' = storedFiles /\ buriedFiles' = buriedFiles
  BY StoredSame DEF SetSize, diskVars
<1>6. req[w] \in storedFiles \cup buriedFiles
  BY <1>3, <1>4, WrittenIsStoredOrBuried DEF storedFiles, buriedFiles
<1> QED BY <1>4, <1>5, <1>6 DEF SetSize, Return, Store!Ack

\* A step of a worker is a step of the store or none.
LEMMA StepRefines ==
    ASSUME IInv, "indexWrite" \notin Faults, NEW w \in Worker, Step(w)
    PROVE  [Store!Next]_Store!storeVars
<1> USE DEF IInv
<1>1. CASE Ensure(w) /\ ~MakeIndex(w)
  BY <1>1, QuietIsStutter DEF Ensure, LockEntry, KeepContainer, CloseTar,
     CloseIndex, StartWalk, PickContainer, ReuseContainer, MakeTar, diskVars
<1>2. CASE MakeIndex(w) BY <1>2, MakeIndexIsStutter
<1>3. CASE Use(w) \/ LockContainer(w) \/ OpenTar(w) \/ OpenIndex(w)
           \/ NoIndex(w) \/ Sync(w)
  BY <1>3, QuietIsStutter DEF Use, LockContainer, OpenTar, OpenIndex, NoIndex,
     Sync, diskVars
<1>4. CASE Panic(w) BY <1>4, ForgetIsLose DEF Panic, Store!Next
<1>5. CASE WriteHeader(w) BY <1>5, WriteHeaderIsStutter
<1>6. CASE SeekFails(w) \/ HeaderFails(w) \/ DataFails(w) \/ TarFault(w) \/ SyncFails(w)
  <2>1. pc[w] # "idle" /\ Return(w, "failed") /\ UNCHANGED diskVars
    BY <1>6 DEF SeekFails, HeaderFails, DataFails, TarFault, SyncFails
  <2>2. Store!Reject(req[w]) /\ req[w] \in File
    BY <2>1, FailureIsReject, Pending
  <2> QED BY <2>2 DEF Store!Next
<1>7. CASE WriteData(w) BY <1>7, WriteDataStores
<1>8. CASE WriteRow(w) BY <1>8, WriteRowStores
<1>9. CASE SetSize(w)
  <2>1. Store!Ack(req[w]) BY <1>9, SetSizeAcks
  <2>2. req[w] \in File BY <1>9, Pending DEF SetSize
  <2> QED BY <2>1, <2>2 DEF Store!Next
<1> QED BY <1>1, <1>2, <1>3, <1>4, <1>5, <1>6, <1>7, <1>8, <1>9
        DEF Step, CreateRegularFile, Ensure

\* The steps of clients, readers and restarts are steps of the store too.
LEMMA NextRefines ==
    ASSUME IInv, "indexWrite" \notin Faults, [Next]_vars
    PROVE  [Store!Next]_Store!storeVars
<1>1. ASSUME NEW w \in Worker, Step(w) PROVE [Store!Next]_Store!storeVars
  BY <1>1, StepRefines
<1>2. ASSUME NEW w \in Worker, NEW f \in File, Accept(w, f)
      PROVE  [Store!Next]_Store!storeVars
  BY <1>2, StoredSame DEF Accept, diskVars, Store!Next, Store!Request
<1>3. CASE ReaderLoads BY <1>3, QuietIsStutter DEF ReaderLoads, diskVars
<1>4. CASE Restart
  BY <1>4, ForgetIsLose DEF Restart, Store!Next
<1>5. CASE Finished \/ UNCHANGED vars
  BY <1>5, QuietIsStutter DEF Finished, vars, diskVars
<1> QED BY <1>1, <1>2, <1>3, <1>4, <1>5 DEF Next

\* The storage keeps the promise of FileStore: success only for what is stored,
\* and nothing that is stored is lost again.
THEOREM StorageImplementsFileStore ==
    ASSUME "indexWrite" \notin Faults
    PROVE  Spec => ImplementsFileStore
<1>1. Init => Store!Init
  BY DEF Init, LeftBehind, Store!Init, storedFiles, buriedFiles, Stored, Buried
<1>2. IInv /\ [Next]_vars => [Store!Next]_Store!storeVars
  BY NextRefines
<1> QED BY Invariance, <1>1, <1>2, PTL DEF Spec, ImplementsFileStore, Store!Spec

=============================================================================
