\* More creates than a container holds, a process that is killed and started
\* again, a disk that refuses records (not rows), and what was left behind: a
\* container without index is taken, damaged by a failed create and taken again.
CONSTANTS
    Worker = {w1, w2}
    File = {1, 2, 3}
    MaxSize = 1
    MaxContainers = 5
    NameOrder <- ListedByNumber
    Faults = {"restart", "tarWrite"}
    None = none
SPECIFICATION FairSpec
INVARIANTS TypeOK IInv IndexedFilesAreWhole AckedIsStored
PROPERTIES AppendOnly NewOnlyWhenFull ImplementsFileStore EveryCreateEnds
