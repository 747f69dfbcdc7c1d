\* The safety properties of writers.cfg with a third worker.
CONSTANTS
    Worker = {w1, w2, w3}
    File = {1, 2, 3}
    MaxSize = 1
    MaxContainers = 5
    NameOrder <- ListedByNumber
    Faults = {"restart", "tarWrite"}
    None = none
SPECIFICATION Spec
SYMMETRY Interchangeable
INVARIANTS TypeOK IInv IndexedFilesAreWhole AckedIsStored
PROPERTIES AppendOnly NewOnlyWhenFull ImplementsFileStore
