CONSTANTS
    Worker = {w1, w2}
    File = {1, 2, 3}
    MaxSize = 1
    MaxContainers = 5
    NameOrder <- ListedByNumber
    Faults = {}
    None = none
SPECIFICATION Spec
SYMMETRY Interchangeable
INVARIANTS WriteContainerEnsured
