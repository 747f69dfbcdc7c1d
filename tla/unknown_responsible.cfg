CONSTANTS
    Node <- TwoNodes
    Dir <- Directories
    File <- Files
    Root <- Slash
    Parent <- ParentOf
    Maglev <- Crosswise
    Request = {r1, r2, r3}
    PoolSize = 2
    MaxChanges = 0
    None = none
SPECIFICATION Spec
SYMMETRY Interchangeable
INVARIANTS ServersSurvive
