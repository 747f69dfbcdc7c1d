\* A file is created while two nodes do not know each other.
CONSTANTS
    Node <- TwoNodes
    Dir <- Directories
    File <- Files
    Root <- Slash
    Parent <- ParentOf
    Maglev <- Crosswise
    Request = {r1, r2}
    PoolSize = 2
    MaxChanges = 2
    None = none
SPECIFICATION Spec
INVARIANTS FilesAreWithTheirNode
