\* Two creates, each of which needs a directory of the other's node.
CONSTANTS
    Node <- TwoNodes
    Dir <- Directories
    File <- OneFile
    Root <- Slash
    Parent <- ParentOf
    Maglev <- Crosswise
    Request = {r1, r2}
    PoolSize = 1
    MaxChanges = 0
    None = none
SPECIFICATION FairSpec
CHECK_DEADLOCK FALSE
PROPERTIES EveryRequestEnds
