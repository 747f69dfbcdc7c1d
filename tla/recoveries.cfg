\* Three requests to two nodes of one worker each, which recover directories in
\* both directions.
CONSTANTS
    Node <- TwoNodes
    Dir <- Directories
    File <- OneFile
    Root <- Slash
    Parent <- ParentOf
    Maglev <- Crosswise
    Request = {r1, r2, r3}
    PoolSize = 1
    MaxChanges = 0
    None = none
SPECIFICATION FairSpec
CHECK_DEADLOCK FALSE
PROPERTIES EveryRequestEndsUnlessPoolsWait
