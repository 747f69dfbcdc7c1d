\* Three nodes of one worker each: a node that has lost the third asks the first
\* for the outer directory and is sent on, and the nodes wait for each other.
CONSTANTS
    Node <- ThreeNodes
    Dir <- Directories
    File <- OneFile
    Root <- Slash
    Parent <- ParentOf
    Maglev <- WithThird
    Request = {r1, r2}
    PoolSize = 1
    MaxChanges = 2
    None = none
SPECIFICATION FairSpec
CHECK_DEADLOCK FALSE
PROPERTIES EveryRequestEndsUnlessPoolsWait
