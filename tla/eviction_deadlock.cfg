\* As directory_mutexes.cfg.
CONSTANTS
    Worker = {w1, w2}
    Closer = closer
    Directory = {d1, d2}
    Container = {c1}
    Entry = {e1, e2, e3}
    None = none
    Capacity = 1
    MaxOperations = 3
SPECIFICATION FairSpec
PROPERTIES EveryOperationEnds
\* What the property finds would be a deadlock as well.
CHECK_DEADLOCK FALSE
