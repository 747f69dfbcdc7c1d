\* As directory_cache.cfg, with one container to a directory and without
\* symmetry, for a property of whole behaviours.
CONSTANTS
    Worker = {w1, w2}
    Closer = closer
    Directory = {d1, d2}
    Container = {c1}
    Entry = {e1, e2, e3}
    None = none
    Capacity = 1
    MaxOperations = 3
SPECIFICATION FairSpec
PROPERTIES UndisturbedOperationsEnd
\* The code really stops where an eviction and a create have each a mutex that
\* the other wants: see eviction_deadlock.cfg.
CHECK_DEADLOCK FALSE
