\* As directory_cache.cfg.
CONSTANTS
    Worker = {w1, w2}
    Closer = closer
    Directory = {d1, d2}
    Container = {c1, c2}
    Entry = {e1, e2, e3}
    None = none
    Capacity = 1
    MaxOperations = 4
SPECIFICATION Spec
SYMMETRY Interchangeable
PROPERTIES NothingOverwritten
CHECK_DEADLOCK FALSE
