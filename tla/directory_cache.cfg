\* Two directories in a cache of one entry, and as many entries as three
\* operations can have at once.
CONSTANTS
    Worker = {w1, w2}
    Closer = closer
    Directory = {d1, d2}
    Container = {c1, c2}
    Entry = {e1, e2, e3}
    None = none
    Capacity = 1
    MaxOperations = 4
SPECIFICATION Spec
SYMMETRY Interchangeable
INVARIANTS TypeOK OneWriter
PROPERTIES AppendOnly
\* The code really stops where an eviction and a create have each a mutex that
\* the other wants: see eviction_deadlock.cfg.
CHECK_DEADLOCK FALSE
