\* One read of a directory that the storage has not read before misses a file.
CONSTANTS
    f1 = f1
    g2 = g2
    g1 = g1
    r1 = r1
    r2 = r2
    Own = {1, 2}
    Foreign = {3}
    Name = {f1}
    Copied = {g1, g2}
    Dir = dir
    None = none
    Reader = {r1, r2}
    Wants <- MCWants
    MaxRecords = 2
SPECIFICATION Spec
INVARIANTS EveryFileIsFound
CHECK_DEADLOCK FALSE
