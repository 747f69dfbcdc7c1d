\* Close at any moment, and nothing else.
CONSTANTS
    Node = {n1}
    Self = self
    Address = {a1}
    Absent = absent
    Unknown = unknown
    Sessions = 3
    MaxDisturbances = 0
SPECIFICATION FairSpec
CHECK_DEADLOCK FALSE
PROPERTIES CloseUnregisters
