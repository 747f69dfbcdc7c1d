\* One other node.  Two disturbances, each a lost connection, a failed call, or
\* the other node coming or going.
CONSTANTS
    Node = {n1}
    Self = self
    Address = {a1}
    Absent = absent
    Unknown = unknown
    Sessions = 3
    MaxDisturbances = 2
SPECIFICATION FairSpec
CHECK_DEADLOCK FALSE
INVARIANTS TypeOK SettledViewIsExact
PROPERTIES ViewConvergesIfRegistered CloseEnds
