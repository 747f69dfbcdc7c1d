\* As topology.cfg, whether the registration is refused or not.
CONSTANTS
    Node = {n1}
    Self = self
    Address = {a1}
    Absent = absent
    Unknown = unknown
    Sessions = 3
    MaxDisturbances = 2
SPECIFICATION FairSpec
CHECK_DEADLOCK FALSE
PROPERTIES ViewConverges
