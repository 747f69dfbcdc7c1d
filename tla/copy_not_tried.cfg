CONSTANTS
    Node <- Nodes
    Shards <- OneShardOrTwo
    Maglev <- SecondOrLast
    MaxRequests = 10
    MaxChanges = 0
    MaxChanged = 1
    None = none
SPECIFICATION Spec
INVARIANTS OtherCopyIsTried
