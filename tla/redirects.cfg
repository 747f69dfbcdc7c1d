\* Every placement of one file, and one change of a node's topology.
CONSTANTS
    Node <- Nodes
    Shards <- OneShardOrTwo
    Maglev <- SecondOrLast
    MaxRequests = 10
    MaxChanges = 1
    MaxChanged = 1
    None = none
SPECIFICATION Spec
INVARIANTS TypeOK HopsGrow RedirectsEndInTime CreatedFileIsFound LastCopyIsFound
