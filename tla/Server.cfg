CONSTANTS
    v1 = v1
    v2 = v2
    c1 = c1
    c2 = c2
    NoValue = NoValue
    Key = {1, 2}
    Value = {v1, v2}
    Lease = {7}
    TxnRequest <- MCOthers
    Pass = {}
    AutoCompactAge = 1
    CompactBatchSize = 1
    MaxRev = 5
    Reader = {c1}
    ReadRequest = {}
    KeyName <- MCKeyName
    Wildcard = 1
    Percent = 8
    Escape = 7
    ServerRequest <- MCRequests
CONSTRAINT InProgress
SPECIFICATION ServerSpec
INVARIANTS
    PutLostOnlyToRace IgnoredFieldKept DeleteRangeComplete CompareExact
    ReadTypeOK SnapshotExact TxnRangeExact
