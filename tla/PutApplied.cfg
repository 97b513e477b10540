CONSTANTS
    v1 = v1
    v2 = v2
    c1 = c1
    c2 = c2
    NoValue = NoValue
    Key = {1}
    Value = {v1}
    Lease = {}
    TxnRequest = {}
    Pass = {}
    AutoCompactAge = 1
    CompactBatchSize = 1
    MaxRev = 3
    Reader = {c1, c2}
    ReadRequest = {}
    KeyName <- MCKeyName
    Wildcard = 1
    Percent = 8
    Escape = 7
    ServerRequest <- MCOnePut
SYMMETRY ServerSymmetry
SPECIFICATION ServerSpec
INVARIANT PutApplied
