CONSTANTS
    k1 = k1
    k2 = k2
    v1 = v1
    v2 = v2
    NoValue = NoValue
    Key <- MCKey
    Value = {v1}
    Lease = {7}
    TxnRequest <- MCTxnRequest
    Pass = {p1, p2}
    AutoCompactAge = 1
    CompactBatchSize = 1
    MaxRev = 4
SYMMETRY Symmetry
SPECIFICATION Spec
INVARIANTS TypeOK NewestRowKept AboveHorizonKept CurrentRevisionExact HistoryChained
PROPERTIES RevisionsMonotonic ImplementsEtcd
