CONSTANTS
    v1 = v1
    s1 = s1
    p1 = p1
    p2 = p2
    NoValue = NoValue
    Key = {1, 2}
    Value = {v1}
    Lease = {}
    TxnRequest <- MCSinglePuts
    Pass = {}
    AutoCompactAge = 1
    CompactBatchSize = 1
    MaxRev = 4
    Reader = {s1, poller}
    ReadRequest = {}
    KeyName <- MCKeyName
    Wildcard = 9
    Percent = 8
    Escape = 7
    Sub = {s1}
    Poller = poller
    WatchRequest <- MCBoth
    PollBatchSize = 2
    Depth = 4
    Partition = {p1, p2}
CONSTRAINT WorkersOrReplay
SYMMETRY WorkerSymmetry
SPECIFICATION WatchSpec
INVARIANTS NothingMissed SentinelFits AfterComplete
