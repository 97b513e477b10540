CONSTANTS
    Key = {1, 2}
    Transaction <- MCTransaction
    MaxClock = 4
    MaxParts = 4
    PendingCap = 1
    StartLag = 0
    MaxFaults = 1
CONSTRAINTS SplitThenMerge CompactedWereWritten LateShutdown
ACTION_CONSTRAINT FlushBeforeRestart
SPECIFICATION FairStreamSpec
CHECK_DEADLOCK FALSE
INVARIANTS StreamTypeOK ResumeSafe QueryInRange SplitOrder
PROPERTIES EveryRowDispatched ShutdownReturns
