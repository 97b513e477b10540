CONSTANTS
    Key = {1}
    Transaction <- MCWrite
    MaxClock = 5
    MaxParts = 1
    PendingCap = 1
    StartLag = 1
    MaxFaults = 1
ACTION_CONSTRAINT CursorsLoad
SPECIFICATION FairStreamSpec
CHECK_DEADLOCK FALSE
PROPERTIES RestartResumes
