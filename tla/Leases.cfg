CONSTANTS
    r1 = r1
    r2 = r2
    k1 = k1
    Absent = Absent
    Replica = {r1}
    LeaseID = {7}
    Key = {k1}
    RevokeAt = {r1}
    TTL = 2
    Attempts = 2
    MaxTime = 5
    MaxErrors = 2
    MaxRestarts = 1
CONSTRAINTS GrantFirst OneTrouble Leased
ACTION_CONSTRAINT LateSteps
SPECIFICATION FairLeaseSpec
INVARIANTS LeaseTypeOK NoOrphanedKey
PROPERTIES KeyOutlivesOtherLease LeaseExpires
