CONSTANTS
    r1 = r1
    r2 = r2
    k1 = k1
    Absent = Absent
    Replica = {r1, r2}
    LeaseID = {7}
    Key = {k1}
    RevokeAt = {}
    TTL = 2
    Attempts = 5
    MaxTime = 6
    MaxErrors = 0
    MaxRestarts = 0
SPECIFICATION LeaseSpec
PROPERTY KeepaliveHonoured
