SPECIFICATION USpec
CONSTANTS
    u1 = u1
    u2 = u2
    u3 = u3
    u4 = u4
    User = {u1, u2, u3, u4}
    Name <- MCName
    Seed <- MCSeed
    Queries <- MCQueries
    MaxTime = 2
    MaxWrites = 2
    Absent = Absent
    None = None
INVARIANTS
    NoneMissed
    NoneRepeated
    PageMatchesTotal
CHECK_DEADLOCK FALSE
