SPECIFICATION HSpec
CONSTANTS
    r1 = r1
    r2 = r2
    u1 = u1
    u2 = u2
    e1 = e1
    e2 = e2
    alice = alice
    Alice = Alice
    pw1 = pw1
    pw2 = pw2
    pw3 = pw3
    None = None
    Absent = Absent
    Deleted = Deleted
    Lower <- MCLower
    Digest <- MCDigest
    Pair <- MCPair
    UserId = {u1}
    Email = {e1}
    Username = {alice}
    Seed <- SeedOne
    Patches <- NoPatches
    Password = {pw1}
    Request = {r1}
    MaxPair = 2
    Ops <- ClockOps
    MaxClock = 4
    AccessTTL = 3
    RefreshTTL = 3
    ACCESS_TOKEN_TTL = 1
    REFRESH_TOKEN_TTL = 3
INVARIANTS
    LogoutIsFinal
