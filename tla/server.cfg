SPECIFICATION SSpec
CONSTANTS
    None = None
    Limiter <- Limiters
    Max <- MCMax
    Window <- MCWindow
    MaxGlobal = 1
    WindowGlobal = 1
    MaxAuth = 2
    WindowAuth = 2
    MaxRetries = 1
    MaxOutages = 1
    Conn = {c1}
    Call = {s1, s2}
    ShutdownTimeout = 1
INVARIANTS
    ServerInv
    BurstBound
PROPERTIES
    CleanExit
    LimitLifts
    RequestsEnd
    ShutdownEnds
