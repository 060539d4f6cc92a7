SPECIFICATION KSpec
CONSTANTS
    u1 = u1
    u2 = u2
    t1 = t1
    t2 = t2
    t3 = t3
    User = {u1, u2}
    Token = {t1, t2, t3}
    Owner <- MCOwner
    Txn = {x1, x2, x3, x4}
    None = None
SYMMETRY Transactions
INVARIANTS
    KnownDeadlocks
