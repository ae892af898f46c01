SPECIFICATION Spec
CONSTANTS
    Nil = Nil
    u1 = u1
    u2 = u2
    b1 = b1
    r1 = r1
    r2 = r2
    t1 = t1
    t2 = t2
    t3 = t3
    k1 = k1
    p1 = p1
    p2 = p2
    Users = {u1, u2}
    Browsers = {b1}
    Requests = {r1, r2}
    Tokens = {t1, t2, t3}
    ResetTokens = {k1}
    Passwords = {p1, p2}
    Faulty = {}
    Perishable = {}
    FillsValues = TRUE
SYMMETRY Symmetry
INVARIANTS
    NoRefreshReplay
    LoginLinearizable
PROPERTIES
    ChangesOnlyOwnRows
    ImplementsLedger
