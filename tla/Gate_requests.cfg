SPECIFICATION MomentSpec
CONSTANTS
    Nil = Nil
    s1 = s1
    k1 = k1
    c1 = c1
    d1 = d1
    d2 = d2
    Servers = {s1}
    Keys = {k1}
    Callers = {c1}
    Draws = {d1, d2}
    Limit = 2
    Window = 4
    Spread = 0
    Stall = 0
    Deletions = 0
    LoginLimit = 1
    LoginWindow = 1
    Excess = 1
CHECK_DEADLOCK FALSE
INVARIANTS
    RequestsWithinLimit
