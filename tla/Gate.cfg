SPECIFICATION Spec
CONSTANTS
    Nil = Nil
    s1 = s1
    s2 = s2
    k1 = k1
    c1 = c1
    c2 = c2
    d1 = d1
    Servers = {s1, s2}
    Keys = {k1}
    Callers = {c1, c2}
    Draws = {d1}
    Limit = 2
    Window = 4
    Spread = 1
    Stall = 1
    Deletions = 1
    LoginLimit = 1
    LoginWindow = 1
    Excess = 1
SYMMETRY Symmetry
INVARIANTS
    TypeOK
    AdmittedWithinLimit
    LoginsCharged
PROPERTIES
    LoginRefusedOnlyWhenFull
