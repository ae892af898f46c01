SPECIFICATION Spec
CONSTANTS
    Nil = Nil
    u1 = u1
    b1 = b1
    r1 = r1
    t1 = t1
    t2 = t2
    k1 = k1
    p1 = p1
    Users = {u1}
    Browsers = {b1}
    Requests = {r1}
    Tokens = {t1, t2}
    ResetTokens = {k1}
    Passwords = {p1}
    Faulty = {}
    Perishable = {}
    FillsValues = FALSE
SYMMETRY Symmetry
INVARIANTS
    ValidTokenVerifies
