SPECIFICATION Spec
CONSTANTS
    Nil = Nil
    u1 = u1
    b1 = b1
    r1 = r1
    r2 = r2
    t1 = t1
    t2 = t2
    k1 = k1
    k2 = k2
    p1 = p1
    Users = {u1}
    Browsers = {b1}
    Requests = {r1, r2}
    Tokens = {t1, t2}
    ResetTokens = {k1, k2}
    Passwords = {p1}
    Faulty = {r1}
    Perishable = {k1, k2, t1, t2}
    FillsValues = TRUE
SYMMETRY Symmetry
INVARIANTS
    TypeOK
    NoResetReplay
    ResetRevokesExisting
    ExchangedTokenIsDead
    CompromisedIsDead
