SPECIFICATION Spec
CONSTANTS
    Nil = Nil
    a = a
    lo = lo
    up = up
    p1 = p1
    p2 = p2
    r1 = r1
    r2 = r2
    r3 = r3
    Addresses = {a}
    Spellings = {lo, up}
    Passwords = {p1, p2}
    SignUps <- RegisteredCredentials
    SignIns <- SentCredentials
    Requests = {r1, r2, r3}
    NumCPU = 1
INVARIANTS
    TypeOK
    OneAccountPerAddress
    RegisteredLogsIn
PROPERTIES
    EveryRequestAnswered
