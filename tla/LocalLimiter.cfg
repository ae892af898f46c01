SPECIFICATION Spec
CONSTANTS
    Nil = Nil
    k1 = k1
    e1 = e1
    e2 = e2
    c1 = c1
    c2 = c2
    Keys = {k1}
    Entries = {e1, e2}
    Callers = {c1, c2}
    Limit = 2
    Window = 3
    Stall = 1
    MaxTime = 6
SYMMETRY Symmetry
CHECK_DEADLOCK FALSE
INVARIANTS
    TypeOK
    EntryWithinLimit
PROPERTIES
    RetryAfterSuffices
    DeniedOnlyWhenFull
    SweepsOnlyStale
    EntryNotReplaced
