SPECIFICATION Spec
CONSTANTS
    r1 = r1
    r2 = r2
    r3 = r3
    Requests = {r1, r2, r3}
    Hopeless = {r1}
    Unreliable = {r2}
CHECK_DEADLOCK FALSE
INVARIANTS
    TypeOK
    QueueWaitsOnRefresh
    CompromisedOnlyWhenSevered
PROPERTIES
    EveryRequestSettles
