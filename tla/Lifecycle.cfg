SPECIFICATION Spec
CONSTANTS
    r1 = r1
    r2 = r2
    r3 = r3
    Conns = {r1, r2, r3}
    MaxSignals = 3
CHECK_DEADLOCK FALSE
INVARIANTS
    TypeOK
    NothingCutOff
    EndsTidily
PROPERTIES
    SignalEndsProcess
