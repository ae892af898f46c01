SPECIFICATION Spec
CONSTANTS
    Nil = Nil
    w1 = w1
    w2 = w2
    j1 = j1
    j2 = j2
    j3 = j3
    j4 = j4
    Workers = {w1, w2}
    Jobs = {j1, j2, j3, j4}
    QueueSizes = {0, 1, 2}
CHECK_DEADLOCK FALSE
INVARIANTS
    TypeOK
    EachJobOnce
PROPERTIES
    AcceptedHandled
    ImplementsQueue
