SPECIFICATION Spec
CONSTANTS
    NULL = NULL
    Freed = Freed
    ThreadNodes = {t1, t2, t3, t4}
    LruNodes = {e1, e2, e3}
    WaitQueues = {w1, w2}
SYMMETRY Symmetry
INVARIANTS
    ListsWellFormed
PROPERTIES
    ImplementsSequences
CHECK_DEADLOCK FALSE
