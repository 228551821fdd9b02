CONSTANTS
    Workers = {w1, w2}
    Callers = {c1}
    Work = {x1, x2}
    NULL = NULL
    Unstartable = {w2}
SPECIFICATION Spec
INVARIANTS CreateDelivers
