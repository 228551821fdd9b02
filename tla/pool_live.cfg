CONSTANTS
    Workers = {w1, w2, w3}
    Callers = {c1}
    Work = {x1, x2, x3}
    NULL = NULL
    Unstartable = {}
SPECIFICATION FairSpec
INVARIANTS NoStrandedWaiter
PROPERTIES WaitReturns DestroyReturns ImplementsFairJobService
