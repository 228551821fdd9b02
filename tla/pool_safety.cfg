CONSTANTS
    Workers = {w1, w2, w3}
    Callers = {c1, c2}
    Work = {x1, x2, x3, x4}
    NULL = NULL
    Unstartable = {}
SYMMETRY Symmetric
SPECIFICATION Spec
INVARIANTS TypeOK CountersExact Lifecycle ListShape Ownership DestroyedQuiescent NoSleeperMissesWork
PROPERTIES WaitMeansIdle ImplementsJobService
