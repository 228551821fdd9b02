CONSTANTS
    Node = {x1, x2, x3}
    Name = {n1, n2}
    Password = {q1, q2}
    NULL = NULL
SPECIFICATION FairSpec
INVARIANTS TypeOK WellLinked CursorSafe
PROPERTIES CallsReturn ImplementsAccountList
