CONSTANTS
    CONN_MAX = 4
    TIMEOUT_LIMIT = 0
    ServerFd = 3
    MaxBacklog = 1
    MaxUnread = 1
    Faults = TRUE
SPECIFICATION Spec
INVARIANTS TypeOK TablesAgree CountExact NeverBlocksInRecv AtMostOneOrphan
PROPERTIES NoWrongfulClose
