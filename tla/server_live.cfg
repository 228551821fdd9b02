CONSTANTS
    CONN_MAX = 3
    TIMEOUT_LIMIT = 0
    ServerFd = 3
    MaxBacklog = 1
    MaxUnread = 1
    Faults = FALSE
SPECIFICATION FairSpec
PROPERTIES HangUpReaped SilentIsBooted ShutsDown
