SPECIFICATION MCSpec
CONSTANTS
    a = a
    b = b
    Nodes = {a, b}
    ALL = ALL
    Mail <- MCMail
    Requesters = {a}
    Portals = {a}
    Clocks = {1, 2}
    PAYLOAD_LEN = 8
    MaxRecords = 2
    MaxCursors = 1
    SyncQueueDepth = 1
    REPLAY_WINDOW_SIZE = 4
    MaxId <- MCMaxId
    MaxFaults = 1
CHECK_DEADLOCK FALSE
INVARIANTS
    ImportedOnce
    OnlyOwnMail
PROPERTIES
    FirstClockWins
    MissedIsRecovered
