SPECIFICATION MeshSpec
CONSTANTS
    a = a
    b = b
    c = c
    Nodes = {a, b, c}
    Links <- MCLine
    Traffic <- MCRelayed
    ALL = ALL
    DEFAULT_HOPS = 3
    MaxAttempts = 1
    MaxId = 3
    MaxReboots = 0
    Nobody = Nobody
CHECK_DEADLOCK FALSE
INVARIANT
    RelayWithRouteForwards
