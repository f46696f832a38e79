SPECIFICATION MeshNodeSpec
CONSTANTS
    a = a
    b = b
    c = c
    Nodes = {a, b, c}
    Links <- MCLine
    Traffic <- MCRelayed
    ALL = ALL
    DEFAULT_HOPS = 2
    MaxAttempts = 1
    MaxId = 2
    MaxReboots = 1
    Nobody = Nobody
    Sources = {n1, n2, n3}
    REPLAY_WINDOW_SIZE = 3
    REPLAY_SOURCE_TABLE_SIZE = 2
    HalfSequence = 5
    TickModulus = 5
    FirstSequence = 7
    MaxSent = 4
    MaxTicks = 3
    Free = Free
    Packets = {1, 2, 3}
    seen_bucket_index <- MCHash
    MAX_SEEN_PACKETS = 2
    DEDUP_EXPIRY_BUCKET_MS = 2
    DEDUP_EXPIRY_BUCKET_COUNT = 3
    ClockModulus = 32
    StartMs = 19
    MaxElapsed = 22
    Nothing = Nothing
    Destinations = {1, 2}
    NextHops = {1, 2}
    HopCounts = {0, 1, 2}
    Rssi <- MCRssi
    MAX_ROUTE_ENTRIES = 2
    ROUTE_STALE_MS = 2
    MaxRouteTime = 4
    RosterNodes = {r1, r2, r3}
    MAX_ROSTER_ENTRIES = 2
    ROSTER_STALE_MS = 2
    RosterModulus = 8
    MaxRosterTime = 5
    CodecNodes <- MCNodes
    NetworkKey <- MCKey
    PacketsSent <- MCPortalTypes
    FIELD_LEN = 5
    PAYLOAD_LEN = 8
    BEMS_MAX_PLAINTEXT = 39
    MaxLegs = 2
    FORWARD_QUEUE_DEPTH = 3
SYMMETRY MCSymmetry
INVARIANTS
    RelayedOnce
    RouteIsReal
    PacketsAreTrue
    VerdictIsIdeal
    EverySlotHasItsLists
    TablesHaveTheLatest
    CodecIsSound
    ForwardOvertakingBounded
PROPERTIES
    LeastRecentIsEvicted
    KnownForAMinute
CHECK_DEADLOCK FALSE
