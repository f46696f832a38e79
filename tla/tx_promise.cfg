SPECIFICATION LiveSpec
CONSTANTS
    MAX_MESSAGES = 1
    Ids <- MCIds
    Nodes = {me, peer}
    ALL = ALL
    Epochs = {0}
    NvsOutcomes <- MCOkOnly
    NoMessage = NoMessage
    Corrupt = Corrupt
    Me = me
    Destinations = {peer, ALL}
    TX_RETRY_MAX_ATTEMPTS = 2
    RequestIds = {1, 2, 3, 4}
    CounterOutcomes <- MCOkOnly
    RxIds = {1}
    MaxId = 2
    MaxCrashes = 1
    NoEntry = NoEntry
    NoRequest = NoRequest
INVARIANTS
    PendingIsScheduled
    SentWasOnAir
PROPERTIES
    KeepsPromise
