SPECIFICATION Spec
CONSTANTS
    MAX_MESSAGES = 2
    Ids <- MCIds
    Nodes = {me, peer}
    ALL = ALL
    Epochs = {0}
    NvsOutcomes <- MCAllOutcomes
    NoMessage = NoMessage
    Corrupt = Corrupt
    Me = me
    Destinations = {peer}
    TX_RETRY_MAX_ATTEMPTS = 1
    RequestIds = {1, 2}
    CounterOutcomes <- MCOkOnly
    RxIds = {1}
    MaxId = 2
    MaxCrashes = 1
    NoEntry = NoEntry
    NoRequest = NoRequest
INVARIANTS
    TxTypeOK
    EntryOwnsSlot
    SubmitHasRoom
    ReservationsHeld
PROPERTIES
    FinalStatusIsFinal
