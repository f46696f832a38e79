SPECIFICATION MCSpec
CONSTANTS
    n1 = n1
    n2 = n2
    MAX_MESSAGES = 2
    Ids <- MCIds
    Nodes = {n1, n2}
    ALL = ALL
    Epochs = {0, 1, 2}
    NvsOutcomes <- MCNvsOutcomes
    NoMessage = NoMessage
    Corrupt = Corrupt
    Tasks = {http, rx}
    MaxId = 2
    MaxSetups = 2
    MaxFaults = 1
    \* Before the first key and after the last, after the flag, and between the
    \* keys of the location.
    EraseCuts = {1, 2, 7, 13}
    Missing = Missing
    Weak = Weak
    Random = Random
    Default = Default
    Legacy = Legacy
    LongKeys = {"default_priority"}
    Identity <- MCIdentity
SYMMETRY MCSymmetry
INVARIANTS
    ReservationsExact
    CleanSlotIsDurable
    DeletedStaysDeleted
    ScanFindsOldest
    ShowsOwnMail
    ConfiguredIsWhole
PROPERTY SetupSurvives
