SPECIFICATION NodeSpec
CONSTANTS
    MaxSetups = 1
    MaxFaults = 0
    EraseCuts <- MCEraseCuts
    Missing = Missing
    Weak = Weak
    Random = Random
    Default = Default
    Legacy = Legacy
    LongKeys = {}
PROPERTY SetupReboots
