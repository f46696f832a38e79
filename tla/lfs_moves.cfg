SPECIFICATION LittlefsSpec
CONSTANTS
    Nothing = Nothing
    None = None
    NoGoal = NoGoal
    PairBlocks = {1, 2, 3}
    Units = 5
    MaxCommits = 0
    RevModulus = 10
    block_cycles = 2
    MaxPairFaults = 0
    MaxPairLosses = 0
    TreeBlockCount = 10
    Names = {1, 2}
    MaxEntries = 1
    MaxDepth = 2
    MaxOps = 3
    MaxRelocations = 2
    MaxPowerLosses = 1
    Writers = {w}
    Readers = {r}
    Syncers = {w}
    BlockCount = 6
    BlockSize = 5
    Window = 2
    InlineMax = 2
    FileMax = 10
    Modes = {{}, {"trunc"}, {"append"}}
    Sizes = {1, 6}
    Offsets = {0, 4}
    Seeds = {0, 4}
    BadAtFirstWord = FALSE
    MaxCalls = 0
    MaxFaults = 0
    MaxLosses = 0
PROPERTY TreeIsAtomic
CHECK_DEADLOCK FALSE
