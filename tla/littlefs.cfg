SPECIFICATION LittlefsSpec
CONSTANTS
    Nothing = Nothing
    None = None
    NoGoal = NoGoal
    PairBlocks = {1, 2, 3}
    Units = 5
    MaxCommits = 4
    RevModulus = 10
    block_cycles = 2
    MaxPairFaults = 1
    MaxPairLosses = 1
    TreeBlockCount = 10
    Names = {1, 2}
    MaxEntries = 1
    MaxDepth = 2
    MaxOps = 3
    MaxRelocations = 1
    MaxPowerLosses = 1
    Writers = {w}
    Readers = {r}
    Syncers = {w}
    BlockCount = 6
    BlockSize = 5
    Window = 2
    InlineMax = 2
    FileMax = 10
    Modes = {{}, {"trunc"}, {"append"}}
    Sizes = {1, 6}
    Offsets = {0, 4}
    Seeds = {0, 4}
    BadAtFirstWord = FALSE
    MaxCalls = 4
    MaxFaults = 1
    MaxLosses = 1
INVARIANTS
    ListIsTree
    HandleKeepsItsContents
PROPERTIES
    PairIsAtomic
    TreeIsAtomic
    FileIsAtomic
CHECK_DEADLOCK FALSE
