SPECIFICATION DriverSpec
CONSTANTS
    t1 = t1
    t2 = t2
    Tasks <- MCTasks
    RadioQueueDepth = 2
    StreakModulus = 7
    CadAttempts = 3
    RecoveryLimit = 3
    MaxFailures = 4
INVARIANTS
    OvertakingBounded
    SuccessWasTransmitted
    ReadyMeansListening
PROPERTIES
    HighAndLowAreServed
    RequestEnds
    FrameIsPickedUp
