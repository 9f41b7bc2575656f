SPECIFICATION FairSpec
CONSTANTS
    MaxColor = 3
    Settling = 4
    Interval = 2
    OutputDelay = 2
    Continuous <- BothOutputs
    MaxLate = 1
    ClockSteps <- AnyClockSteps
    MaxSteps = 1
INVARIANTS
    TypeOK
    DelayLineBounded
PROPERTIES
    ApproachesTarget
    FrameReachesDevice
