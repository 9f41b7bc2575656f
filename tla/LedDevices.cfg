SPECIFICATION FairSpec
CONSTANTS
    Setups <- Setups_
    MaxTimers = 2
    MaxPacket = 4
    DMX_MAX = 4
    ChunkSize = 1
    StripLength = 3
    WhiteAlgorithm = "subtract_minimum"
    GpioMap <- GpioMap_
    OrbIds <- OrbIds_
INVARIANTS
    FrameMatchesLayout
    DeviceShowsFrame
    BlockedHasTimer
PROPERTIES
    Reopens
    LastFrameShown
CHECK_DEADLOCK FALSE
