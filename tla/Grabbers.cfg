SPECIFICATION FairSpec
CONSTANTS
    Lowest = 5
    Priorities <- MCPriorities
    Colors = {red}
    Black = black
    ScreenTypes = {"x11", "amlogic"}
    ScreenPriority = 4
    ScreenTimeout = 1
    VideoPriority = 2
    VideoTimeout = 1
    Devices <- MCDevices
    FrameDecimation = 2
    SignalThreshold = 2
    UseKodiChecker = TRUE
    OtherPriority = 1
    MaxTime = 2
    MaxEvents = 2
INVARIANTS
    OffIsNotStreaming
PROPERTIES
    VideoYields
    VideoResumes
CHECK_DEADLOCK FALSE
