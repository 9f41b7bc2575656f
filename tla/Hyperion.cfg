SPECIFICATION FairSpec
CONSTANTS
    Lowest = 3
    Priorities <- MCPriorities
    Colors = {red}
    Black = black
    ClientComponents <- MCComponents
    Timeouts <- MCTimeouts
    MaxTime = 2
    MaxSteps = 1
INVARIANTS
    TypeOK
    CurrentIsLowest
    LedsShowCurrent
    TimerCoversShown
    BacklightFollowsComponent
PROPERTIES
    ExpiredLeavesLeds
    ImplementsArbiter
CHECK_DEADLOCK FALSE
