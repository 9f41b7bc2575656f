SPECIFICATION FairSpec
CONSTANTS
    GrabConfigurations <- MCGrabConfigurations
    StereoModes = {"2D", "3DSBS"}
    MaxEvents = 3
INVARIANTS
    GrabbingModeFollowsKodi
PROPERTIES
    Reconnects
CHECK_DEADLOCK FALSE
