SPECIFICATION Spec
CONSTANTS
    Sizes <- MCSizes
    Mode = "classic"
    BlurRemoveCnt = 1
    UnknownSwitchCnt = 3
    BorderSwitchCnt = 2
    MaxInconsistentCnt = 1
    FirstInconsistentCnt = 1
INVARIANTS
    TypeOK
    ConsistentBorderWins
    MappingNotStale
    BorderFits
PROPERTY SwitchNeedsFrames
