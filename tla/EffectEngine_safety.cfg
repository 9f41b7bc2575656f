SPECIFICATION Spec
CONSTANTS
    e1 = e1
    e2 = e2
    c = c
    Lowest = 3
    Priorities <- MCPriorities
    Colors <- MCColors
    Black = black
    Effects <- MCEffects
    Names <- MCNames
    EffectTimeouts <- MCEffectTimeouts
    ClientColor = c
    ClientTimeouts <- MCClientTimeouts
    Foregrounds <- MCStart
    Backgrounds <- MCStart
    MaxTime = 3
    MaxQueue = 2
SYMMETRY MCSymmetry
INVARIANTS
    FinishClearsOwnChannel
    TimedEffectsTimeOut
    NothingAfterFinished
CHECK_DEADLOCK FALSE
