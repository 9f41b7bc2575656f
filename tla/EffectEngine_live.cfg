SPECIFICATION FairSpec
CONSTANTS
    e1 = e1
    e2 = e2
    c = c
    Lowest = 3
    Priorities <- MCPrioritiesOne
    Colors <- MCColors
    Black = black
    Effects <- MCEffects
    Names <- MCNames
    EffectTimeouts <- MCEffectTimeouts
    ClientColor = c
    ClientTimeouts <- MCClientTimeouts
    Foregrounds <- MCForegrounds
    Backgrounds <- MCNone
    MaxTime = 2
    MaxQueue = 1
PROPERTIES
    AbortedEffectsEnd
    TimedEffectsEnd
CHECK_DEADLOCK FALSE
