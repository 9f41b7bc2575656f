SPECIFICATION Spec
CONSTANTS
    Lowest = 3
    Priorities <- MCPriorities
    Colors <- MCColors
    Black = "black"
    IsValid <- CheckJson
    Clients = {c1, c2}
    EffectForms <- MCForms
    Resources = ":/effects/"
    EffectPaths <- MCPaths
    DisabledEffects = {"Strobe"}
    InitialDisk <- MCDisk
    Requests <- MCRequests
    WebRequests <- MCWebRequests
    LogsDebug = TRUE
    MaxRequests = 3
    MaxUnread = 1
    MaxOpens = 2
INVARIANTS
    StreamsStop
    NoRequestForgotten
PROPERTIES
    ImageSentOnce
SYMMETRY MCSymmetry
CHECK_DEADLOCK FALSE
