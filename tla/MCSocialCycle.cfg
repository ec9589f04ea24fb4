SPECIFICATION Spec
CONSTANTS
    a1 = a1
    a2 = a2
    a3 = a3
    e1 = e1
    Articles = {a1, a2, a3}
    Events = {e1}
    NoEvent = NoEvent
    NoArticle = NoArticle
    EventOf <- MCEventOf
    Order <- OnePlatform
    EventPlatform = "instagram"
    Sends <- MCSends
    MinInterval = 2
    Invocations = {i1, i2}
    Hang = 1
    MaxClock = 4
    MaxPosts = 3
    WorkerDies = TRUE
    AnswersAreLost = TRUE
INVARIANTS HolderIsVisible CadenceHeld RepeatsAreLosses
PROPERTIES HeartbeatNeverGoesBack YoungCyclesRunAlone SettledIsFinal
SYMMETRY MCSymmetry
