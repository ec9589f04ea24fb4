\* Two cycles that may overlap, over one full window of the rate gate.
CONSTANTS
    Events = {e1, e2, e3, e4}
    Runs = {r1, r2}
    NoEvent = NoEvent
    Week = 5
    MaxPerWeek = 2
    MaxClock = 5
    WorkerDies = TRUE
SPECIFICATION Spec
SYMMETRY Symmetry
INVARIANTS
    OneFilmPerEvent
    ClaimHasOneOwner
    RateHeld
PROPERTY PublishesUnderClaims
CHECK_DEADLOCK FALSE
