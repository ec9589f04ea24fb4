\* One candidate, all four checks ruleable, two runs in flight.
CONSTANTS
    Candidates = {c1}
    Runs = {r1, r2}
    NoCandidate = NoCandidate
    Named = {}
    VisionWired = FALSE
    Ruleable = {"sensitivity", "prior_appearance", "corroboration", "context"}
SPECIFICATION Spec
SYMMETRY Symmetry
INVARIANTS
    VerifiedRestsOnAPerson
    TrailIsThePath
    NothingDrawnUnearned
    TakedownIsNeverForgotten
PROPERTIES
    DecisionsStand
    KeepsThePromise
