\* The ruling a person records after a candidate has left verification.
CONSTANTS
    Candidates = {c1}
    Runs = {r1}
    NoCandidate = NoCandidate
    Named = {}
    VisionWired = FALSE
    Ruleable = {"sensitivity", "prior_appearance", "corroboration", "context"}
SPECIFICATION Spec
PROPERTIES
    HumanKillIsApplied
