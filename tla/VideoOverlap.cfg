SPECIFICATION Spec
CONSTANTS
    a1 = a1
    a2 = a2
    a3 = a3
    Articles = {a1, a2, a3}
    Runs = {r1, r2}
    NoArticle = NoArticle
    PublisherOf <- MCPublisherOf
    EventOf <- MCEventOf
    NoEvent = NoEvent
    SimilarTo <- MCSimilarTo
    Day = 2
    StoryCooldown = 3
    MaxPerDay = 2
    PendingHang = 1
    CycleHang = 1
    MaxClock = 3
    WorkerDies = FALSE
    AnswersAreLost = FALSE
INVARIANT CooldownsHeld
PROPERTY PublishedStands
SYMMETRY MCRunSymmetry
