SPECIFICATION Spec
CONSTANTS
    a1 = a1
    a2 = a2
    a3 = a3
    Articles = {a1, a2, a3}
    Runs = {r1}
    NoArticle = NoArticle
    PublisherOf <- MCOwn
    EventOf <- MCUnlinked
    NoEvent = NoEvent
    SimilarTo <- MCUnlike
    Day = 5
    StoryCooldown = 6
    MaxPerDay = 2
    PendingHang = 1
    CycleHang = 2
    MaxClock = 6
    WorkerDies = TRUE
    AnswersAreLost = TRUE
INVARIANTS RateHeld AtMostTwoUploads
PROPERTY PublishesUnderClaims
SYMMETRY MCSymmetry
